------------------------- MODULE MelFrontend_proofs -------------------------
(***************************************************************************)
(* Proofs about the audio frontend, for every window, hop, padding and     *)
(* slice that MelAssumption allows, and every way of cutting the audio     *)
(* into feeds: what it holds between calls, that the drain finds there     *)
(* every frame it asks for, and - for audio short enough for the 32-bit    *)
(* positions of fill_window - that what the encoder is given, and what the *)
(* whole-utterance matrix keeps, is what the batch frontend computes from  *)
(* the complete audio.                                                     *)
(***************************************************************************)
EXTENDS MelFrontend, SequenceTheorems, NaturalsInduction,
        WellFoundedInduction, TLAPS

-----------------------------------------------------------------------------
(* Arithmetic of hops and windows.                                         *)

\* A set of natural numbers has a least element.
LEMMA LeastElement ==
    ASSUME NEW S, S \subseteq Nat, S # {}
    PROVE  \E x \in S : \A y \in S : x <= y
  <1>1. PICK x \in S : \A y \in S : ~(<<y, x>> \in OpToRel(<, Nat))
    BY NatLessThanWellFounded, WFMin
  <1>2. \A y \in S : x <= y
    <2> SUFFICES ASSUME NEW y \in S, y < x
                 PROVE  FALSE
      OBVIOUS
    <2>1. <<y, x>> \in Nat \X Nat /\ <<y, x>>[1] < <<y, x>>[2]
      OBVIOUS
    <2>2. <<y, x>> \in OpToRel(<, Nat)
      BY <2>1 DEF OpToRel
    <2> QED  BY <1>1, <2>2
  <1> QED  BY <1>2

\* Multiples of a positive number grow with the factor, and faster than it.
LEMMA Multiples ==
    ASSUME NEW h \in Nat \ {0}, NEW f \in Nat, NEW d \in Nat
    PROVE  /\ f * h \in Nat /\ f <= f * h
           /\ (f + d) * h = f * h + d * h /\ d * h \in Nat
           /\ d > 0 => d * h >= h
  <1>1. f * h \in Nat /\ d * h \in Nat /\ (f + d) * h = f * h + d * h
    OBVIOUS
  <1>2. PICK k \in Nat : h = k + 1
    <2>1. h - 1 \in Nat /\ h = (h - 1) + 1
      OBVIOUS
    <2> QED  BY <2>1
  <1>3. f * h = f * k + f /\ f * k \in Nat
    BY <1>2
  <1>4. ASSUME d > 0
        PROVE  d * h >= h
    <2>1. PICK e \in Nat : d = e + 1
      <3>1. d - 1 \in Nat /\ d = (d - 1) + 1
        BY <1>4
      <3> QED  BY <3>1
    <2>2. d * h = e * h + h /\ e * h \in Nat
      BY <2>1
    <2> QED  BY <2>2
  <1> QED  BY <1>1, <1>3, <1>4

\* The first and the last sample of a frame: the window lies around f * Hop, and
\* only that of the first frame reaches further to the right by its reflection.
LEMMA FrameBounds ==
    ASSUME NEW f \in Nat
    PROVE  /\ f * Hop \in Nat /\ FrameLo(f) \in Nat
           /\ FrameHi(f) \in Nat
           /\ FrameLo(f) = IF f * Hop < Pad THEN 0 ELSE f * Hop - Pad
           /\ FrameHi(f) = IF f * Hop = 0 THEN Pad ELSE f * Hop + Pad - 1
           /\ Pad \in Nat /\ Hop \in Nat /\ 1 <= Hop /\ Hop <= Pad /\ Fft = 2 * Pad
  <1> DEFINE x == f * Hop
  <1>1. Hop \in Nat \ {0} /\ Pad \in Nat /\ Hop <= Pad /\ Fft = 2 * Pad
    BY MelAssumption
  <1>2. x \in Nat
    BY <1>1
  <1>3. FrameLo(f) = IF x < Pad THEN 0 ELSE x - Pad
    BY DEF FrameLo
  <1>4. FrameHi(f) = IF x - Pad < 0 /\ -(x - Pad) > x + (Fft - 1) - Pad
                     THEN -(x - Pad) ELSE x + (Fft - 1) - Pad
    BY DEF FrameHi
  <1> HIDE DEF x
  <1>5. FrameHi(f) = IF x = 0 THEN Pad ELSE x + Pad - 1
    BY <1>1, <1>2, <1>4
  <1> QED  BY <1>1, <1>2, <1>3, <1>5 DEF x

\* Later frames start and end later.
LEMMA FramesGrow ==
    ASSUME NEW f \in Nat, NEW g \in Nat, f < g
    PROVE  f * Hop + Hop <= g * Hop /\ FrameLo(f) <= FrameLo(g)
  <1>1. PICK d \in Nat : g = f + d /\ d > 0
    <2>1. g - f \in Nat /\ g = f + (g - f) /\ g - f > 0
      OBVIOUS
    <2> QED  BY <2>1
  <1>2. Hop \in Nat \ {0}
    BY MelAssumption
  <1>3. g * Hop = f * Hop + d * Hop /\ d * Hop >= Hop /\ d * Hop \in Nat /\ f * Hop \in Nat
    BY <1>1, <1>2, Multiples
  <1> DEFINE x == f * Hop
             y == g * Hop
  <1>4. x + Hop <= y /\ x \in Nat /\ y \in Nat
    <2> DEFINE z == d * Hop
    <2>1. y = x + z /\ z >= Hop /\ z \in Nat /\ x \in Nat
      BY <1>3
    <2> HIDE DEF x, y, z
    <2> QED  BY <1>2, <2>1
  <1>5. /\ FrameLo(f) = IF x < Pad THEN 0 ELSE x - Pad
        /\ FrameLo(g) = IF y < Pad THEN 0 ELSE y - Pad
        /\ Pad \in Nat
    BY FrameBounds
  <1> HIDE DEF x, y
  <1>6. FrameLo(f) <= FrameLo(g)
    BY <1>2, <1>4, <1>5
  <1> QED  BY <1>4, <1>6 DEF x, y

\* The first unstable frame exists, and every frame before it is stable.
LEMMA FirstUnstableProperty ==
    ASSUME next_frame \in Nat, NEW total \in Nat
    PROVE  LET e == FirstUnstable(total)
           IN  /\ e \in Nat /\ e >= next_frame /\ FrameHi(e) > total - 1
               /\ \A g \in next_frame .. (e - 1) : FrameHi(g) <= total - 1
  <1> DEFINE S == {f \in next_frame .. (next_frame + total) : FrameHi(f) > total - 1}
             top == next_frame + total
  <1>1. top \in S
    <2>1. top \in Nat /\ top \in next_frame .. (next_frame + total) /\ top >= total
      OBVIOUS
    <2> HIDE DEF top
    <2>2. Hop \in Nat \ {0} /\ top <= top * Hop /\ top * Hop \in Nat
      BY <2>1, Multiples, MelAssumption
    <2>3. FrameHi(top) > total - 1
      <3> DEFINE x == top * Hop
      <3>1. /\ FrameHi(top) = IF x = 0 THEN Pad ELSE x + Pad - 1
            /\ Pad \in Nat /\ Hop \in Nat /\ 1 <= Hop /\ Hop <= Pad
        BY <2>1, FrameBounds
      <3>2. top <= x /\ x \in Nat
        BY <2>2
      <3> HIDE DEF x
      <3> QED  BY <2>1, <3>1, <3>2
    <2> QED  BY <2>1, <2>3
  <1>2. S \subseteq Nat
    OBVIOUS
  <1>3. PICK x \in S : \A y \in S : x <= y
    BY <1>1, <1>2, LeastElement
  <1>4. \A g \in next_frame .. (x - 1) : FrameHi(g) <= total - 1
    <2> SUFFICES ASSUME NEW g \in next_frame .. (x - 1), ~(FrameHi(g) <= total - 1)
                 PROVE  FALSE
      OBVIOUS
    <2>1. g \in Nat /\ g \in next_frame .. (next_frame + total) /\ g < x
      BY <1>3
    <2>2. FrameHi(g) \in Nat
      BY <2>1, FrameBounds
    <2>3. g \in S
      BY <2>1, <2>2
    <2> QED  BY <1>3, <2>1, <2>3
  <1>5. \E f \in next_frame .. (next_frame + total) :
            /\ FrameHi(f) > total - 1
            /\ \A g \in next_frame .. (f - 1) : FrameHi(g) <= total - 1
    BY <1>3, <1>4
  <1>6. /\ FirstUnstable(total) \in next_frame .. (next_frame + total)
        /\ FrameHi(FirstUnstable(total)) > total - 1
        /\ \A g \in next_frame .. (FirstUnstable(total) - 1) : FrameHi(g) <= total - 1
    BY <1>5 DEF FirstUnstable
  <1> QED  BY <1>6
-----------------------------------------------------------------------------
(* Buffers.                                                                *)

Window == [1 .. Fft -> Int]

\* Dropping the first elements.
LEMMA Suffix ==
    ASSUME NEW E, NEW s \in Seq(E), NEW d \in 0 .. Len(s)
    PROVE  /\ SubSeq(s, d + 1, Len(s)) \in Seq(E)
           /\ Len(SubSeq(s, d + 1, Len(s))) = Len(s) - d
           /\ \A i \in 1 .. Len(s) - d : SubSeq(s, d + 1, Len(s))[i] = s[d + i]
  <1> DEFINE r == SubSeq(s, d + 1, Len(s))
  <1>1. Len(s) \in Nat /\ d \in Nat /\ d <= Len(s)
    BY LenProperties
  <1>2. \A i \in d + 1 .. Len(s) : s[i] \in E
    BY <1>1, ElementOfSeq
  <1>3. /\ r \in Seq(E) /\ Len(r) = IF d + 1 <= Len(s) THEN Len(s) - (d + 1) + 1 ELSE 0
        /\ \A i \in 1 .. Len(s) - (d + 1) + 1 : r[i] = s[(d + 1) + i - 1]
    BY <1>1, <1>2, SubSeqProperties
  <1> HIDE DEF r
  <1>4. Len(r) = Len(s) - d /\ Len(s) - (d + 1) + 1 = Len(s) - d
    BY <1>1, <1>3
  <1>5. ASSUME NEW i \in 1 .. Len(s) - d
        PROVE  r[i] = s[d + i]
    <2>1. (d + 1) + i - 1 = d + i /\ i \in 1 .. Len(s) - (d + 1) + 1
      BY <1>1
    <2>2. r[i] = s[(d + 1) + i - 1]
      BY <1>3, <2>1
    <2> QED  BY <2>1, <2>2
  <1> QED  BY <1>3, <1>4, <1>5 DEF r

\* Silence, and frames computed from a buffer, are sequences of their length.
LEMMA SilenceProperty ==
    ASSUME NEW n \in Nat
    PROVE  Silence(n) \in Seq(Int) /\ Len(Silence(n)) = n /\ \A i \in 1 .. n : Silence(n)[i] = 0
  BY DEF Silence

LEMMA SamplesProperty ==
    ASSUME NEW n \in Nat, NEW from \in Nat
    PROVE  LET s == [i \in 1 .. n |-> from + i]
           IN  s \in Seq(Int) /\ Len(s) = n /\ \A i \in 1 .. n : s[i] = from + i
  OBVIOUS

LEMMA FramesOfProperty ==
    ASSUME NEW buffer \in Seq(Int), NEW base, NEW first \in Nat, NEW last \in Nat,
           first <= last, NEW n
    PROVE  LET s == FramesOf(buffer, base, first, last, n)
           IN  /\ s \in Seq(Window) /\ Len(s) = last - first
               /\ \A k \in 1 .. last - first : s[k] = FrameOf(buffer, base, first + k - 1, n)
  <1>1. ASSUME NEW f
        PROVE  FrameOf(buffer, base, f, n) \in Window
    <2> DEFINE w == WindowIndex(f, n)
    <2> SUFFICES ASSUME NEW i \in 1 .. Fft, w[i] - base \in 0 .. (Len(buffer) - 1)
                 PROVE  buffer[w[i] - base + 1] \in Int
      BY DEF FrameOf, Window, Outside
    <2>1. PICK v \in 0 .. (Len(buffer) - 1) : v = w[i] - base
      OBVIOUS
    <2>2. Len(buffer) \in Nat
      BY LenProperties
    <2>3. v + 1 \in 1 .. Len(buffer)
      BY <2>2
    <2>4. buffer[v + 1] \in Int
      BY <2>3, ElementOfSeq
    <2> QED  BY <2>1, <2>4
  <1>2. last - first \in Nat
    OBVIOUS
  <1> QED  BY <1>1, <1>2 DEF FramesOf

-----------------------------------------------------------------------------
(* The frontend.                                                           *)

\* What the frontend holds: the samples from the first one the next frame may
\* read, and the frames from mel_base_frame to the next.
FrontInv ==
    /\ pcm \in Seq(Int) /\ mel_frames \in Seq(Window)
    /\ pcm_base \in Nat /\ total_received \in Nat /\ next_frame \in Nat /\ mel_base_frame \in Nat
    /\ finalized \in BOOLEAN /\ retain_history \in BOOLEAN
    /\ pcm_base + Len(pcm) = total_received
    /\ finalized => pcm = <<>>
    /\ ~finalized => /\ pcm_base = FrameLo(next_frame)
                     /\ total_received <= FrameHi(next_frame)
                     /\ next_frame * Hop <= total_received
    /\ mel_base_frame + Len(mel_frames) = next_frame

\* The samples held are fewer than a window's.
LEMMA LessThanWindow ==
    ASSUME FrontInv
    PROVE  Len(pcm) < Fft
  <1> DEFINE x == next_frame * Hop
  <1>1. /\ x \in Nat /\ FrameLo(next_frame) = IF x < Pad THEN 0 ELSE x - Pad
        /\ FrameHi(next_frame) = IF x = 0 THEN Pad ELSE x + Pad - 1
        /\ Pad \in Nat /\ Hop \in Nat /\ 1 <= Hop /\ Hop <= Pad /\ Fft = 2 * Pad
    BY FrameBounds DEF FrontInv
  <1>2. Len(pcm) \in Nat /\ total_received \in Nat /\ pcm_base + Len(pcm) = total_received
    BY LenProperties DEF FrontInv
  <1>3. CASE finalized
    <2>1. Len(pcm) = 0
      BY <1>3 DEF FrontInv
    <2> QED  BY <1>1, <2>1
  <1>4. CASE ~finalized
    <2>1. pcm_base = FrameLo(next_frame) /\ total_received <= FrameHi(next_frame)
      BY <1>4 DEF FrontInv
    <2> HIDE DEF x
    <2> QED  BY <1>1, <1>2, <2>1
  <1> QED  BY <1>3, <1>4 DEF FrontInv

\* Where stable frames end: their successor's window begins within the audio.
LEMMA StableEnd ==
    ASSUME FrontInv, ~finalized, NEW total \in Nat, total >= total_received
    PROVE  LET e == FirstUnstable(total)
           IN  /\ e \in Nat /\ e >= next_frame /\ total <= FrameHi(e)
               /\ e * Hop <= total /\ FrameLo(e) <= total /\ FrameLo(e) >= pcm_base
               /\ FrameLo(e) \in Nat
               /\ \A g \in next_frame .. (e - 1) : FrameHi(g) <= total - 1
  <1> DEFINE e == FirstUnstable(total)
  <1>1. /\ e \in Nat /\ e >= next_frame /\ FrameHi(e) > total - 1 /\ FrameHi(e) \in Nat
        /\ \A g \in next_frame .. (e - 1) : FrameHi(g) <= total - 1
        /\ next_frame \in Nat
    BY FirstUnstableProperty, FrameBounds DEF FrontInv
  <1>2. pcm_base = FrameLo(next_frame) /\ next_frame * Hop <= total_received /\ total_received \in Nat
    BY DEF FrontInv
  <1> HIDE DEF e
  <1>3. FrameLo(e) >= FrameLo(next_frame)
    <2>1. CASE e = next_frame
      BY <1>1, <2>1, FrameBounds
    <2>2. CASE next_frame < e
      BY <1>1, <2>2, FramesGrow, FrameBounds
    <2> QED  BY <1>1, <2>1, <2>2
  <1>4. e * Hop <= total
    <2>1. CASE e = next_frame
      <3> DEFINE x == next_frame * Hop
      <3>1. x \in Nat /\ x <= total_received
        BY <1>1, <1>2, FrameBounds
      <3> HIDE DEF x
      <3>2. x <= total
        BY <1>2, <3>1
      <3> QED  BY <2>1, <3>2 DEF x
    <2>2. CASE next_frame < e
      <3> DEFINE g == e - 1
                 x == g * Hop
                 y == e * Hop
      <3>1. g \in Nat /\ g \in next_frame .. (e - 1)
        BY <1>1, <2>2
      <3>2. FrameHi(g) <= total - 1
        BY <1>1, <3>1
      <3>3. /\ x \in Nat /\ FrameHi(g) = IF x = 0 THEN Pad ELSE x + Pad - 1
            /\ Pad \in Nat /\ Hop \in Nat /\ 1 <= Hop /\ Hop <= Pad
        BY <3>1, FrameBounds
      <3>4. y = x + Hop
        <4>1. e = g + 1
          BY <1>1
        <4> HIDE DEF g
        <4>2. (g + 1) * Hop = g * Hop + Hop
          BY <3>1, <3>3
        <4> QED  BY <4>1, <4>2
      <3> HIDE DEF g, x, y
      <3>5. y <= total
        BY <3>2, <3>3, <3>4
      <3> QED  BY <3>5 DEF y
    <2> QED  BY <1>1, <2>1, <2>2
  <1>5. FrameLo(e) <= total
    <2> DEFINE y == e * Hop
    <2>1. y \in Nat /\ y <= total /\ FrameLo(e) = (IF y < Pad THEN 0 ELSE y - Pad) /\ Pad \in Nat
      BY <1>1, <1>4, FrameBounds
    <2> HIDE DEF y
    <2> QED  BY <2>1
  <1>6. total <= FrameHi(e) /\ FrameLo(e) \in Nat
    BY <1>1, FrameBounds
  <1> QED  BY <1>1, <1>2, <1>3, <1>4, <1>5, <1>6 DEF e

\* What one feed does: frames are appended up to the first unstable one, and
\* samples dropped up to its window.
LEMMA FeedDoes ==
    ASSUME FrontInv, NEW new \in Seq(Int), FeedFrontend(new)
    PROVE  /\ ~finalized /\ ~finalized' /\ UNCHANGED <<mel_base_frame, retain_history>>
           /\ total_received' = total_received + Len(new) /\ Len(new) \in Nat
           /\ next_frame' = FirstUnstable(total_received') /\ next_frame' >= next_frame
           /\ pcm \o new \in Seq(Int) /\ Len(pcm \o new) = Len(pcm) + Len(new)
           /\ mel_frames' = mel_frames \o FramesOf(pcm \o new, pcm_base, next_frame, next_frame',
                                                   Int32(total_received'))
           /\ pcm' \in Seq(Int) /\ pcm_base' = FrameLo(next_frame') /\ pcm_base' >= pcm_base
           /\ Len(pcm') = total_received' - pcm_base'
           /\ \A i \in 1 .. Len(pcm') : pcm'[i] = (pcm \o new)[pcm_base' - pcm_base + i]
           /\ FrontInv'
  <1> DEFINE total == total_received + Len(new)
             buffer == pcm \o new
             end == FirstUnstable(total)
             drop == FrameLo(end) - pcm_base
  <1>1. /\ ~finalized /\ total_received' = total /\ next_frame' = end
        /\ mel_frames' = mel_frames \o FramesOf(buffer, pcm_base, next_frame, end, Int32(total))
        /\ IF drop > 0
           THEN pcm' = SubSeq(buffer, drop + 1, Len(buffer)) /\ pcm_base' = FrameLo(end)
           ELSE pcm' = buffer /\ UNCHANGED pcm_base
        /\ UNCHANGED <<mel_base_frame, finalized, retain_history>>
    BY DEF FeedFrontend
  <1>2. /\ Len(new) \in Nat /\ Len(pcm) \in Nat /\ pcm \in Seq(Int) /\ pcm_base \in Nat
        /\ total_received \in Nat /\ next_frame \in Nat /\ pcm_base + Len(pcm) = total_received
        /\ mel_frames \in Seq(Window)
    BY LenProperties DEF FrontInv
  <1>3. buffer \in Seq(Int) /\ Len(buffer) = Len(pcm) + Len(new)
    BY <1>2, ConcatProperties
  <1>4. total \in Nat /\ total >= total_received
    BY <1>2
  <1>5. /\ end \in Nat /\ end >= next_frame /\ total <= FrameHi(end)
        /\ end * Hop <= total /\ FrameLo(end) <= total /\ FrameLo(end) >= pcm_base
        /\ FrameLo(end) \in Nat
    BY <1>1, <1>4, StableEnd
  <1> HIDE DEF end, buffer
  <1>12. /\ Len(buffer) - drop = total - FrameLo(end) /\ drop <= Len(buffer)
         /\ Len(buffer) \in Nat
    <2> DEFINE lo == FrameLo(end)
               b == Len(buffer)
               p == Len(pcm)
               n == Len(new)
    <2>1. /\ lo \in Nat /\ lo <= total_received + n /\ b = p + n /\ p \in Nat /\ n \in Nat
          /\ pcm_base \in Nat /\ pcm_base + p = total_received /\ total_received \in Nat
      BY <1>2, <1>3, <1>5
    <2>2. b \in Nat
      BY <2>1
    <2> HIDE DEF lo, b, p, n
    <2>3. b - (lo - pcm_base) = (total_received + n) - lo /\ lo - pcm_base <= b
      BY <2>1
    <2> QED  BY <2>2, <2>3 DEF lo, b, n
  <1>6. /\ pcm' \in Seq(Int) /\ pcm_base' = FrameLo(end) /\ Len(pcm') = total - FrameLo(end)
        /\ \A i \in 1 .. Len(pcm') : pcm'[i] = buffer[FrameLo(end) - pcm_base + i]
    <2>1. CASE drop > 0
      <3>1. drop \in 0 .. Len(buffer)
        <4>1. drop \in Int
          BY <1>2, <1>5
        <4> HIDE DEF drop
        <4> QED  BY <1>12, <2>1, <4>1
      <3>2. /\ pcm' \in Seq(Int) /\ Len(pcm') = Len(buffer) - drop
            /\ \A i \in 1 .. Len(buffer) - drop : pcm'[i] = buffer[drop + i]
        BY <1>1, <1>3, <2>1, <3>1, Suffix
      <3>3. Len(buffer) - drop = total - FrameLo(end)
        BY <1>12
      <3> QED  BY <1>1, <2>1, <3>2, <3>3
    <2>2. CASE ~(drop > 0)
      <3>1. pcm' = buffer /\ pcm_base' = pcm_base /\ pcm_base = FrameLo(end)
        BY <1>1, <1>2, <1>5, <2>2
      <3>2. Len(buffer) = total - FrameLo(end)
        <4>1. drop = 0
          BY <1>2, <3>1
        <4> HIDE DEF drop, total
        <4> QED  BY <1>12, <4>1
      <3>3. \A i \in 1 .. Len(buffer) : FrameLo(end) - pcm_base + i = i
        BY <1>2, <3>1
      <3> QED  BY <1>3, <3>1, <3>2, <3>3
    <2> QED  BY <2>1, <2>2
  <1>7. /\ FramesOf(buffer, pcm_base, next_frame, end, Int32(total)) \in Seq(Window)
        /\ Len(FramesOf(buffer, pcm_base, next_frame, end, Int32(total))) = end - next_frame
    BY <1>2, <1>3, <1>5, FramesOfProperty
  <1>8. mel_frames' \in Seq(Window) /\ Len(mel_frames') = Len(mel_frames) + (end - next_frame)
    BY <1>1, <1>2, <1>7, ConcatProperties
  <1>9. mel_base_frame' + Len(mel_frames') = end
    <2> DEFINE m == Len(mel_frames)
               k == Len(mel_frames')
    <2>1. m \in Nat /\ mel_base_frame \in Nat /\ mel_base_frame + m = next_frame
      BY LenProperties DEF FrontInv
    <2>2. k = m + (end - next_frame) /\ end \in Nat /\ mel_base_frame' = mel_base_frame
      BY <1>1, <1>5, <1>8
    <2> HIDE DEF m, k
    <2>3. mel_base_frame + k = end
      BY <2>1, <2>2
    <2> QED  BY <2>2, <2>3 DEF k
  <1>10. pcm_base' + Len(pcm') = total
    BY <1>4, <1>5, <1>6
  <1>11. FrontInv'
    BY <1>1, <1>4, <1>5, <1>6, <1>8, <1>9, <1>10 DEF FrontInv
  <1> QED  BY <1>1, <1>2, <1>3, <1>5, <1>6, <1>11 DEF end, buffer

\* What the end of the audio does: the stable frames, then those reflected at
\* the end from the samples the last window needs, and no samples are left.
LEMMA FinishDoes ==
    ASSUME FrontInv, NEW pad \in Nat, FinishFrontend(pad)
    PROVE  LET buffer == pcm \o Silence(pad)
               total  == total_received + pad
               stable == FirstUnstable(total)
               base   == FrameLo(stable)
               tail   == SubSeq(buffer, base - pcm_base + 1, Len(buffer))
           IN  /\ ~finalized /\ finalized' /\ UNCHANGED <<mel_base_frame, retain_history>>
               /\ total_received' = total
               /\ next_frame' = IF stable < total \div Hop THEN total \div Hop ELSE stable
               /\ next_frame' \in Nat /\ stable \in Nat
               /\ next_frame <= stable /\ stable <= next_frame'
               /\ base \in Nat /\ base >= pcm_base
               /\ buffer \in Seq(Int) /\ Len(buffer) = Len(pcm) + pad
               /\ tail \in Seq(Int) /\ Len(tail) = total - base
               /\ \A i \in 1 .. Len(tail) : tail[i] = buffer[base - pcm_base + i]
               /\ mel_frames' = mel_frames
                      \o FramesOf(buffer, pcm_base, next_frame, stable, Int32(total))
                      \o FramesOf(tail, base, stable, next_frame', Int32(total))
               /\ FrontInv'
  <1> DEFINE total == total_received + pad
             buffer == pcm \o Silence(pad)
             stable == FirstUnstable(total)
             low == FrameLo(stable)
             end == IF stable < total \div Hop THEN total \div Hop ELSE stable
             base == IF low > pcm_base THEN low ELSE pcm_base
             tail == SubSeq(buffer, base - pcm_base + 1, Len(buffer))
             one == FramesOf(buffer, pcm_base, next_frame, stable, Int32(total))
             two == FramesOf(tail, base, stable, end, Int32(total))
  <1>1. /\ ~finalized /\ total_received' = total /\ next_frame' = end
        /\ mel_frames' = mel_frames \o one \o two
        /\ pcm' = <<>> /\ pcm_base' = total /\ finalized' = TRUE
        /\ UNCHANGED <<mel_base_frame, retain_history>>
    BY DEF FinishFrontend
  <1>2. /\ Len(pcm) \in Nat /\ pcm \in Seq(Int) /\ pcm_base \in Nat
        /\ total_received \in Nat /\ next_frame \in Nat /\ pcm_base + Len(pcm) = total_received
        /\ mel_frames \in Seq(Window)
    BY LenProperties DEF FrontInv
  <1>3. buffer \in Seq(Int) /\ Len(buffer) = Len(pcm) + pad
    <2>1. Silence(pad) \in Seq(Int) /\ Len(Silence(pad)) = pad
      BY SilenceProperty
    <2> QED  BY <1>2, <2>1, ConcatProperties
  <1>4. total \in Nat /\ total >= total_received
    BY <1>2
  <1>5. /\ stable \in Nat /\ stable >= next_frame /\ low <= total /\ low >= pcm_base /\ low \in Nat
    BY <1>1, <1>4, StableEnd
  <1>6. total \div Hop \in Nat
    BY <1>4, MelAssumption
  <1> HIDE DEF stable, buffer
  <1>7. end \in Nat /\ stable <= end /\ base = low
    BY <1>2, <1>5, <1>6
  <1>8. /\ tail \in Seq(Int) /\ Len(tail) = total - low
        /\ \A i \in 1 .. Len(tail) : tail[i] = buffer[low - pcm_base + i]
    <2> DEFINE b == Len(buffer)
               p == Len(pcm)
               d == low - pcm_base
    <2>1. /\ low \in Nat /\ low <= total_received + pad /\ low >= pcm_base /\ b = p + pad
          /\ p \in Nat /\ pcm_base \in Nat /\ pcm_base + p = total_received
          /\ total_received \in Nat
      BY <1>2, <1>3, <1>5
    <2> HIDE DEF low, b, p
    <2>2. d \in 0 .. b /\ b - d = (total_received + pad) - low
      BY <2>1
    <2>3. d \in 0 .. Len(buffer) /\ Len(buffer) - d = total - low
      BY <2>2 DEF b
    <2>4. tail = SubSeq(buffer, d + 1, Len(buffer))
      BY <1>7
    <2> HIDE DEF d, tail
    <2>5. /\ tail \in Seq(Int) /\ Len(tail) = Len(buffer) - d
          /\ \A i \in 1 .. Len(buffer) - d : tail[i] = buffer[d + i]
      BY <1>3, <2>3, <2>4, Suffix
    <2> QED  BY <2>3, <2>5 DEF d
  <1>9. one \in Seq(Window) /\ Len(one) = stable - next_frame
    BY <1>2, <1>3, <1>5, FramesOfProperty
  <1> HIDE DEF tail, end, base
  <1>10. two \in Seq(Window) /\ Len(two) = end - stable
    BY <1>5, <1>7, <1>8, FramesOfProperty
  <1> HIDE DEF one, two
  <1>11. mel_frames \o one \in Seq(Window) /\ Len(mel_frames \o one) = Len(mel_frames) + Len(one)
    BY <1>2, <1>9, ConcatProperties
  <1>12. mel_frames' \in Seq(Window) /\ Len(mel_frames') = Len(mel_frames) + Len(one) + Len(two)
    <2> DEFINE h == mel_frames \o one
    <2>1. h \in Seq(Window) /\ Len(h) = Len(mel_frames) + Len(one) /\ mel_frames' = h \o two
      BY <1>1, <1>11
    <2> HIDE DEF h
    <2>2. h \o two \in Seq(Window) /\ Len(h \o two) = Len(h) + Len(two)
      BY <1>10, <2>1, ConcatProperties
    <2> QED  BY <2>1, <2>2
  <1>13. mel_base_frame' + Len(mel_frames') = end
    <2> DEFINE m == Len(mel_frames)
               k == Len(mel_frames')
    <2>1. m \in Nat /\ mel_base_frame \in Nat /\ mel_base_frame + m = next_frame
      BY LenProperties DEF FrontInv
    <2>2. /\ k = m + (stable - next_frame) + (end - stable) /\ end \in Nat /\ stable \in Nat
          /\ mel_base_frame' = mel_base_frame /\ next_frame \in Nat
      BY <1>1, <1>2, <1>5, <1>7, <1>9, <1>10, <1>12
    <2> HIDE DEF m, k
    <2>3. mel_base_frame + k = end
      BY <2>1, <2>2
    <2> QED  BY <2>2, <2>3 DEF k
  <1>14. pcm' \in Seq(Int) /\ pcm_base' + Len(pcm') = total
    BY <1>1, <1>4
  <1>15. FrontInv'
    BY <1>1, <1>4, <1>7, <1>12, <1>13, <1>14 DEF FrontInv
  <1>16. mel_frames' = mel_frames
                 \o FramesOf(buffer, pcm_base, next_frame, stable, Int32(total))
                 \o FramesOf(SubSeq(buffer, low - pcm_base + 1, Len(buffer)), low, stable, next_frame',
                             Int32(total))
    BY <1>1, <1>7 DEF one, two, tail
  <1>17. tail = SubSeq(buffer, low - pcm_base + 1, Len(buffer))
    BY <1>7 DEF tail
  <1> QED  BY <1>1, <1>3, <1>5, <1>7, <1>8, <1>15, <1>16, <1>17 DEF stable, buffer, end

\* What discarding does: in bounded mode the frames before the given one go.
LEMMA DiscardDoes ==
    ASSUME FrontInv, NEW frame \in Nat, mel_base_frame <= frame, frame <= next_frame,
           DiscardBefore(frame),
           UNCHANGED <<pcm, pcm_base, total_received, next_frame, finalized, retain_history>>
    PROVE  /\ FrontInv' /\ mel_base_frame' \in Nat
           /\ mel_base_frame <= mel_base_frame' /\ mel_base_frame' <= frame
           /\ ~retain_history => mel_base_frame' = frame
           /\ retain_history => mel_base_frame' = mel_base_frame
           /\ \A i \in 1 .. Len(mel_frames') :
                  mel_frames'[i] = mel_frames[mel_base_frame' - mel_base_frame + i]
  <1>1. /\ mel_frames \in Seq(Window) /\ Len(mel_frames) \in Nat /\ mel_base_frame \in Nat
        /\ next_frame \in Nat /\ mel_base_frame + Len(mel_frames) = next_frame
    BY LenProperties DEF FrontInv
  <1>2. CASE UNCHANGED <<mel_frames, mel_base_frame>>
             /\ (retain_history \/ frame <= mel_base_frame)
    <2>1. FrontInv'
      BY <1>2 DEF FrontInv
    <2>2. \A i \in 1 .. Len(mel_frames) : mel_base_frame - mel_base_frame + i = i
      BY <1>1
    <2> QED  BY <1>1, <1>2, <2>1, <2>2
  <1>3. CASE /\ ~retain_history /\ frame > mel_base_frame /\ mel_base_frame' = frame
             /\ mel_frames' = SubSeq(mel_frames, frame - mel_base_frame + 1, Len(mel_frames))
    <2>1. frame - mel_base_frame \in 0 .. Len(mel_frames)
      BY <1>1, <1>3
    <2>2. /\ mel_frames' \in Seq(Window) /\ Len(mel_frames') = Len(mel_frames) - (frame - mel_base_frame)
          /\ \A i \in 1 .. Len(mel_frames') : mel_frames'[i] = mel_frames[frame - mel_base_frame + i]
      BY <1>1, <1>3, <2>1, Suffix
    <2>3. frame + Len(mel_frames') = next_frame
      BY <1>1, <2>2
    <2>4. FrontInv'
      BY <1>3, <2>2, <2>3 DEF FrontInv
    <2> QED  BY <1>1, <1>3, <2>2, <2>4
  <1> DEFINE target == IF frame < mel_base_frame + Len(mel_frames)
                       THEN frame ELSE mel_base_frame + Len(mel_frames)
  <1>4. target = frame
    BY <1>1
  <1>5. IF retain_history \/ frame <= mel_base_frame \/ target <= mel_base_frame
        THEN UNCHANGED <<mel_frames, mel_base_frame>>
        ELSE /\ mel_frames' = SubSeq(mel_frames, target - mel_base_frame + 1, Len(mel_frames))
             /\ mel_base_frame' = target
    BY DEF DiscardBefore
  <1> HIDE DEF target
  <1> QED  BY <1>1, <1>2, <1>3, <1>4, <1>5

-----------------------------------------------------------------------------
(* The calls.                                                              *)

\* The drain's cursor lies among the frames held; in bounded mode nothing before
\* it is kept, and between calls nothing after it.
CursorInv ==
    /\ left_pad_injected \in BOOLEAN /\ samples \in Nat /\ sent \in Nat
    /\ enc_pushed_frames \in Nat /\ todo \in 0 .. MaxSamples
    /\ pc \in {"idle", "slice", "drain", "flush"}
    /\ status \in {"open", "completed", "failed"}
    /\ mel_base_frame <= enc_pushed_frames /\ enc_pushed_frames <= next_frame
    /\ ~retain_history => mel_base_frame = enc_pushed_frames
    /\ pc = "idle" /\ status = "open" => enc_pushed_frames = next_frame

HoldInv == FrontInv /\ CursorInv

\* The pads have a length.
LEMMA PadLength ==
    ASSUME NEW n \in Nat
    PROVE  Left \in Nat /\ RightPad(n) \in Nat
  <1>1. PerToken \in Nat \ {0} /\ LeftTokens \in Nat /\ RightTokens \in Nat
    BY MelAssumption
  <1>2. Left \in Nat /\ RightTokens * PerToken \in Nat
    BY <1>1 DEF Left
  <1>3. (PerToken - (n % PerToken)) % PerToken \in 0 .. PerToken - 1
    <2>1. PerToken - (n % PerToken) \in Int
      BY <1>1
    <2> QED  BY <1>1, <2>1
  <1> QED  BY <1>2, <1>3 DEF RightPad

\* A smaller one of two.
LEMMA SmallerProperty ==
    ASSUME NEW a \in Nat, NEW b \in Nat
    PROVE  LET n == SmallerOf(a, b) IN n \in Nat /\ n <= a /\ n <= b /\ (a > 0 /\ b > 0 => n > 0)
  BY DEF SmallerOf

\* A step of the frontend that appends frames leaves the cursor among them.
LEMMA CursorStays ==
    ASSUME CursorInv, next_frame \in Nat, next_frame' \in Nat, next_frame' >= next_frame,
           UNCHANGED <<mel_base_frame, retain_history, samples, enc_pushed_frames, status>>,
           left_pad_injected' \in BOOLEAN, sent' \in Nat, todo' \in 0 .. MaxSamples,
           pc' \in {"slice", "drain", "flush"}
    PROVE  CursorInv'
  BY DEF CursorInv

LEMMA CallFeedHold ==
    ASSUME HoldInv, NEW n \in FeedSizes, CallFeed(n)
    PROVE  HoldInv'
  <1> USE DEF HoldInv
  <1>1. /\ todo' = n /\ pc' = "slice" /\ samples + n <= MaxSamples /\ EnsureLeftPad
        /\ UNCHANGED <<samples, sent, enc_pushed_frames, status>>
    BY DEF CallFeed
  <1>2. /\ todo' \in 0 .. MaxSamples /\ sent' \in Nat
    BY <1>1, MelAssumption DEF CursorInv
  <1>3. CASE left_pad_injected
    <2>1. UNCHANGED <<feVars, left_pad_injected>>
      BY <1>1, <1>3 DEF EnsureLeftPad
    <2>2. FrontInv' /\ left_pad_injected' \in BOOLEAN /\ next_frame' \in Nat
      BY <2>1 DEF FrontInv, feVars, CursorInv
    <2> QED  BY <1>1, <1>2, <2>1, <2>2, CursorStays DEF feVars, FrontInv
  <1>4. CASE ~left_pad_injected
    <2>1. FeedFrontend(Silence(Left)) /\ left_pad_injected' = TRUE /\ Silence(Left) \in Seq(Int)
      BY <1>1, <1>4, PadLength, SilenceProperty DEF EnsureLeftPad, CursorInv
    <2>2. FrontInv' /\ next_frame' >= next_frame /\ UNCHANGED <<mel_base_frame, retain_history>>
      BY <2>1, FeedDoes
    <2> QED  BY <1>1, <1>2, <2>1, <2>2, CursorStays DEF FrontInv
  <1> QED  BY <1>3, <1>4

\* What a slice takes from the running feed.
LEMMA SliceTakes ==
    ASSUME HoldInv, FeedSlice
    PROVE  LET n   == SmallerOf(AudioSlice, todo)
               new == [i \in 1 .. n |-> sent + i]
           IN  /\ n \in Nat /\ n <= todo /\ new \in Seq(Int) /\ Len(new) = n
               /\ FeedFrontend(new) /\ sent' = sent + n /\ todo' = todo - n /\ pc' = "drain"
               /\ todo' \in 0 .. MaxSamples /\ sent' \in Nat
               /\ \A i \in 1 .. n : new[i] = sent + i
               /\ UNCHANGED <<left_pad_injected, samples, enc_pushed_frames, pushed, mel_even, status>>
  <1> DEFINE n == SmallerOf(AudioSlice, todo)
  <1>1. todo \in Nat /\ AudioSlice \in Nat /\ todo <= MaxSamples /\ MaxSamples \in Nat /\ sent \in Nat
    BY MelAssumption DEF HoldInv, CursorInv
  <1>2. n \in Nat /\ n <= todo
    BY <1>1, SmallerProperty
  <1>3. todo - n \in 0 .. MaxSamples /\ sent + n \in Nat
    BY <1>1, <1>2
  <1>4. /\ FeedFrontend([i \in 1 .. n |-> sent + i])
        /\ sent' = sent + n /\ todo' = todo - n /\ pc' = "drain"
        /\ UNCHANGED <<left_pad_injected, samples, enc_pushed_frames, pushed, mel_even, status>>
    BY DEF FeedSlice
  <1> QED  BY <1>1, <1>2, <1>3, <1>4, SamplesProperty

LEMMA FeedSliceHold ==
    ASSUME HoldInv, FeedSlice
    PROVE  HoldInv'
  <1> DEFINE new == [i \in 1 .. SmallerOf(AudioSlice, todo) |-> sent + i]
  <1>1. /\ new \in Seq(Int) /\ FeedFrontend(new) /\ sent' \in Nat /\ todo' \in 0 .. MaxSamples
        /\ pc' = "drain" /\ UNCHANGED <<left_pad_injected, samples, enc_pushed_frames, status>>
    BY SliceTakes
  <1> HIDE DEF new
  <1>2. /\ FrontInv' /\ next_frame' >= next_frame /\ UNCHANGED <<mel_base_frame, retain_history>>
    BY <1>1, FeedDoes DEF HoldInv
  <1>3. left_pad_injected' \in BOOLEAN
    BY <1>1 DEF HoldInv, CursorInv
  <1> QED  BY <1>1, <1>2, <1>3, CursorStays DEF HoldInv, FrontInv

\* A push moves the cursor over frames that are held.
LEMMA PushDoes ==
    ASSUME HoldInv, NEW n \in Nat, n > 0, n <= next_frame - enc_pushed_frames, Push(n)
    PROVE  /\ FrontInv' /\ enc_pushed_frames' = enc_pushed_frames + n
           /\ enc_pushed_frames' \in Nat /\ enc_pushed_frames' <= next_frame' /\ next_frame' = next_frame
           /\ mel_base_frame' <= enc_pushed_frames' /\ retain_history' = retain_history
           /\ ~retain_history' => mel_base_frame' = enc_pushed_frames'
           /\ retain_history => mel_base_frame' = mel_base_frame
           /\ mel_base_frame <= mel_base_frame'
           /\ \A i \in 1 .. Len(mel_frames') :
                  mel_frames'[i] = mel_frames[mel_base_frame' - mel_base_frame + i]
           /\ UNCHANGED <<pcm, pcm_base, total_received, finalized, left_pad_injected, samples,
                          sent, mel_even>>
  <1> DEFINE to == enc_pushed_frames + n
  <1>1. /\ mel_base_frame \in Nat /\ enc_pushed_frames \in Nat /\ next_frame \in Nat
        /\ mel_base_frame <= enc_pushed_frames /\ FrontInv
    BY DEF HoldInv, CursorInv, FrontInv
  <1>2. to \in Nat /\ mel_base_frame <= to /\ to <= next_frame
    BY <1>1
  <1>3. /\ enc_pushed_frames' = to /\ DiscardBefore(to)
        /\ UNCHANGED <<pcm, pcm_base, total_received, next_frame, finalized,
                       retain_history, left_pad_injected, samples, sent, mel_even>>
    BY DEF Push
  <1> HIDE DEF to
  <1> QED  BY <1>1, <1>2, <1>3, DiscardDoes DEF to

LEMMA DrainOneHold ==
    ASSUME HoldInv, DrainOne
    PROVE  HoldInv'
  <1> DEFINE n == SmallerOf(MelSlice, next_frame - enc_pushed_frames)
  <1>1. /\ enc_pushed_frames < next_frame /\ enc_pushed_frames \in Nat /\ next_frame \in Nat
        /\ pc = "drain" /\ Push(n) /\ UNCHANGED <<todo, pc, status>>
    BY DEF DrainOne, HoldInv, CursorInv, FrontInv
  <1>2. next_frame - enc_pushed_frames \in Nat /\ next_frame - enc_pushed_frames > 0
    BY <1>1
  <1>3. n \in Nat /\ n > 0 /\ n <= next_frame - enc_pushed_frames
    BY <1>2, SmallerProperty, MelAssumption
  <1> HIDE DEF n
  <1> QED  BY <1>1, <1>3, PushDoes DEF HoldInv, CursorInv

LEMMA DrainFinalHold ==
    ASSUME HoldInv, DrainFinal
    PROVE  HoldInv'
  <1> DEFINE n == next_frame - enc_pushed_frames
  <1>1. /\ enc_pushed_frames < next_frame /\ enc_pushed_frames \in Nat /\ next_frame \in Nat
        /\ Push(n) /\ UNCHANGED todo /\ pc' = "idle" /\ status' = "completed"
    BY DEF DrainFinal, Push, HasFrame, HoldInv, CursorInv, FrontInv
  <1>2. n \in Nat /\ n > 0 /\ n <= next_frame - enc_pushed_frames
    BY <1>1
  <1> HIDE DEF n
  <1> QED  BY <1>1, <1>2, PushDoes DEF HoldInv, CursorInv

LEMMA StillHold ==
    ASSUME HoldInv, DrainEnds \/ DrainFails \/ FinishEmpty \/ UNCHANGED vars
    PROVE  HoldInv'
  <1>1. UNCHANGED <<feVars, left_pad_injected, sent, enc_pushed_frames>>
    BY DEF DrainEnds, DrainFails, FinishEmpty, vars, callVars
  <1>2. FrontInv'
    BY <1>1 DEF HoldInv, FrontInv, feVars
  <1>3. CursorInv'
    <2>1. CASE DrainEnds
      <3>1. /\ enc_pushed_frames = next_frame /\ UNCHANGED <<todo, status>>
            /\ pc' \in {"slice", "idle"} /\ samples' \in {samples, sent}
        BY <2>1 DEF DrainEnds, HoldInv, CursorInv, FrontInv
      <3> QED  BY <1>1, <3>1 DEF HoldInv, CursorInv, feVars
    <2>2. CASE DrainFails
      BY <1>1, <2>2, MelAssumption DEF DrainFails, HoldInv, CursorInv, feVars
    <2>3. CASE FinishEmpty
      BY <1>1, <2>3 DEF FinishEmpty, HoldInv, CursorInv, feVars
    <2>4. CASE UNCHANGED vars
      BY <1>1, <2>4 DEF vars, callVars, HoldInv, CursorInv, feVars
    <2> QED  BY <2>1, <2>2, <2>3, <2>4
  <1> QED  BY <1>2, <1>3 DEF HoldInv

LEMMA CallFinishHold ==
    ASSUME HoldInv, CallFinish
    PROVE  HoldInv'
  <1>1. /\ FinishFrontend(RightPad(samples)) /\ RightPad(samples) \in Nat /\ pc' = "flush"
        /\ UNCHANGED <<left_pad_injected, samples, sent, enc_pushed_frames, todo, status>>
    BY PadLength DEF CallFinish, HoldInv, CursorInv
  <1>2. /\ FrontInv' /\ UNCHANGED <<mel_base_frame, retain_history>>
        /\ next_frame' \in Nat /\ next_frame \in Nat
        /\ \E k \in Nat : next_frame <= k /\ k <= next_frame'
    <2> DEFINE k == FirstUnstable(total_received + RightPad(samples))
    <2>1. /\ FrontInv' /\ UNCHANGED <<mel_base_frame, retain_history>>
          /\ next_frame' \in Nat /\ k \in Nat /\ next_frame <= k /\ k <= next_frame'
      BY <1>1, FinishDoes DEF HoldInv
    <2> HIDE DEF k
    <2> QED  BY <2>1 DEF HoldInv, FrontInv
  <1>3. next_frame' >= next_frame
    BY <1>2
  <1>4. left_pad_injected' \in BOOLEAN /\ sent' \in Nat /\ todo' \in 0 .. MaxSamples
    BY <1>1 DEF HoldInv, CursorInv
  <1> QED  BY <1>1, <1>2, <1>3, <1>4, CursorStays DEF HoldInv

\* A fresh frontend holds nothing.
LEMMA FreshHold ==
    ASSUME retain_history \in BOOLEAN
    PROVE  /\ FreshFrontend => FrontInv
           /\ ResetFrontend => FrontInv'
  <1>1. <<>> \in Seq(Int) /\ <<>> \in Seq(Window) /\ Len(<<>>) = 0
    OBVIOUS
  <1>2. FrameLo(0) = 0 /\ 0 <= FrameHi(0) /\ 0 * Hop = 0
    <2>1. 0 * Hop = 0
      BY MelAssumption
    <2> QED  BY <2>1, FrameBounds
  <1>3. ASSUME FreshFrontend
        PROVE  FrontInv
    <2>1. /\ pcm = <<>> /\ pcm_base = 0 /\ total_received = 0 /\ next_frame = 0
          /\ mel_frames = <<>> /\ mel_base_frame = 0 /\ finalized = FALSE
      BY <1>3 DEF FreshFrontend
    <2>2. Len(pcm) = 0 /\ Len(mel_frames) = 0 /\ pcm \in Seq(Int) /\ mel_frames \in Seq(Window)
      BY <1>1, <2>1
    <2>3. pcm_base + Len(pcm) = total_received /\ mel_base_frame + Len(mel_frames) = next_frame
      BY <2>1, <2>2
    <2>4. /\ pcm_base = FrameLo(next_frame) /\ total_received <= FrameHi(next_frame)
          /\ next_frame * Hop <= total_received
      BY <1>2, <2>1
    <2>5. /\ pcm_base \in Nat /\ total_received \in Nat /\ next_frame \in Nat
          /\ mel_base_frame \in Nat /\ finalized \in BOOLEAN
      BY <2>1
    <2> QED  BY <2>1, <2>2, <2>3, <2>4, <2>5 DEF FrontInv
  <1>4. ASSUME ResetFrontend
        PROVE  FrontInv'
    <2>1. /\ pcm' = <<>> /\ pcm_base' = 0 /\ total_received' = 0 /\ next_frame' = 0
          /\ mel_frames' = <<>> /\ mel_base_frame' = 0 /\ finalized' = FALSE
          /\ retain_history' = retain_history
      BY <1>4 DEF ResetFrontend
    <2>2. Len(pcm') = 0 /\ Len(mel_frames') = 0 /\ pcm' \in Seq(Int) /\ mel_frames' \in Seq(Window)
      BY <1>1, <2>1
    <2>3. pcm_base' + Len(pcm') = total_received' /\ mel_base_frame' + Len(mel_frames') = next_frame'
      BY <2>1, <2>2
    <2>4. /\ pcm_base' = FrameLo(next_frame') /\ total_received' <= FrameHi(next_frame')
          /\ next_frame' * Hop <= total_received'
      BY <1>2, <2>1
    <2>5. /\ pcm_base' \in Nat /\ total_received' \in Nat /\ next_frame' \in Nat
          /\ mel_base_frame' \in Nat /\ finalized' \in BOOLEAN
      BY <2>1
    <2> QED  BY <2>1, <2>2, <2>3, <2>4, <2>5 DEF FrontInv
  <1> QED  BY <1>3, <1>4

LEMMA InitHold == Init => HoldInv
  <1> SUFFICES ASSUME Init
               PROVE  HoldInv
    OBVIOUS
  <1>1. FrontInv
    BY FreshHold DEF Init
  <1>2. CursorInv
    <2>1. /\ left_pad_injected = FALSE /\ samples = 0 /\ sent = 0 /\ enc_pushed_frames = 0
          /\ todo = 0 /\ pc = "idle" /\ status = "open" /\ next_frame = 0 /\ mel_base_frame = 0
      BY DEF Init, FreshFrontend
    <2>2. todo \in 0 .. MaxSamples
      BY <2>1, MelAssumption
    <2>3. enc_pushed_frames = next_frame /\ mel_base_frame = enc_pushed_frames
      BY <2>1
    <2>4. /\ samples \in Nat /\ sent \in Nat /\ enc_pushed_frames \in Nat
          /\ mel_base_frame <= enc_pushed_frames /\ enc_pushed_frames <= next_frame
      BY <2>1
    <2> QED  BY <2>1, <2>2, <2>3, <2>4 DEF CursorInv
  <1> QED  BY <1>1, <1>2 DEF HoldInv

LEMMA CallResetHold ==
    ASSUME HoldInv, CallReset
    PROVE  HoldInv'
  <1>1. FrontInv'
    BY FreshHold DEF CallReset, HoldInv, FrontInv
  <1>2. CursorInv'
    <2>1. /\ left_pad_injected' = FALSE /\ samples' = 0 /\ sent' = 0 /\ enc_pushed_frames' = 0
          /\ status' = "open" /\ next_frame' = 0 /\ mel_base_frame' = 0
          /\ todo' = todo /\ pc' = "idle"
      BY DEF CallReset, ResetFrontend
    <2>2. todo' \in 0 .. MaxSamples
      BY <2>1 DEF HoldInv, CursorInv
    <2>3. enc_pushed_frames' = next_frame' /\ mel_base_frame' = enc_pushed_frames'
      BY <2>1
    <2>4. /\ samples' \in Nat /\ sent' \in Nat /\ enc_pushed_frames' \in Nat
          /\ mel_base_frame' <= enc_pushed_frames' /\ enc_pushed_frames' <= next_frame'
      BY <2>1
    <2> QED  BY <2>1, <2>2, <2>3, <2>4 DEF CursorInv
  <1> QED  BY <1>1, <1>2 DEF HoldInv

LEMMA NextHold ==
    ASSUME HoldInv, [Next]_vars
    PROVE  HoldInv'
  BY CallFeedHold, FeedSliceHold, DrainOneHold, DrainFinalHold, StillHold, CallFinishHold,
     CallResetHold DEF Next

-----------------------------------------------------------------------------
(* What the frontend holds.                                                *)

\* The invariant of the buffers and the drain's cursor is inductive.
THEOREM MelInductive == Spec => []HoldInv
  BY InitHold, NextHold, PTL DEF Spec

\* Types, for every window, hop, padding and slice.
THEOREM MelTypeCorrect == Spec => []TypeOK
  <1>1. HoldInv => TypeOK
    BY DEF HoldInv, FrontInv, CursorInv, TypeOK
  <1> QED  BY <1>1, MelInductive, PTL

\* What the drain asks for next is held, and nothing else.
LEMMA HoldServes ==
    ASSUME HoldInv
    PROVE  DrainServedFromTail
  <1>1. DrainAlwaysServed
    BY DEF HoldInv, FrontInv, CursorInv, DrainAlwaysServed
  <1>2. Len(pcm) < Fft
    BY LessThanWindow DEF HoldInv
  <1>3. ASSUME pc = "idle", status = "open", ~retain_history
        PROVE  mel_frames = <<>>
    <2>1. mel_base_frame = next_frame /\ mel_frames \in Seq(Window)
          /\ mel_base_frame + Len(mel_frames) = next_frame /\ next_frame \in Nat
      BY <1>3 DEF HoldInv, FrontInv, CursorInv
    <2>2. Len(mel_frames) \in Nat
      BY <2>1, LenProperties
    <2>3. Len(mel_frames) = 0
      BY <2>1, <2>2
    <2> QED  BY <2>1, <2>3, EmptySeq
  <1> QED  BY <1>1, <1>2, <1>3 DEF DrainServedFromTail, HoldsBoundedTail

\* The drain finds every frame it asks for, although the frontend drops samples
\* and frames as early as it can: it holds less than one window of samples, and
\* in bounded mode nothing the encoder took (drain_mel_to_encoder, compact,
\* discard_before).
THEOREM DrainFindsAll == Spec => []DrainServedFromTail
  <1>1. HoldInv => DrainServedFromTail
    BY HoldServes
  <1> QED  BY <1>1, MelInductive, PTL

-----------------------------------------------------------------------------
(* Reflection.                                                             *)

\* A multiple of a positive number that lies within twice that number.
LEMMA SmallMultiple ==
    ASSUME NEW p \in Nat \ {0}, NEW q \in Int, NEW x \in Int, x = q * p
    PROVE  /\ -p < x /\ x < p => x = 0
           /\ 0 <= x /\ x <= p => x = 0 \/ x = p
  <1>1. CASE q >= 2
    <2>1. PICK d \in Nat : q = 2 + d
      <3>1. q - 2 \in Nat /\ q = 2 + (q - 2)
        BY <1>1
      <3> QED  BY <3>1
    <2>2. (2 + d) * p = 2 * p + d * p /\ d * p \in Nat
      BY Multiples
    <2>3. x >= 2 * p
      BY <2>1, <2>2
    <2> QED  BY <2>3
  <1>2. CASE q <= -1
    <2>1. PICK d \in Nat : -q = 1 + d
      <3>1. -q - 1 \in Nat /\ -q = 1 + (-q - 1)
        BY <1>2
      <3> QED  BY <3>1
    <2>2. (1 + d) * p = 1 * p + d * p /\ d * p \in Nat /\ 1 * p = p
      BY Multiples
    <2>3. (-q) * p = -x
      OBVIOUS
    <2>4. -x >= p
      BY <2>1, <2>2, <2>3
    <2> QED  BY <2>4
  <1>3. CASE q = 0 \/ q = 1
    <2>1. x = 0 \/ x = p
      BY <1>3
    <2> QED  BY <2>1
  <1> QED  BY <1>1, <1>2, <1>3

\* The equation of voxtral_reflect_index's loop has a solution: the position of
\* 0 .. len - 1 that i is a mirror image of.
LEMMA ReflectionExists ==
    ASSUME NEW len \in Nat, len > 1
    PROVE  \E G : G = [i \in Int |-> IF i < 0 THEN G[-i]
                                     ELSE IF i >= len THEN G[2 * len - 2 - i] ELSE i]
  <1> DEFINE p == 2 * len - 2
             Image(i, m) == \E q \in Int : i = q * p + m \/ i = q * p - m
             Images(i) == {m \in 0 .. len - 1 : Image(i, m)}
             G == [i \in Int |-> CHOOSE m : m \in Images(i)]
  <1>1. p \in Nat \ {0}
    OBVIOUS
  <1>2. ASSUME NEW i \in Int
        PROVE  Images(-i) = Images(i)
    <2>1. ASSUME NEW j \in Int, NEW m \in 0 .. len - 1, Image(j, m)
          PROVE  Image(-j, m)
      <3>1. PICK q \in Int : j = q * p + m \/ j = q * p - m
        BY <2>1
      <3> HIDE DEF p
      <3>2. (-q) * p = -(q * p) /\ q * p \in Int
        BY <1>1
      <3> DEFINE x == q * p
                 y == (-q) * p
      <3>3. y = -x /\ x \in Int /\ (j = x + m \/ j = x - m)
        BY <3>1, <3>2
      <3> HIDE DEF x, y
      <3>4. -j = y + m \/ -j = y - m
        BY <3>3
      <3>5. -q \in Int
        OBVIOUS
      <3> QED  BY <3>4, <3>5 DEF y
    <2>2. -i \in Int /\ -(-i) = i
      OBVIOUS
    <2> HIDE DEF Image
    <2> QED  BY <2>1, <2>2
  <1>3. ASSUME NEW i \in Int
        PROVE  Images(p - i) = Images(i)
    <2>1. ASSUME NEW j \in Int, NEW m \in 0 .. len - 1, Image(j, m)
          PROVE  Image(p - j, m)
      <3>1. PICK q \in Int : j = q * p + m \/ j = q * p - m
        BY <2>1
      <3> HIDE DEF p
      <3>2. (1 - q) * p = p - q * p /\ q * p \in Int
        BY <1>1
      <3> DEFINE x == q * p
                 y == (1 - q) * p
      <3>3. y = p - x /\ x \in Int /\ (j = x + m \/ j = x - m)
        BY <3>1, <3>2
      <3> HIDE DEF x, y
      <3>4. p - j = y + m \/ p - j = y - m
        BY <1>1, <3>3
      <3>5. 1 - q \in Int
        OBVIOUS
      <3> QED  BY <3>4, <3>5 DEF y
    <2>2. p - i \in Int /\ p - (p - i) = i
      OBVIOUS
    <2> HIDE DEF Image, p
    <2> QED  BY <2>1, <2>2
  <1>4. ASSUME NEW i \in 0 .. len - 1
        PROVE  Images(i) = {i}
    <2>1. Image(i, i)
      <3>1. 0 \in Int /\ i = 0 * p + i
        BY <1>1
      <3> QED  BY <3>1
    <2>2. ASSUME NEW m \in 0 .. len - 1, Image(i, m)
          PROVE  m = i
      <3>1. PICK q \in Int : i = q * p + m \/ i = q * p - m
        BY <2>2
      <3> DEFINE x == q * p
      <3>2. x \in Int
        BY <1>1
      <3>3. /\ -p < x /\ x < p => x = 0
            /\ 0 <= x /\ x <= p => x = 0 \/ x = p
        <4> HIDE DEF p
        <4> QED  BY <1>1, <3>2, SmallMultiple
      <3>4. x = i - m \/ x = i + m
        <4> HIDE DEF x
        <4>1. i = x + m \/ i = x - m
          BY <3>1 DEF x
        <4> QED  BY <3>2, <4>1
      <3> HIDE DEF x
      <3> QED  BY <3>2, <3>3, <3>4
    <2> HIDE DEF Image
    <2> QED  BY <2>1, <2>2
  <1> HIDE DEF Images
  <1>5. ASSUME NEW i \in Int
        PROVE  G[i] = IF i < 0 THEN G[-i] ELSE IF i >= len THEN G[p - i] ELSE i
    <2>1. CASE i < 0
      <3>1. G[i] = CHOOSE m : m \in Images(i)
        OBVIOUS
      <3>2. G[-i] = CHOOSE m : m \in Images(-i)
        OBVIOUS
      <3> QED  BY <1>2, <2>1, <3>1, <3>2
    <2>2. CASE i >= len
      <3>1. G[i] = CHOOSE m : m \in Images(i)
        OBVIOUS
      <3>2. G[p - i] = CHOOSE m : m \in Images(p - i)
        OBVIOUS
      <3>3. ~(i < 0)
        BY <2>2
      <3> QED  BY <1>3, <2>2, <3>1, <3>2, <3>3
    <2>3. CASE ~(i < 0) /\ ~(i >= len)
      <3>1. i \in 0 .. len - 1 /\ G[i] = CHOOSE m : m \in Images(i)
        BY <2>3
      <3> QED  BY <1>4, <2>3, <3>1
    <2> QED  BY <2>1, <2>2, <2>3
  <1>6. G = [i \in Int |-> G[i]]
    OBVIOUS
  <1> HIDE DEF G
  <1>7. G = [i \in Int |-> IF i < 0 THEN G[-i] ELSE IF i >= len THEN G[2 * len - 2 - i] ELSE i]
    BY <1>5, <1>6
  <1> QED  BY <1>7

\* An index before the signal, or behind it, by less than the signal's length is
\* reflected once.
LEMMA ReflectOnce ==
    ASSUME NEW len \in Nat, len > 1, NEW i \in Int
    PROVE  /\ -len < i /\ i < 0 => ReflectIndex(i, len) = -i
           /\ len <= i /\ i <= 2 * len - 2 => ReflectIndex(i, len) = 2 * len - 2 - i
  <1> DEFINE E(f) == f = [j \in Int |-> IF j < 0 THEN f[-j]
                                        ELSE IF j >= len THEN f[2 * len - 2 - j] ELSE j]
             F == CHOOSE f : E(f)
  <1>1. E(F)
    <2>1. \E f : E(f)
      BY ReflectionExists
    <2> HIDE DEF E
    <2> QED  BY <2>1
  <1>2. ReflectIndex(i, len) = F[i]
    <2>1. ~(len <= 1)
      OBVIOUS
    <2> QED  BY <2>1, Zenon DEF ReflectIndex
  <1>3. \A j \in Int : F[j] = IF j < 0 THEN F[-j] ELSE IF j >= len THEN F[2 * len - 2 - j] ELSE j
    <2> HIDE DEF F
    <2>1. F = [j \in Int |-> IF j < 0 THEN F[-j] ELSE IF j >= len THEN F[2 * len - 2 - j] ELSE j]
      BY <1>1
    <2> HIDE DEF E
    <2> QED  BY <2>1
  <1> HIDE DEF F
  <1>4. ASSUME -len < i, i < 0
        PROVE  F[i] = -i
    <2>1. -i \in Int /\ ~(-i < 0) /\ ~(-i >= len)
      BY <1>4
    <2>2. F[-i] = -i
      BY <1>3, <2>1
    <2>3. F[i] = F[-i]
      BY <1>3, <1>4
    <2> QED  BY <2>2, <2>3
  <1>5. ASSUME len <= i, i <= 2 * len - 2
        PROVE  F[i] = 2 * len - 2 - i
    <2> DEFINE k == 2 * len - 2 - i
    <2>1. k \in Int /\ ~(k < 0) /\ ~(k >= len)
      BY <1>5
    <2> HIDE DEF k
    <2>2. F[k] = k
      BY <1>3, <2>1
    <2>3. F[i] = F[k]
      BY <1>3, <1>5 DEF k
    <2> QED  BY <2>2, <2>3 DEF k
  <1> QED  BY <1>2, <1>4, <1>5

-----------------------------------------------------------------------------
(* Divisions.                                                              *)

\* What lies below the divisor is its own remainder.
LEMMA SmallRemainder ==
    ASSUME NEW h \in Nat \ {0}, NEW a \in Nat, a < h
    PROVE  a % h = a
  OBVIOUS

\* The multiples within a number are those up to its quotient.
LEMMA QuotientBounds ==
    ASSUME NEW h \in Nat \ {0}, NEW k \in Nat, NEW n \in Nat
    PROVE  /\ n \div h \in Nat
           /\ k * h <= n => k <= n \div h
           /\ k < n \div h => k * h + h <= n
  <1> DEFINE q == n \div h
             r == n % h
  <1>1. n = q * h + r /\ r \in 0 .. h - 1 /\ q \in Nat
    OBVIOUS
  <1> HIDE DEF q, r
  <1>2. ASSUME k * h <= n, q < k
        PROVE  FALSE
    <2>1. PICK d \in Nat : k = (q + 1) + d
      <3>1. k - (q + 1) \in Nat /\ k = (q + 1) + (k - (q + 1))
        BY <1>1, <1>2
      <3> QED  BY <3>1
    <2>2. ((q + 1) + d) * h = (q + 1) * h + d * h /\ d * h \in Nat
      BY <1>1, Multiples
    <2>3. (q + 1) * h = q * h + 1 * h /\ 1 * h = h /\ q * h \in Nat
      BY <1>1, Multiples
    <2> DEFINE x == q * h
               y == d * h
    <2>4. k * h = x + h + y /\ x \in Nat /\ y \in Nat /\ n = x + r
      BY <1>1, <2>1, <2>2, <2>3
    <2> DEFINE z == k * h
    <2> HIDE DEF x, y, z
    <2>5. z = x + h + y /\ z <= n
      BY <1>2, <2>4 DEF z
    <2> QED  BY <1>1, <2>4, <2>5
  <1>3. ASSUME k < q
        PROVE  k * h + h <= n
    <2>1. PICK d \in Nat : q = (k + 1) + d
      <3>1. q - (k + 1) \in Nat /\ q = (k + 1) + (q - (k + 1))
        BY <1>1, <1>3
      <3> QED  BY <3>1
    <2>2. ((k + 1) + d) * h = (k + 1) * h + d * h /\ d * h \in Nat
      BY Multiples
    <2>3. (k + 1) * h = k * h + 1 * h /\ 1 * h = h /\ k * h \in Nat
      BY Multiples
    <2> DEFINE x == k * h
               y == d * h
    <2>4. q * h = x + h + y /\ x \in Nat /\ y \in Nat
      BY <2>1, <2>2, <2>3
    <2> DEFINE z == q * h
    <2>5. z = x + h + y /\ n = z + r
      BY <1>1, <2>4
    <2> HIDE DEF x, y, z
    <2>6. x + h <= n
      BY <1>1, <2>4, <2>5
    <2> QED  BY <2>6 DEF x
  <1>4. k * h <= n => k <= q
    BY <1>1, <1>2
  <1> QED  BY <1>1, <1>3, <1>4 DEF q

\* The pads are at least two hops, and the right one fills up a token.
LEMMA PadsLong ==
    ASSUME NEW n \in Nat
    PROVE  /\ Left \in Nat /\ 2 * Hop <= Left
           /\ RightPad(n) \in Nat /\ 2 * Hop <= RightPad(n)
           /\ RightPad(n) <= (RightTokens + 1) * PerToken
  <1>1. /\ PerToken \in Nat \ {0} /\ LeftTokens \in Nat \ {0} /\ RightTokens \in Nat \ {0}
        /\ Hop \in Nat \ {0} /\ PerToken % (2 * Hop) = 0
    BY MelAssumption
  <1>2. 2 * Hop <= PerToken
    <2> SUFFICES ASSUME PerToken < 2 * Hop
                 PROVE  FALSE
      BY <1>1
    <2>1. 2 * Hop \in Nat \ {0} /\ PerToken \in Nat
      BY <1>1
    <2> DEFINE h == 2 * Hop
    <2> HIDE DEF h
    <2>2. PerToken % h = PerToken
      BY <2>1, SmallRemainder DEF h
    <2> QED  BY <1>1, <2>2 DEF h
  <1>3. Left \in Nat /\ Left >= PerToken
    BY <1>1, Multiples DEF Left
  <1>4. (PerToken - (n % PerToken)) % PerToken \in 0 .. PerToken - 1
    <2>1. PerToken - (n % PerToken) \in Int
      BY <1>1
    <2> QED  BY <1>1, <2>1
  <1>5. /\ RightTokens * PerToken \in Nat /\ RightTokens * PerToken >= PerToken
        /\ (RightTokens + 1) * PerToken = RightTokens * PerToken + 1 * PerToken
        /\ 1 * PerToken = PerToken
    BY <1>1, Multiples
  <1> DEFINE r == (PerToken - (n % PerToken)) % PerToken
             w == RightTokens * PerToken
             v == (RightTokens + 1) * PerToken
  <1>6. RightPad(n) = r + w
    BY DEF RightPad
  <1>7. v = w + PerToken /\ w \in Nat /\ w >= PerToken /\ r \in 0 .. PerToken - 1
    BY <1>4, <1>5
  <1> HIDE DEF r, w, v
  <1>8. RightPad(n) \in Nat /\ 2 * Hop <= RightPad(n) /\ RightPad(n) <= v
    BY <1>1, <1>2, <1>6, <1>7
  <1> QED  BY <1>1, <1>2, <1>3, <1>8 DEF v

-----------------------------------------------------------------------------
(* The reference, sample by sample.                                        *)

\* The samples of an utterance are its positions; before it and behind it is
\* silence.
Tone(k) == IF k < Left THEN 0 ELSE k - Left + 1
PaddedSample(k, n) == IF k < Left + n THEN Tone(k) ELSE 0
PaddedLen(n) == Left + n + RightPad(n)

\* Where sample i of frame f comes from, once reflected.
Source(f, i) == f * Hop + (i - 1) - Pad
Folded(s, len) == IF s < 0 THEN -s ELSE IF s < len THEN s ELSE 2 * len - 2 - s

\* Frame f of an utterance of n samples, and of one whose end is far enough.
PaddedFrame(f, n) == [i \in 1 .. Fft |-> PaddedSample(Folded(Source(f, i), PaddedLen(n)), n)]
Mirrored(s) == IF s < 0 THEN -s ELSE s
TrueFrame(f) == [i \in 1 .. Fft |-> Tone(Mirrored(Source(f, i)))]

\* The signal's positions are values of an int32_t: a stream of less than 2^31
\* samples, pads included (37 hours at 16 kHz).
ShortSignal == Left + MaxSamples + (RightTokens + 1) * PerToken < Int32Span \div 2

LEMMA Int32Small ==
    ASSUME NEW x \in Nat, x < Int32Span \div 2
    PROVE  Int32(x) = x
  <1> DEFINE h == Int32Span \div 2
  <1>1. Int32Span \in Nat \ {0} /\ h \in Nat /\ Int32Span = h + h
    BY MelAssumption
  <1> HIDE DEF h
  <1>2. x + h \in Nat /\ x + h < Int32Span
    BY <1>1 DEF h
  <1>3. (x + h) % Int32Span = x + h
    BY <1>1, <1>2, SmallRemainder
  <1>4. (x + h) - h = x
    BY <1>1
  <1> QED  BY <1>3, <1>4 DEF Int32, h

LEMMA PaddedShort ==
    ASSUME ShortSignal, NEW n \in Nat, n <= MaxSamples
    PROVE  /\ PaddedLen(n) \in Nat /\ PaddedLen(n) < Int32Span \div 2
           /\ PaddedLen(n) >= Left + n + 2 * Hop /\ PaddedLen(n) >= 4 * Hop
  <1> DEFINE h == Int32Span \div 2
             v == (RightTokens + 1) * PerToken
  <1>1. /\ Left \in Nat /\ 2 * Hop <= Left /\ RightPad(n) \in Nat /\ 2 * Hop <= RightPad(n)
        /\ RightPad(n) <= v
    BY PadsLong
  <1>2. h \in Nat /\ v \in Nat /\ MaxSamples \in Nat /\ Hop \in Nat
    BY MelAssumption
  <1>3. Left + MaxSamples + v < h
    BY DEF ShortSignal
  <1> HIDE DEF h, v
  <1>4. /\ PaddedLen(n) \in Nat /\ PaddedLen(n) < h
        /\ PaddedLen(n) >= Left + n + 2 * Hop /\ PaddedLen(n) >= 4 * Hop
    BY <1>1, <1>2, <1>3 DEF PaddedLen
  <1> QED  BY <1>4 DEF h

\* The audio of the batch path.
LEMMA PaddedAudioIs ==
    ASSUME NEW n \in Nat
    PROVE  /\ PaddedAudio(n) \in Seq(Int) /\ Len(PaddedAudio(n)) = PaddedLen(n)
           /\ \A k \in 1 .. PaddedLen(n) : PaddedAudio(n)[k] = PaddedSample(k - 1, n)
  <1> DEFINE a == Silence(Left)
             b == [i \in 1 .. n |-> i]
             c == Silence(RightPad(n))
             ab == a \o b
  <1>1. Left \in Nat /\ RightPad(n) \in Nat
    BY PadsLong
  <1>2. a \in Seq(Int) /\ Len(a) = Left /\ \A i \in 1 .. Left : a[i] = 0
    BY <1>1, SilenceProperty
  <1>3. b \in Seq(Int) /\ Len(b) = n /\ \A i \in 1 .. n : b[i] = i
    OBVIOUS
  <1>4. c \in Seq(Int) /\ Len(c) = RightPad(n) /\ \A i \in 1 .. RightPad(n) : c[i] = 0
    BY <1>1, SilenceProperty
  <1>5. PaddedAudio(n) = ab \o c
    BY DEF PaddedAudio
  <1> HIDE DEF a, b, c
  <1>6. /\ ab \in Seq(Int) /\ Len(ab) = Left + n
        /\ \A k \in 1 .. Left + n : ab[k] = IF k <= Left THEN a[k] ELSE b[k - Left]
    <2>1. /\ a \o b \in Seq(Int) /\ Len(a \o b) = Len(a) + Len(b)
          /\ \A k \in 1 .. Len(a) + Len(b) :
                 (a \o b)[k] = IF k <= Len(a) THEN a[k] ELSE b[k - Len(a)]
      BY <1>2, <1>3, ConcatProperties
    <2> QED  BY <1>2, <1>3, <2>1 DEF ab
  <1> HIDE DEF ab
  <1>7. /\ ab \o c \in Seq(Int) /\ Len(ab \o c) = (Left + n) + RightPad(n)
        /\ \A k \in 1 .. (Left + n) + RightPad(n) :
               (ab \o c)[k] = IF k <= Left + n THEN ab[k] ELSE c[k - (Left + n)]
    BY <1>1, <1>4, <1>6, ConcatProperties
  <1>8. ASSUME NEW k \in 1 .. PaddedLen(n)
        PROVE  (ab \o c)[k] = PaddedSample(k - 1, n)
    <2>1. k \in 1 .. (Left + n) + RightPad(n) /\ k \in Nat
      BY <1>1 DEF PaddedLen
    <2>2. CASE k <= Left
      <3>1. (ab \o c)[k] = a[k] /\ a[k] = 0
        BY <1>1, <1>2, <1>6, <1>7, <2>1, <2>2
      <3>2. PaddedSample(k - 1, n) = 0
        BY <1>1, <2>1, <2>2 DEF PaddedSample, Tone
      <3> QED  BY <3>1, <3>2
    <2>3. CASE Left < k /\ k <= Left + n
      <3>1. (ab \o c)[k] = b[k - Left]
        BY <1>1, <1>6, <1>7, <2>1, <2>3
      <3>2. b[k - Left] = k - Left
        BY <1>1, <1>3, <2>1, <2>3
      <3>3. PaddedSample(k - 1, n) = k - Left
        BY <1>1, <2>1, <2>3 DEF PaddedSample, Tone
      <3> QED  BY <3>1, <3>2, <3>3
    <2>4. CASE Left + n < k
      <3>1. k - (Left + n) \in 1 .. RightPad(n)
        BY <1>1, <2>1, <2>4
      <3>2. (ab \o c)[k] = c[k - (Left + n)]
        <4>1. ~(k <= Left + n)
          BY <1>1, <2>1, <2>4
        <4> QED  BY <1>7, <2>1, <4>1
      <3>3. PaddedSample(k - 1, n) = 0
        BY <1>1, <2>1, <2>4 DEF PaddedSample, Tone
      <3> QED  BY <1>4, <3>1, <3>2, <3>3
    <2>5. k <= Left \/ (Left < k /\ k <= Left + n) \/ Left + n < k
      BY <1>1, <2>1
    <2> QED  BY <2>2, <2>3, <2>4, <2>5
  <1>9. PaddedLen(n) = (Left + n) + RightPad(n)
    BY <1>1 DEF PaddedLen
  <1> QED  BY <1>5, <1>7, <1>8, <1>9

\* Where a frame's samples lie.
LEMMA SourceBounds ==
    ASSUME NEW f \in Nat, NEW i \in 1 .. Fft
    PROVE  LET x == f * Hop
               s == Source(f, i)
           IN  /\ s \in Int /\ x \in Nat /\ x - Pad <= s /\ s <= x + Pad - 1
               /\ Mirrored(s) \in FrameLo(f) .. FrameHi(f) /\ x <= FrameHi(f)
  <1> DEFINE x == f * Hop
  <1>1. /\ x \in Nat /\ FrameLo(f) = (IF x < Pad THEN 0 ELSE x - Pad)
        /\ FrameHi(f) = (IF x = 0 THEN Pad ELSE x + Pad - 1)
        /\ Pad \in Nat /\ Hop \in Nat /\ 1 <= Hop /\ Hop <= Pad /\ Fft = 2 * Pad
    BY FrameBounds
  <1>2. Source(f, i) = x + (i - 1) - Pad
    BY DEF Source
  <1> HIDE DEF x
  <1> DEFINE s == Source(f, i)
  <1>3. s \in Int /\ x - Pad <= s /\ s <= x + Pad - 1
    BY <1>1, <1>2
  <1> HIDE DEF s
  <1>4. Mirrored(s) \in FrameLo(f) .. FrameHi(f) /\ x <= FrameHi(f)
    BY <1>1, <1>3 DEF Mirrored
  <1> QED  BY <1>1, <1>3, <1>4 DEF s, x

\* The position fill_window computes is the folded one.
LEMMA WindowIndexIs ==
    ASSUME NEW f \in Nat, NEW n \in Nat, n > 1, f * Hop < Int32Span \div 2, NEW i \in 1 .. Fft,
           -n < Source(f, i), Source(f, i) <= 2 * n - 2
    PROVE  WindowIndex(f, n)[i] = Folded(Source(f, i), n)
  <1> DEFINE x == f * Hop
             s == x + (i - 1) - Pad
  <1>1. x \in Nat /\ s \in Int /\ Source(f, i) = s
    BY FrameBounds, SourceBounds DEF Source
  <1>2. Int32(x) = x
    BY <1>1, Int32Small
  <1>3. WindowIndex(f, n)[i] = IF s >= 0 /\ s < n THEN s ELSE ReflectIndex(s, n)
    BY <1>2 DEF WindowIndex
  <1> HIDE DEF s
  <1>4. /\ -n < s /\ s < 0 => ReflectIndex(s, n) = -s
        /\ n <= s /\ s <= 2 * n - 2 => ReflectIndex(s, n) = 2 * n - 2 - s
    BY <1>1, ReflectOnce
  <1> QED  BY <1>1, <1>3, <1>4 DEF Folded

\* The sequence s is what the function F is from base on.
Holds(s, base, F) == \A j \in 1 .. Len(s) : s[j] = F[base + j - 1]

\* A frame read from a buffer that holds the samples of its window.
LEMMA FrameReads ==
    ASSUME NEW f \in Nat, NEW n \in Nat, n > 1, n < Int32Span \div 2, f * Hop < Int32Span \div 2,
           NEW buffer \in Seq(Int), NEW base \in Nat, base + Len(buffer) = n,
           NEW value, Holds(buffer, base, value),
           \A i \in 1 .. Fft : /\ -n < Source(f, i) /\ Source(f, i) <= 2 * n - 2
                               /\ Folded(Source(f, i), n) \in base .. n - 1
    PROVE  FrameOf(buffer, base, f, Int32(n)) = [i \in 1 .. Fft |-> value[Folded(Source(f, i), n)]]
  <1>1. Int32(n) = n
    BY Int32Small
  <1>2. ASSUME NEW i \in 1 .. Fft
        PROVE  FrameOf(buffer, base, f, n)[i] = value[Folded(Source(f, i), n)]
    <2> DEFINE w == WindowIndex(f, n)
               p == Folded(Source(f, i), n)
    <2>1. w[i] = p
      BY WindowIndexIs
    <2>2. p \in base .. n - 1 /\ Len(buffer) \in Nat
      BY LenProperties
    <2>3. FrameOf(buffer, base, f, n)[i] = IF w[i] - base \in 0 .. (Len(buffer) - 1)
                                           THEN buffer[w[i] - base + 1] ELSE Outside
      BY DEF FrameOf
    <2> HIDE DEF w, p
    <2>4. p - base \in 0 .. (Len(buffer) - 1) /\ p - base + 1 \in 1 .. Len(buffer)
          /\ base + (p - base + 1) - 1 = p
      BY <2>2
    <2>5. FrameOf(buffer, base, f, n)[i] = buffer[p - base + 1]
      BY <2>1, <2>3, <2>4
    <2>6. buffer[p - base + 1] = value[base + (p - base + 1) - 1]
      BY <2>4 DEF Holds
    <2> QED  BY <2>4, <2>5, <2>6 DEF p
  <1>3. DOMAIN FrameOf(buffer, base, f, n) = 1 .. Fft
        /\ FrameOf(buffer, base, f, n) = [i \in 1 .. Fft |-> FrameOf(buffer, base, f, n)[i]]
    BY DEF FrameOf
  <1> QED  BY <1>1, <1>2, <1>3

\* A frame whose window lies within the samples received so far.
LEMMA StableWindowReads ==
    ASSUME NEW f \in Nat, NEW total \in Nat, total < Int32Span \div 2, FrameHi(f) <= total - 1,
           NEW buffer \in Seq(Int), NEW base \in Nat, base <= FrameLo(f), base + Len(buffer) = total,
           NEW value, Holds(buffer, base, value)
    PROVE  /\ FrameOf(buffer, base, f, Int32(total))
                  = [i \in 1 .. Fft |-> value[Folded(Source(f, i), total)]]
           /\ \A i \in 1 .. Fft : /\ Folded(Source(f, i), total) = Mirrored(Source(f, i))
                                  /\ Mirrored(Source(f, i)) \in Nat
                                  /\ Mirrored(Source(f, i)) < total
  <1> DEFINE x == f * Hop
             h == Int32Span \div 2
  <1>1. /\ x \in Nat /\ FrameLo(f) \in Nat /\ FrameHi(f) \in Nat
        /\ FrameLo(f) = (IF x < Pad THEN 0 ELSE x - Pad)
        /\ FrameHi(f) = (IF x = 0 THEN Pad ELSE x + Pad - 1)
        /\ Pad \in Nat /\ Hop \in Nat /\ 1 <= Hop /\ Hop <= Pad /\ h \in Nat /\ Fft = 2 * Pad
    <2>1. h \in Nat
      BY MelAssumption
    <2> QED  BY <2>1, FrameBounds
  <1>2. total > 1 /\ x < h
    <2> HIDE DEF x, h
    <2>1. total < h
      BY DEF h
    <2> QED  BY <1>1, <2>1
  <1>3. ASSUME NEW i \in 1 .. Fft
        PROVE  /\ -total < Source(f, i) /\ Source(f, i) <= 2 * total - 2
               /\ Folded(Source(f, i), total) = Mirrored(Source(f, i))
               /\ Folded(Source(f, i), total) \in base .. total - 1
               /\ Mirrored(Source(f, i)) \in Nat /\ Mirrored(Source(f, i)) < total
    <2> DEFINE s == Source(f, i)
    <2>1. s \in Int /\ x - Pad <= s /\ s <= x + Pad - 1 /\ Mirrored(s) \in FrameLo(f) .. FrameHi(f)
      BY SourceBounds
    <2> HIDE DEF s, x
    <2>2. Mirrored(s) \in Nat /\ Mirrored(s) <= total - 1 /\ base <= Mirrored(s)
      BY <1>1, <2>1
    <2>3. -total < s /\ s < total
      BY <2>1, <2>2 DEF Mirrored
    <2>4. Folded(s, total) = Mirrored(s)
      BY <2>1, <2>3 DEF Folded, Mirrored
    <2> QED  BY <1>2, <2>1, <2>2, <2>3, <2>4 DEF s
  <1>4. FrameOf(buffer, base, f, Int32(total))
            = [i \in 1 .. Fft |-> value[Folded(Source(f, i), total)]]
    <2>1. f * Hop < Int32Span \div 2
      BY <1>2 DEF x, h
    <2>2. \A i \in 1 .. Fft : /\ -total < Source(f, i) /\ Source(f, i) <= 2 * total - 2
                              /\ Folded(Source(f, i), total) \in base .. total - 1
      BY <1>3
    <2> HIDE DEF x, h
    <2> QED  BY <1>2, <2>1, <2>2, FrameReads
  <1> QED  BY <1>3, <1>4

LEMMA StableFrameReads ==
    ASSUME NEW f \in Nat, NEW total \in Nat, total < Int32Span \div 2, FrameHi(f) <= total - 1,
           NEW buffer \in Seq(Int), NEW base \in Nat, base <= FrameLo(f), base + Len(buffer) = total,
           \A j \in 1 .. Len(buffer) : buffer[j] = Tone(base + j - 1)
    PROVE  FrameOf(buffer, base, f, Int32(total)) = TrueFrame(f)
  <1> DEFINE V == [k \in Nat |-> Tone(k)]
  <1>1. ASSUME NEW j \in 1 .. Len(buffer)
        PROVE  buffer[j] = V[base + j - 1]
    <2>1. base + j - 1 \in Nat
      BY LenProperties
    <2> QED  BY <2>1
  <1>2. ASSUME NEW k \in Nat
        PROVE  V[k] = Tone(k)
    OBVIOUS
  <1> HIDE DEF V
  <1>3. /\ FrameOf(buffer, base, f, Int32(total))
               = [i \in 1 .. Fft |-> V[Folded(Source(f, i), total)]]
        /\ \A i \in 1 .. Fft : /\ Folded(Source(f, i), total) = Mirrored(Source(f, i))
                               /\ Mirrored(Source(f, i)) \in Nat
    <2>1. Holds(buffer, base, V)
      BY <1>1 DEF Holds
    <2> QED  BY <2>1, StableWindowReads
  <1> QED  BY <1>2, <1>3 DEF TrueFrame

\* The same in the buffer that finish has padded.
LEMMA StablePaddedReads ==
    ASSUME ShortSignal, NEW n \in Nat, n <= MaxSamples,
           NEW f \in Nat, FrameHi(f) <= PaddedLen(n) - 1,
           NEW buffer \in Seq(Int), NEW base \in Nat, base <= FrameLo(f),
           base + Len(buffer) = PaddedLen(n),
           \A j \in 1 .. Len(buffer) : buffer[j] = PaddedSample(base + j - 1, n)
    PROVE  FrameOf(buffer, base, f, Int32(PaddedLen(n))) = PaddedFrame(f, n)
  <1> DEFINE V == [k \in Nat |-> PaddedSample(k, n)]
             p == PaddedLen(n)
  <1>1. ASSUME NEW j \in 1 .. Len(buffer)
        PROVE  buffer[j] = V[base + j - 1]
    <2>1. base + j - 1 \in Nat
      BY LenProperties
    <2> QED  BY <2>1
  <1>2. ASSUME NEW k \in Nat
        PROVE  V[k] = PaddedSample(k, n)
    OBVIOUS
  <1>3. p \in Nat /\ p < Int32Span \div 2
    BY PaddedShort
  <1>4. FrameHi(f) <= p - 1 /\ base + Len(buffer) = p
    OBVIOUS
  <1> HIDE DEF V, p
  <1>5. /\ FrameOf(buffer, base, f, Int32(p)) = [i \in 1 .. Fft |-> V[Folded(Source(f, i), p)]]
        /\ \A i \in 1 .. Fft : Folded(Source(f, i), p) \in Nat
    <2>1. Holds(buffer, base, V)
      BY <1>1 DEF Holds
    <2> QED  BY <1>3, <1>4, <2>1, StableWindowReads
  <1>6. FrameOf(buffer, base, f, Int32(p))
            = [i \in 1 .. Fft |-> PaddedSample(Folded(Source(f, i), p), n)]
    BY <1>2, <1>5
  <1> QED  BY <1>6 DEF PaddedFrame, p

\* A stable frame is the batch path's whatever audio follows.
LEMMA StableIsBatch ==
    ASSUME ShortSignal, NEW f \in Nat, NEW n \in Nat, n <= MaxSamples, FrameHi(f) <= Left + n - 1
    PROVE  TrueFrame(f) = PaddedFrame(f, n) /\ f < PaddedLen(n) \div Hop
  <1> DEFINE x == f * Hop
             p == PaddedLen(n)
  <1>1. /\ x \in Nat /\ FrameHi(f) \in Nat /\ Hop \in Nat \ {0} /\ x <= FrameHi(f)
    <2>1. Hop \in Nat \ {0} /\ x \in Nat /\ FrameHi(f) \in Nat
          /\ FrameHi(f) = (IF x = 0 THEN Pad ELSE x + Pad - 1) /\ Pad \in Nat /\ 1 <= Pad
      BY FrameBounds, MelAssumption
    <2> HIDE DEF x
    <2> QED  BY <2>1
  <1>2. p \in Nat /\ p >= Left + n + 2 * Hop /\ Left \in Nat
    BY PaddedShort, PadsLong
  <1>3. f < p \div Hop
    <2>1. (f + 1) * Hop = x + 1 * Hop /\ 1 * Hop = Hop
      BY <1>1, Multiples
    <2> DEFINE y == (f + 1) * Hop
    <2>2. y = x + Hop
      BY <2>1
    <2> HIDE DEF x, y, p
    <2>3. y <= p
      BY <1>1, <1>2, <2>2
    <2>4. f + 1 <= p \div Hop /\ p \div Hop \in Nat
      <3>1. (f + 1) * Hop <= p
        BY <2>3 DEF y
      <3>2. f + 1 \in Nat /\ p \in Nat /\ Hop \in Nat \ {0}
        BY <1>1, <1>2
      <3> HIDE DEF p
      <3> QED  BY <3>1, <3>2, QuotientBounds
    <2> QED  BY <2>4
  <1>4. ASSUME NEW i \in 1 .. Fft
        PROVE  Tone(Mirrored(Source(f, i))) = PaddedSample(Folded(Source(f, i), p), n)
    <2> DEFINE s == Source(f, i)
    <2>1. s \in Int /\ Mirrored(s) \in FrameLo(f) .. FrameHi(f) /\ FrameLo(f) \in Nat
      BY SourceBounds, FrameBounds
    <2> HIDE DEF s, p
    <2>2. Mirrored(s) \in Nat /\ Mirrored(s) < Left + n
      BY <1>1, <1>2, <2>1
    <2>3. s < p
      BY <1>1, <1>2, <2>1, <2>2 DEF Mirrored
    <2>4. Folded(s, p) = Mirrored(s)
      BY <1>2, <2>1, <2>3 DEF Folded, Mirrored
    <2> QED  BY <2>2, <2>4 DEF PaddedSample, s
  <1> QED  BY <1>3, <1>4 DEF TrueFrame, PaddedFrame

\* A frame that only the padded end makes stable, or that is reflected there,
\* is read from the samples of the last windows.
LEMMA LastFrameReads ==
    ASSUME ShortSignal, NEW n \in Nat, n <= MaxSamples, NEW stable \in Nat,
           PaddedLen(n) <= FrameHi(stable), stable * Hop <= PaddedLen(n),
           NEW f \in Nat, stable <= f, f < PaddedLen(n) \div Hop,
           NEW tail \in Seq(Int), FrameLo(stable) + Len(tail) = PaddedLen(n),
           \A j \in 1 .. Len(tail) : tail[j] = PaddedSample(FrameLo(stable) + j - 1, n)
    PROVE  FrameOf(tail, FrameLo(stable), f, Int32(PaddedLen(n))) = PaddedFrame(f, n)
  <1> DEFINE V == [k \in Nat |-> PaddedSample(k, n)]
             x == f * Hop
             z == stable * Hop
             p == PaddedLen(n)
             h == Int32Span \div 2
             base == FrameLo(stable)
  <1>1. /\ x \in Nat /\ z \in Nat /\ base = (IF z < Pad THEN 0 ELSE z - Pad) /\ base \in Nat
        /\ FrameHi(stable) = (IF z = 0 THEN Pad ELSE z + Pad - 1)
        /\ Pad \in Nat /\ Hop \in Nat \ {0} /\ 1 <= Hop /\ Hop <= Pad /\ Pad <= 2 * Hop
    BY FrameBounds, MelAssumption
  <1>2. p \in Nat /\ p < h /\ p >= 4 * Hop /\ h \in Nat
    <2>1. h \in Nat
      BY MelAssumption
    <2> QED  BY <2>1, PaddedShort
  <1>3. z <= x
    <2>1. CASE stable = f
      BY <1>1, <2>1
    <2>2. CASE stable < f
      <3>1. z + Hop <= x
        BY <2>2, FramesGrow
      <3> HIDE DEF x, z
      <3> QED  BY <1>1, <3>1
    <2> QED  BY <2>1, <2>2
  <1>4. x + Hop <= p
    BY <1>1, <1>2, QuotientBounds
  <1>5. z <= p /\ p <= FrameHi(stable)
    OBVIOUS
  <1>6. x < h /\ p > 1 /\ z >= Pad
    <2> HIDE DEF x, z, p, h, base
    <2> QED  BY <1>1, <1>2, <1>4, <1>5
  <1>7. ASSUME NEW i \in 1 .. Fft
        PROVE  /\ -p < Source(f, i) /\ Source(f, i) <= 2 * p - 2
               /\ Folded(Source(f, i), p) \in base .. p - 1
    <2> DEFINE s == Source(f, i)
    <2>1. s \in Int /\ x - Pad <= s /\ s <= x + Pad - 1
      BY SourceBounds
    <2> HIDE DEF s, x, z, p, base
    <2>2. s >= base /\ s >= 0 /\ s <= 2 * p - 2 /\ 2 * p - 2 - s >= base
      BY <1>1, <1>2, <1>3, <1>4, <1>5, <1>6, <2>1
    <2>3. Folded(s, p) \in base .. p - 1
      BY <1>1, <1>2, <2>1, <2>2 DEF Folded
    <2> QED  BY <1>2, <2>1, <2>2, <2>3 DEF s
  <1>8. ASSUME NEW j \in 1 .. Len(tail)
        PROVE  tail[j] = V[base + j - 1]
    <2>1. base + j - 1 \in Nat
      BY <1>1, LenProperties
    <2> QED  BY <2>1
  <1> HIDE DEF V
  <1>9. FrameOf(tail, base, f, Int32(p)) = [i \in 1 .. Fft |-> V[Folded(Source(f, i), p)]]
    <2>1. base + Len(tail) = p /\ f * Hop < Int32Span \div 2 /\ p < Int32Span \div 2
      BY <1>2, <1>6
    <2>2. p \in Nat /\ p > 1 /\ base \in Nat
      BY <1>1, <1>2, <1>6
    <2>3. Holds(tail, base, V)
      BY <1>8 DEF Holds
    <2>4. \A i \in 1 .. Fft : /\ -p < Source(f, i) /\ Source(f, i) <= 2 * p - 2
                              /\ Folded(Source(f, i), p) \in base .. p - 1
      BY <1>7
    <2> HIDE DEF p, base, x, z, h
    <2> QED  BY <2>1, <2>2, <2>3, <2>4, FrameReads
  <1>10. ASSUME NEW i \in 1 .. Fft
         PROVE  V[Folded(Source(f, i), p)] = PaddedSample(Folded(Source(f, i), p), n)
    <2> HIDE DEF p, base
    <2>1. Folded(Source(f, i), p) \in Nat
      BY <1>1, <1>2, <1>7
    <2> QED  BY <2>1 DEF V
  <1> QED  BY <1>9, <1>10 DEF PaddedFrame

\* The batch spectrogram, frame by frame.
LEMMA BatchIs ==
    ASSUME ShortSignal, NEW n \in Nat, n <= MaxSamples
    PROVE  LET b == BatchMel(PaddedAudio(n))
           IN  /\ b \in Seq(Window) /\ Len(b) = PaddedLen(n) \div Hop /\ Len(b) \in Nat
               /\ \A k \in 1 .. Len(b) : b[k] = PaddedFrame(k - 1, n)
  <1> DEFINE a == PaddedAudio(n)
             p == PaddedLen(n)
             Pos(s) == IF s >= 0 /\ s < p THEN s ELSE ReflectIndex(s, p)
             b == [k \in 1 .. (p \div Hop) |->
                      [i \in 1 .. Fft |-> a[Pos((k - 1) * Hop + (i - 1) - Pad) + 1]]]
  <1>1. a \in Seq(Int) /\ Len(a) = p /\ \A k \in 1 .. p : a[k] = PaddedSample(k - 1, n)
    BY PaddedAudioIs
  <1>2. BatchMel(a) = b
    BY <1>1 DEF BatchMel
  <1>3. /\ p \in Nat /\ p >= 4 * Hop /\ Hop \in Nat \ {0} /\ Pad \in Nat /\ Pad <= 2 * Hop
        /\ p \div Hop \in Nat
    BY PaddedShort, MelAssumption, QuotientBounds
  <1>4. ASSUME NEW k \in 1 .. (p \div Hop)
        PROVE  b[k] = PaddedFrame(k - 1, n) /\ b[k] \in Window
    <2> DEFINE x == (k - 1) * Hop
    <2>1. k - 1 \in Nat /\ k - 1 < p \div Hop
      BY <1>3
    <2>2. x \in Nat /\ x + Hop <= p
      BY <1>3, <2>1, QuotientBounds, FrameBounds
    <2>3. ASSUME NEW i \in 1 .. Fft
          PROVE  /\ a[Pos(x + (i - 1) - Pad) + 1]
                        = PaddedSample(Folded(Source(k - 1, i), p), n)
                 /\ PaddedSample(Folded(Source(k - 1, i), p), n) \in Int
      <3> DEFINE s == x + (i - 1) - Pad
      <3>1. s = Source(k - 1, i)
        BY DEF Source
      <3>2. s \in Int /\ x - Pad <= s /\ s <= x + Pad - 1
        BY <2>1, <3>1, SourceBounds
      <3> HIDE DEF s, x, p, a
      <3>3. -p < s /\ s <= 2 * p - 2 /\ p > 1
        BY <1>3, <2>2, <3>2
      <3>4. /\ -p < s /\ s < 0 => ReflectIndex(s, p) = -s
            /\ p <= s /\ s <= 2 * p - 2 => ReflectIndex(s, p) = 2 * p - 2 - s
        BY <1>3, <3>2, <3>3, ReflectOnce
      <3>5. Pos(s) = Folded(s, p) /\ Folded(s, p) \in 0 .. p - 1
        BY <1>3, <3>2, <3>3, <3>4 DEF Folded
      <3>6. Folded(s, p) + 1 \in 1 .. p /\ (Folded(s, p) + 1) - 1 = Folded(s, p)
        BY <1>3, <3>5
      <3>7. a[Folded(s, p) + 1] = PaddedSample(Folded(s, p), n)
        BY <1>1, <3>6
      <3>8. a[Folded(s, p) + 1] \in Int
        BY <1>1, <3>6, ElementOfSeq
      <3> QED  BY <3>1, <3>5, <3>7, <3>8 DEF s
    <2> DEFINE w == [i \in 1 .. Fft |-> a[Pos(x + (i - 1) - Pad) + 1]]
    <2>4. b[k] = w
      OBVIOUS
    <2> HIDE DEF Pos, a, x, b
    <2>5. w = PaddedFrame(k - 1, n)
      BY <2>3 DEF PaddedFrame
    <2>6. PaddedFrame(k - 1, n) \in Window
      BY <2>3 DEF PaddedFrame, Window
    <2> QED  BY <2>4, <2>5, <2>6
  <1>5. DOMAIN b = 1 .. (p \div Hop) /\ b = [k \in 1 .. (p \div Hop) |-> b[k]]
    OBVIOUS
  <1> DEFINE m == p \div Hop
  <1> HIDE DEF b, p, a
  <1>6. b \in Seq(Window) /\ Len(b) = p \div Hop
    <2>1. m \in Nat /\ b = [k \in 1 .. m |-> b[k]] /\ \A k \in 1 .. m : b[k] \in Window
      BY <1>3, <1>4, <1>5
    <2> HIDE DEF m
    <2>2. b \in Seq(Window) /\ Len(b) = m
      BY <2>1
    <2> QED  BY <2>2 DEF m
  <1> QED  BY <1>2, <1>3, <1>4, <1>6 DEF a, p

-----------------------------------------------------------------------------
(* What the samples and the frames are.                                    *)

\* Frame f of the utterance: the padded one's, once finish has padded it.
Truth(f) == IF finalized THEN PaddedFrame(f, sent) ELSE TrueFrame(f)

\* The samples held are those at their positions, and the frames computed so far
\* are the utterance's; no later sample can change one.
ContentInv ==
    /\ \A i \in 1 .. Len(pcm) : pcm[i] = Tone(pcm_base + i - 1)
    /\ \A k \in 1 .. Len(mel_frames) : mel_frames[k] = Truth(mel_base_frame + k - 1)
    /\ ~finalized => \A f \in Nat : f < next_frame => FrameHi(f) <= total_received - 1

\* The encoder has taken the frames before the drain's cursor, in order.
PushedInv ==
    /\ pushed \in Seq(Window) /\ Len(pushed) = enc_pushed_frames
    /\ \A k \in 1 .. Len(pushed) : pushed[k] = Truth(k - 1)

\* Where a call stands: what it has padded, sliced and finished.
AccountInv ==
    /\ ~left_pad_injected => /\ sent = 0 /\ samples = 0 /\ pc = "idle"
                             /\ total_received = 0 /\ ~finalized
    /\ left_pad_injected /\ ~finalized => total_received = Left + sent
    /\ finalized => /\ next_frame = PaddedLen(sent) \div Hop
                    /\ pc \in {"idle", "flush"} /\ (pc = "idle" <=> status # "open")
                    /\ status = "completed" => enc_pushed_frames = next_frame
    /\ ~finalized => pc # "flush" /\ (status = "completed" => samples = 0)
    /\ pc # "idle" => status = "open"
    /\ pc \in {"idle", "flush"} => todo = 0
    /\ pc \in {"idle", "flush"} /\ status = "open" => samples = sent
    /\ sent + todo <= MaxSamples

\* The matrix kept for introspection.
MatrixInv ==
    /\ retain_history => mel_base_frame = 0
    /\ finalized => mel_even = IF retain_history
                               THEN EvenMel(BatchMel(PaddedAudio(sent))) ELSE <<>>

UtteranceInv == HoldInv /\ ContentInv /\ PushedInv /\ AccountInv /\ MatrixInv

\* What two sequences hold one behind the other, the whole one holds.
LEMMA ConcatContent ==
    ASSUME NEW E, NEW s \in Seq(E), NEW t \in Seq(E), NEW base \in Nat, NEW F,
           Holds(s, base, F), Holds(t, base + Len(s), F)
    PROVE  Holds(s \o t, base, F)
  <1> DEFINE a == Len(s)
             b == Len(t)
             st == s \o t
  <1>1. a \in Nat /\ b \in Nat
    BY LenProperties
  <1>2. Len(st) = a + b /\ \A k \in 1 .. a + b : st[k] = IF k <= a THEN s[k] ELSE t[k - a]
    BY ConcatProperties
  <1> HIDE DEF st
  <1>3. ASSUME NEW k \in 1 .. a + b
        PROVE  st[k] = F[base + k - 1]
    <2>1. CASE k <= a
      <3>1. k \in 1 .. Len(s) /\ st[k] = s[k]
        BY <1>1, <1>2, <2>1
      <3> QED  BY <3>1 DEF Holds
    <2>2. CASE ~(k <= a)
      <3>1. st[k] = t[k - a] /\ k - a \in 1 .. Len(t)
        BY <1>1, <1>2, <2>2
      <3>2. t[k - a] = F[base + a + (k - a) - 1]
        BY <3>1 DEF Holds
      <3>3. base + a + (k - a) - 1 = base + k - 1
        BY <1>1
      <3> QED  BY <3>1, <3>2, <3>3
    <2> QED  BY <2>1, <2>2
  <1> QED  BY <1>2, <1>3 DEF st, Holds

\* The samples fed are those that come next.
ComesNext(new) ==
    /\ new \in Seq(Int)
    /\ total_received + Len(new) < Int32Span \div 2
    /\ \A i \in 1 .. Len(new) : new[i] = Tone(total_received + i - 1)

\* A feed of the next samples leaves the right samples and frames.
LEMMA FeedContent ==
    ASSUME FrontInv, ContentInv, NEW new, FeedFrontend(new), ComesNext(new)
    PROVE  ContentInv'
  <1> DEFINE total == total_received + Len(new)
             buffer == pcm \o new
             end == next_frame'
             low == pcm_base'
             made == FramesOf(buffer, pcm_base, next_frame, end, Int32(total))
             V == [k \in Nat |-> Tone(k)]
             F == [f \in Nat |-> TrueFrame(f)]
  <1>1. /\ ~finalized /\ ~finalized' /\ UNCHANGED mel_base_frame
        /\ total_received' = total /\ Len(new) \in Nat
        /\ next_frame' = FirstUnstable(total_received') /\ next_frame' >= next_frame
        /\ buffer \in Seq(Int) /\ Len(buffer) = Len(pcm) + Len(new)
        /\ mel_frames' = mel_frames
               \o FramesOf(buffer, pcm_base, next_frame, next_frame', Int32(total_received'))
        /\ pcm' \in Seq(Int) /\ pcm_base' = FrameLo(next_frame') /\ pcm_base' >= pcm_base
        /\ Len(pcm') = total_received' - pcm_base'
        /\ \A i \in 1 .. Len(pcm') : pcm'[i] = buffer[pcm_base' - pcm_base + i]
        /\ FrontInv'
    BY FeedDoes DEF ComesNext
  <1>2. /\ pcm \in Seq(Int) /\ Len(pcm) \in Nat /\ pcm_base \in Nat /\ total_received \in Nat
        /\ pcm_base + Len(pcm) = total_received /\ next_frame \in Nat /\ mel_base_frame \in Nat
        /\ mel_frames \in Seq(Window) /\ Len(mel_frames) \in Nat
        /\ mel_base_frame + Len(mel_frames) = next_frame
        /\ next_frame' \in Nat /\ pcm_base' \in Nat /\ pcm_base = FrameLo(next_frame)
    BY <1>1, LenProperties DEF FrontInv
  <1>3. total \in Nat /\ total >= total_received
    <2>1. Len(new) \in Nat /\ total_received \in Nat
      BY <1>1, <1>2
    <2> QED  BY <2>1
  <1>4. mel_frames' = mel_frames \o made
    BY <1>1 DEF made
  <1>5. \A g \in next_frame .. (end - 1) : FrameHi(g) <= total - 1
    BY <1>1, <1>3, StableEnd
  <1>10. total < Int32Span \div 2
    BY DEF ComesNext
  <1>11. /\ Len(pcm) \in Nat /\ Len(new) \in Nat /\ pcm_base \in Nat /\ total_received \in Nat
         /\ pcm_base + Len(pcm) = total_received /\ Len(buffer) = Len(pcm) + Len(new)
         /\ Len(buffer) \in Nat /\ pcm_base + Len(buffer) = total
    <2> HIDE DEF buffer
    <2>1. /\ Len(pcm) \in Nat /\ Len(new) \in Nat /\ pcm_base \in Nat /\ total_received \in Nat
          /\ pcm_base + Len(pcm) = total_received /\ Len(buffer) = Len(pcm) + Len(new)
      BY <1>1, <1>2
    <2> QED  BY <2>1
  <1>12. /\ next_frame \in Nat /\ end \in Nat /\ next_frame <= end
         /\ mel_base_frame \in Nat /\ Len(mel_frames) \in Nat
         /\ mel_base_frame + Len(mel_frames) = next_frame
    BY <1>1, <1>2
  <1>13. low \in Nat /\ low >= pcm_base /\ Len(pcm') = total - low
    BY <1>1, <1>2
  <1> HIDE DEF V, F, made, buffer, total, end, low
  <1>6. \A j \in 1 .. Len(buffer) : buffer[j] = Tone(pcm_base + j - 1)
    <2>1. ASSUME NEW k \in Nat
          PROVE  V[k] = Tone(k)
      BY DEF V
    <2>2. ASSUME NEW k \in 1 .. Len(pcm)
          PROVE  pcm[k] = V[pcm_base + k - 1]
      <3>1. pcm_base + k - 1 \in Nat
        BY <1>11
      <3> QED  BY <2>1, <3>1 DEF ContentInv
    <2>3. ASSUME NEW k \in 1 .. Len(new)
          PROVE  new[k] = V[pcm_base + Len(pcm) + k - 1]
      <3>1. pcm_base + Len(pcm) + k - 1 = total_received + k - 1 /\ total_received + k - 1 \in Nat
        BY <1>11
      <3>2. new[k] = Tone(total_received + k - 1)
        BY DEF ComesNext
      <3> QED  BY <2>1, <3>1, <3>2
    <2>4. \A k \in 1 .. Len(buffer) : buffer[k] = V[pcm_base + k - 1]
      <3>1. pcm \in Seq(Int) /\ new \in Seq(Int) /\ pcm_base \in Nat
        BY <1>2 DEF ComesNext
      <3>2. Holds(pcm, pcm_base, V) /\ Holds(new, pcm_base + Len(pcm), V)
        BY <2>2, <2>3 DEF Holds
      <3>3. Holds(pcm \o new, pcm_base, V)
        BY <3>1, <3>2, ConcatContent
      <3> QED  BY <3>3 DEF buffer, Holds
    <2>5. ASSUME NEW k \in 1 .. Len(buffer)
          PROVE  buffer[k] = Tone(pcm_base + k - 1)
      <3>1. pcm_base + k - 1 \in Nat
        BY <1>11
      <3> QED  BY <2>1, <2>4, <3>1
    <2> QED  BY <2>5
  <1>7. ASSUME NEW i \in 1 .. Len(pcm')
        PROVE  pcm'[i] = Tone(low + i - 1)
    <2> DEFINE j == low - pcm_base + i
    <2>1. j \in 1 .. Len(buffer) /\ pcm_base + j - 1 = low + i - 1
      BY <1>3, <1>11, <1>13
    <2> HIDE DEF j
    <2>2. buffer[j] = Tone(pcm_base + j - 1)
      BY <1>6, <2>1
    <2>3. pcm'[i] = buffer[j]
      BY <1>1 DEF j, low
    <2> QED  BY <2>1, <2>2, <2>3
  <1>8. ASSUME NEW f \in Nat, f < end
        PROVE  FrameHi(f) <= total - 1
    <2>1. CASE f < next_frame
      <3>1. FrameHi(f) <= total_received - 1 /\ FrameHi(f) \in Nat
        BY <1>1, <2>1, FrameBounds DEF ContentInv
      <3>2. total_received <= total /\ total_received \in Nat /\ total \in Nat
        BY <1>2, <1>3
      <3> QED  BY <3>1, <3>2
    <2>2. CASE ~(f < next_frame)
      <3>1. f \in next_frame .. (end - 1)
        BY <1>8, <1>12, <2>2
      <3> QED  BY <1>5, <3>1
    <2> QED  BY <2>1, <2>2
  <1>9. \A k \in 1 .. Len(mel_frames') : mel_frames'[k] = TrueFrame(mel_base_frame + k - 1)
    <2>1. ASSUME NEW f \in Nat
          PROVE  F[f] = TrueFrame(f)
      BY DEF F
    <2>2. /\ made \in Seq(Window) /\ Len(made) = end - next_frame
          /\ \A k \in 1 .. end - next_frame :
                 made[k] = FrameOf(buffer, pcm_base, next_frame + k - 1, Int32(total))
      <3>1. buffer \in Seq(Int)
        BY <1>1
      <3> QED  BY <1>12, <3>1, FramesOfProperty DEF made
    <2>3. ASSUME NEW k \in 1 .. Len(mel_frames)
          PROVE  mel_frames[k] = F[mel_base_frame + k - 1]
      <3>1. mel_base_frame + k - 1 \in Nat
        BY <1>2
      <3>2. mel_frames[k] = TrueFrame(mel_base_frame + k - 1)
        BY <1>1 DEF ContentInv, Truth
      <3> QED  BY <2>1, <3>1, <3>2
    <2>4. ASSUME NEW k \in 1 .. Len(made)
          PROVE  made[k] = F[mel_base_frame + Len(mel_frames) + k - 1]
      <3> DEFINE f == next_frame + k - 1
      <3>1. f \in Nat /\ f >= next_frame /\ f < end /\ k \in 1 .. end - next_frame
            /\ mel_base_frame + Len(mel_frames) + k - 1 = f
        <4>1. /\ next_frame \in Nat /\ end \in Nat /\ next_frame <= end
              /\ mel_base_frame + Len(mel_frames) = next_frame
          BY <1>12
        <4>2. k \in 1 .. end - next_frame
          BY <2>2
        <4> QED  BY <4>1, <4>2
      <3>2. made[k] = FrameOf(buffer, pcm_base, f, Int32(total))
        BY <2>2, <3>1
      <3> HIDE DEF f
      <3>3. pcm_base <= FrameLo(f)
        <4>1. CASE f = next_frame
          BY <1>2, <4>1
        <4>2. CASE next_frame < f
          BY <1>2, <3>1, <4>2, FramesGrow
        <4> QED  BY <1>12, <3>1, <4>1, <4>2
      <3>4. FrameHi(f) <= total - 1
        BY <1>8, <3>1
      <3>5. buffer \in Seq(Int)
        BY <1>1
      <3>6. FrameOf(buffer, pcm_base, f, Int32(total)) = TrueFrame(f)
        BY <1>3, <1>6, <1>10, <1>11, <3>1, <3>3, <3>4, <3>5, StableFrameReads
      <3> QED  BY <2>1, <3>1, <3>2, <3>6
    <2>5. \A k \in 1 .. Len(mel_frames \o made) : (mel_frames \o made)[k] = F[mel_base_frame + k - 1]
      <3>1. mel_frames \in Seq(Window) /\ made \in Seq(Window) /\ mel_base_frame \in Nat
        BY <1>2, <2>2
      <3>2. /\ Holds(mel_frames, mel_base_frame, F)
            /\ Holds(made, mel_base_frame + Len(mel_frames), F)
        BY <2>3, <2>4 DEF Holds
      <3>3. Holds(mel_frames \o made, mel_base_frame, F)
        BY <3>1, <3>2, ConcatContent
      <3> QED  BY <3>3 DEF Holds
    <2>6. ASSUME NEW k \in 1 .. Len(mel_frames')
          PROVE  mel_frames'[k] = TrueFrame(mel_base_frame + k - 1)
      <3>1. mel_frames' \in Seq(Window) /\ Len(mel_frames') \in Nat
        BY <1>1, LenProperties DEF FrontInv
      <3>2. mel_base_frame + k - 1 \in Nat
        BY <1>2, <3>1
      <3> QED  BY <1>4, <2>1, <2>5, <3>2
    <2> QED  BY <2>6
  <1> QED  BY <1>1, <1>7, <1>8, <1>9 DEF ContentInv, Truth, total, end, low

\* The end of the audio turns the frames held and those still to come into the
\* padded utterance's.
LEMMA FinishContent ==
    ASSUME ShortSignal, FrontInv, ContentInv, sent \in Nat, sent <= MaxSamples, sent' = sent,
           total_received = Left + sent, FinishFrontend(RightPad(sent))
    PROVE  /\ ContentInv' /\ next_frame' = PaddedLen(sent) \div Hop
           /\ finalized' /\ ~finalized /\ UNCHANGED <<mel_base_frame, retain_history>>
  <1> DEFINE pad == RightPad(sent)
             total == total_received + pad
             buffer == pcm \o Silence(pad)
             stable == FirstUnstable(total)
             base == FrameLo(stable)
             tail == SubSeq(buffer, base - pcm_base + 1, Len(buffer))
             end == next_frame'
             one == FramesOf(buffer, pcm_base, next_frame, stable, Int32(total))
             two == FramesOf(tail, base, stable, end, Int32(total))
             F == [f \in Nat |-> PaddedFrame(f, sent)]
             V == [k \in Nat |-> PaddedSample(k, sent)]
  <1>1. pad \in Nat /\ total \in Nat /\ Left \in Nat /\ total = PaddedLen(sent)
    <2>1. pad \in Nat /\ Left \in Nat
      BY PadsLong
    <2> HIDE DEF pad
    <2>2. (Left + sent) + pad \in Nat /\ (Left + sent) + pad = Left + sent + pad
      BY <2>1
    <2> QED  BY <2>1, <2>2 DEF PaddedLen, pad
  <1>2. /\ ~finalized /\ finalized' /\ UNCHANGED <<mel_base_frame, retain_history>>
        /\ end = IF stable < total \div Hop THEN total \div Hop ELSE stable
        /\ end \in Nat /\ stable \in Nat /\ next_frame <= stable /\ stable <= end
        /\ base \in Nat /\ base >= pcm_base
        /\ buffer \in Seq(Int) /\ Len(buffer) = Len(pcm) + pad
        /\ tail \in Seq(Int) /\ Len(tail) = total - base
        /\ \A i \in 1 .. Len(tail) : tail[i] = buffer[base - pcm_base + i]
        /\ mel_frames' = mel_frames \o one \o two
        /\ FrontInv'
    BY <1>1, FinishDoes
  <1>3. /\ pcm \in Seq(Int) /\ Len(pcm) \in Nat /\ pcm_base \in Nat
        /\ pcm_base + Len(pcm) = Left + sent /\ next_frame \in Nat /\ mel_base_frame \in Nat
        /\ Len(mel_frames) \in Nat /\ mel_base_frame + Len(mel_frames) = next_frame
        /\ pcm_base = FrameLo(next_frame) /\ total_received \in Nat
    BY <1>2, LenProperties DEF FrontInv
  <1>4. mel_frames \in Seq(Window)
    BY DEF FrontInv
  <1>5. /\ total <= FrameHi(stable) /\ stable * Hop <= total
        /\ \A g \in next_frame .. (stable - 1) : FrameHi(g) <= total - 1
    <2>1. total >= total_received
      BY <1>1, <1>3
    <2> HIDE DEF total, pad
    <2> QED  BY <1>1, <1>2, <2>1, StableEnd
  <1>6. \A j \in 1 .. Len(buffer) : buffer[j] = PaddedSample(pcm_base + j - 1, sent)
    <2>1. ASSUME NEW k \in Nat
          PROVE  V[k] = PaddedSample(k, sent)
      OBVIOUS
    <2> HIDE DEF V
    <2>2. ASSUME NEW k \in 1 .. Len(pcm)
          PROVE  pcm[k] = V[pcm_base + k - 1]
      <3>1. pcm_base + k - 1 \in Nat /\ pcm_base + k - 1 < Left + sent
        <4>1. /\ Len(pcm) \in Nat /\ pcm_base \in Nat
              /\ pcm_base + Len(pcm) = Left + sent
          BY <1>3
        <4> HIDE DEF pad, total, buffer, stable, base, tail, end, one, two, F, V
        <4> QED  BY <4>1
      <3>2. pcm[k] = Tone(pcm_base + k - 1)
        BY DEF ContentInv
      <3> QED  BY <2>1, <3>1, <3>2 DEF PaddedSample
    <2> DEFINE s == Silence(pad)
    <2>3. s \in Seq(Int) /\ Len(s) = pad /\ \A k \in 1 .. pad : s[k] = 0
      BY <1>1, SilenceProperty
    <2> HIDE DEF s, pad
    <2>4. ASSUME NEW k \in 1 .. Len(s)
          PROVE  s[k] = V[pcm_base + Len(pcm) + k - 1]
      <3>1. /\ pcm_base + Len(pcm) + k - 1 = (Left + sent) + k - 1
            /\ (Left + sent) + k - 1 \in Nat /\ ~((Left + sent) + k - 1 < Left + sent)
        BY <1>1, <1>3, <2>3
      <3>2. s[k] = 0
        BY <2>3
      <3>3. PaddedSample((Left + sent) + k - 1, sent) = 0
        BY <3>1 DEF PaddedSample
      <3> QED  BY <2>1, <3>1, <3>2, <3>3
    <2>5. \A k \in 1 .. Len(buffer) : buffer[k] = V[pcm_base + k - 1]
      <3>1. \A k \in 1 .. Len(pcm \o s) : (pcm \o s)[k] = V[pcm_base + k - 1]
        <4>1. pcm \in Seq(Int) /\ pcm_base \in Nat
          BY <1>3
        <4> HIDE DEF s
        <4>2. Holds(pcm, pcm_base, V) /\ Holds(s, pcm_base + Len(pcm), V)
          BY <2>2, <2>4 DEF Holds
        <4>3. Holds(pcm \o s, pcm_base, V)
          BY <2>3, <4>1, <4>2, ConcatContent
        <4> QED  BY <4>3 DEF Holds
      <3> QED  BY <3>1 DEF s
    <2>6. ASSUME NEW k \in 1 .. Len(buffer)
          PROVE  buffer[k] = PaddedSample(pcm_base + k - 1, sent)
      <3> HIDE DEF buffer
      <3>1. Len(buffer) \in Nat
        BY <1>2, LenProperties
      <3>2. pcm_base + k - 1 \in Nat
        BY <1>3, <3>1
      <3> QED  BY <2>1, <2>5, <3>2
    <2> QED  BY <2>6
  <1>7. /\ pcm_base + Len(buffer) = total /\ Len(buffer) \in Nat /\ base <= total
        /\ total = base + Len(tail) /\ Len(tail) \in Nat
    <2> DEFINE b == Len(buffer)
               t == Len(tail)
               q == Len(pcm)
    <2>1. b = q + pad /\ t = total - base /\ t \in Nat /\ base \in Nat
      <3>1. tail \in Seq(Int) /\ b = q + pad /\ t = total - base /\ base \in Nat
        BY <1>2
      <3> HIDE DEF tail
      <3>2. Len(tail) \in Nat
        BY <3>1, LenProperties
      <3> QED  BY <3>1, <3>2
    <2>2. q \in Nat /\ pcm_base \in Nat /\ pcm_base + q = Left + sent /\ total = (Left + sent) + pad
          /\ Left \in Nat /\ pad \in Nat
      BY <1>1, <1>3
    <2> HIDE DEF b, t, q, total, base, pad
    <2>3. pcm_base + b = total /\ b \in Nat /\ base <= total /\ total = base + t
      BY <2>1, <2>2
    <2> QED  BY <2>1, <2>3 DEF b, t
  <1> HIDE DEF buffer, tail, stable
  <1>8. \A j \in 1 .. Len(tail) : tail[j] = PaddedSample(base + j - 1, sent)
    <2>1. ASSUME NEW j \in 1 .. Len(tail)
          PROVE  tail[j] = PaddedSample(base + j - 1, sent)
      <3> DEFINE i == base - pcm_base + j
      <3> HIDE DEF total, base
      <3>1. i \in 1 .. Len(buffer) /\ pcm_base + i - 1 = base + j - 1
        <4>1. base \in Nat /\ base >= pcm_base /\ pcm_base \in Nat
          BY <1>2, <1>3
        <4> QED  BY <1>7, <4>1
      <3> HIDE DEF i
      <3>2. buffer[i] = PaddedSample(pcm_base + i - 1, sent)
        BY <1>6, <3>1
      <3>3. tail[j] = buffer[i]
        BY <1>2 DEF i
      <3> QED  BY <3>1, <3>2, <3>3
    <2> QED  BY <2>1
  <1>9. end = total \div Hop
    <2>1. stable <= total \div Hop /\ total \div Hop \in Nat
      <3>1. Hop \in Nat \ {0}
        BY MelAssumption
      <3> HIDE DEF total
      <3> QED  BY <1>1, <1>2, <1>5, <3>1, QuotientBounds
    <2> DEFINE q == total \div Hop
    <2>2. stable <= q /\ q \in Nat /\ end = IF stable < q THEN q ELSE stable
      BY <1>2, <2>1
    <2> HIDE DEF q, end, total
    <2>3. end = q
      BY <1>2, <2>2
    <2> QED  BY <2>3 DEF q
  <1> HIDE DEF base, end
  <1>10. ASSUME NEW f \in Nat, f < next_frame
         PROVE  TrueFrame(f) = PaddedFrame(f, sent)
    <2>1. FrameHi(f) <= total_received - 1
      BY <1>2, <1>10 DEF ContentInv
    <2>2. FrameHi(f) <= Left + sent - 1
      BY <1>1, <2>1
    <2> QED  BY <2>2, StableIsBatch
  <1> HIDE DEF total, pad
  <1>11. ASSUME NEW f \in Nat, next_frame <= f, f < stable
         PROVE  FrameOf(buffer, pcm_base, f, Int32(total)) = PaddedFrame(f, sent)
    <2>1. f \in next_frame .. (stable - 1)
      <3>1. next_frame \in Nat /\ stable \in Nat
        BY <1>2, <1>3
      <3> QED  BY <1>11, <3>1
    <2>2. FrameHi(f) <= total - 1
      BY <1>5, <2>1
    <2>3. pcm_base <= FrameLo(f)
      <3>1. CASE f = next_frame
        BY <1>3, <3>1
      <3>2. CASE next_frame < f
        BY <1>3, <3>2, FramesGrow
      <3> QED  BY <1>3, <1>11, <3>1, <3>2
    <2>4. buffer \in Seq(Int) /\ pcm_base \in Nat
      BY <1>2, <1>3
    <2>5. FrameHi(f) <= PaddedLen(sent) - 1 /\ pcm_base + Len(buffer) = PaddedLen(sent)
      BY <1>1, <1>7, <2>2
    <2>6. FrameOf(buffer, pcm_base, f, Int32(PaddedLen(sent))) = PaddedFrame(f, sent)
      BY <1>6, <2>3, <2>4, <2>5, StablePaddedReads
    <2> QED  BY <1>1, <2>6
  <1>12. ASSUME NEW f \in Nat, stable <= f, f < end
         PROVE  FrameOf(tail, base, f, Int32(total)) = PaddedFrame(f, sent)
    <2>1. /\ PaddedLen(sent) <= FrameHi(stable) /\ stable * Hop <= PaddedLen(sent)
          /\ f < PaddedLen(sent) \div Hop /\ base + Len(tail) = PaddedLen(sent)
      BY <1>1, <1>5, <1>7, <1>9, <1>12
    <2>2. tail \in Seq(Int) /\ stable \in Nat
      BY <1>2
    <2>3. FrameOf(tail, base, f, Int32(PaddedLen(sent))) = PaddedFrame(f, sent)
      BY <1>8, <1>12, <2>1, <2>2, LastFrameReads DEF base
    <2> QED  BY <1>1, <2>3
  <1>13. \A k \in 1 .. Len(mel_frames') : mel_frames'[k] = PaddedFrame(mel_base_frame + k - 1, sent)
    <2>1. ASSUME NEW f \in Nat
          PROVE  F[f] = PaddedFrame(f, sent)
      OBVIOUS
    <2> HIDE DEF F
    <2>2. ASSUME NEW k \in 1 .. Len(mel_frames)
          PROVE  mel_frames[k] = F[mel_base_frame + k - 1]
      <3>1. mel_base_frame + k - 1 \in Nat /\ mel_base_frame + k - 1 < next_frame
        BY <1>3
      <3>2. mel_frames[k] = TrueFrame(mel_base_frame + k - 1)
        BY <1>2 DEF ContentInv, Truth
      <3> QED  BY <1>10, <2>1, <3>1, <3>2
    <2>3. /\ one \in Seq(Window) /\ Len(one) = stable - next_frame
          /\ \A k \in 1 .. stable - next_frame :
                 one[k] = FrameOf(buffer, pcm_base, next_frame + k - 1, Int32(total))
      <3>1. buffer \in Seq(Int) /\ next_frame \in Nat /\ stable \in Nat /\ next_frame <= stable
        BY <1>2, <1>3
      <3> QED  BY <3>1, FramesOfProperty
    <2>4. /\ two \in Seq(Window) /\ Len(two) = end - stable
          /\ \A k \in 1 .. end - stable :
                 two[k] = FrameOf(tail, base, stable + k - 1, Int32(total))
      <3>1. tail \in Seq(Int) /\ end \in Nat /\ stable \in Nat /\ stable <= end
        BY <1>2 DEF end
      <3> QED  BY <3>1, FramesOfProperty
    <2> HIDE DEF one, two
    <2>5. ASSUME NEW k \in 1 .. Len(one)
          PROVE  one[k] = F[mel_base_frame + Len(mel_frames) + k - 1]
      <3> DEFINE f == next_frame + k - 1
      <3>1. /\ f \in Nat /\ next_frame <= f /\ f < stable /\ k \in 1 .. stable - next_frame
            /\ mel_base_frame + Len(mel_frames) + k - 1 = f
        <4>1. Len(one) = stable - next_frame /\ stable \in Nat /\ next_frame <= stable
          BY <1>2, <2>3
        <4>2. /\ next_frame \in Nat /\ mel_base_frame \in Nat /\ Len(mel_frames) \in Nat
              /\ mel_base_frame + Len(mel_frames) = next_frame
          BY <1>3
        <4> QED  BY <4>1, <4>2
      <3>2. one[k] = FrameOf(buffer, pcm_base, f, Int32(total))
        BY <2>3, <3>1
      <3> HIDE DEF f
      <3> QED  BY <1>11, <2>1, <3>1, <3>2
    <2> DEFINE st == mel_frames \o one
    <2>6. Holds(st, mel_base_frame, F)
      <3>1. /\ mel_frames \in Seq(Window) /\ one \in Seq(Window)
            /\ mel_base_frame \in Nat
        BY <1>3, <1>4, <2>3
      <3>2. /\ Holds(mel_frames, mel_base_frame, F)
            /\ Holds(one, mel_base_frame + Len(mel_frames), F)
        BY <2>2, <2>5 DEF Holds
      <3> QED  BY <3>1, <3>2, ConcatContent
    <2>7. st \in Seq(Window) /\ Len(st) = Len(mel_frames) + Len(one)
      BY <1>4, <2>3, ConcatProperties
    <2>8. mel_frames' = st \o two
      BY <1>2 DEF one, two
    <2> HIDE DEF st
    <2>9. ASSUME NEW k \in 1 .. Len(two)
          PROVE  two[k] = F[mel_base_frame + Len(st) + k - 1]
      <3> DEFINE f == stable + k - 1
      <3>1. /\ f \in Nat /\ stable <= f /\ f < end /\ k \in 1 .. end - stable
            /\ mel_base_frame + Len(st) + k - 1 = f
        <4>1. /\ Len(two) = end - stable /\ stable \in Nat /\ stable <= end /\ end \in Nat
              /\ Len(one) = stable - next_frame /\ Len(st) = Len(mel_frames) + Len(one)
          BY <1>2, <2>3, <2>4, <2>7 DEF end
        <4>2. /\ next_frame \in Nat /\ mel_base_frame \in Nat /\ Len(mel_frames) \in Nat
              /\ mel_base_frame + Len(mel_frames) = next_frame
          BY <1>3
        <4>3. mel_base_frame + Len(st) = stable /\ k \in 1 .. end - stable
          BY <4>1, <4>2
        <4> QED  BY <4>1, <4>2, <4>3
      <3>2. two[k] = FrameOf(tail, base, f, Int32(total))
        BY <2>4, <3>1
      <3> HIDE DEF f
      <3> QED  BY <1>12, <2>1, <3>1, <3>2
    <2>10. \A k \in 1 .. Len(st \o two) : (st \o two)[k] = F[mel_base_frame + k - 1]
      <3>1. st \in Seq(Window) /\ two \in Seq(Window) /\ mel_base_frame \in Nat
        BY <1>3, <2>4, <2>7
      <3>2. Holds(two, mel_base_frame + Len(st), F)
        BY <2>9 DEF Holds
      <3>3. Holds(st \o two, mel_base_frame, F)
        BY <2>6, <3>1, <3>2, ConcatContent
      <3> QED  BY <3>3 DEF Holds
    <2>11. ASSUME NEW k \in 1 .. Len(mel_frames')
           PROVE  mel_frames'[k] = PaddedFrame(mel_base_frame + k - 1, sent)
      <3>1. Len(mel_frames') \in Nat
        BY <1>2, LenProperties DEF FrontInv
      <3>2. mel_base_frame + k - 1 \in Nat
        BY <1>3, <3>1
      <3> QED  BY <2>1, <2>8, <2>10, <3>2
    <2> QED  BY <2>11
  <1>14. pcm' = <<>>
    BY <1>2 DEF FrontInv
  <1>15. ContentInv'
    <2>1. \A i \in 1 .. Len(pcm') : FALSE
      BY <1>14
    <2> QED  BY <1>2, <1>13, <2>1 DEF ContentInv, Truth
  <1> QED  BY <1>1, <1>2, <1>9, <1>15 DEF end

\* A push hands over the frames that come next.
LEMMA PushContent ==
    ASSUME HoldInv, ContentInv, PushedInv, NEW n \in Nat, n > 0,
           n <= next_frame - enc_pushed_frames, Push(n)
    PROVE  ContentInv' /\ PushedInv'
  <1> DEFINE held == HeldFrames(enc_pushed_frames, n)
             d == enc_pushed_frames - mel_base_frame
             T == [f \in Nat |-> Truth(f)]
  <1>1. /\ enc_pushed_frames' = enc_pushed_frames + n
        /\ mel_base_frame <= mel_base_frame' /\ mel_base_frame' \in Nat
        /\ UNCHANGED <<pcm, pcm_base, total_received, finalized, sent, next_frame>>
        /\ \A i \in 1 .. Len(mel_frames') :
               mel_frames'[i] = mel_frames[mel_base_frame' - mel_base_frame + i]
        /\ FrontInv'
    BY PushDoes DEF FrontInv
  <1>2. /\ mel_frames \in Seq(Window) /\ Len(mel_frames) \in Nat /\ mel_base_frame \in Nat
        /\ mel_base_frame + Len(mel_frames) = next_frame /\ next_frame \in Nat
        /\ enc_pushed_frames \in Nat /\ mel_base_frame <= enc_pushed_frames
        /\ enc_pushed_frames <= next_frame
    BY LenProperties DEF HoldInv, FrontInv, CursorInv
  <1>3. pushed' = pushed \o held
    BY DEF Push
  <1>4. \A f : Truth(f)' = Truth(f)
    BY <1>1 DEF Truth
  <1>5. \A k \in 1 .. Len(mel_frames) : mel_frames[k] = Truth(mel_base_frame + k - 1)
    BY DEF ContentInv
  <1>6. d \in Nat /\ d + n <= Len(mel_frames)
    BY <1>2
  <1>7. held \in Seq(Window) /\ Len(held) = n /\ \A k \in 1 .. n : held[k] = mel_frames[d + k]
    <2>1. held = SubSeq(mel_frames, d + 1, d + n)
      BY DEF HeldFrames
    <2> HIDE DEF held, d
    <2>2. \A i \in d + 1 .. d + n : mel_frames[i] \in Window
      BY <1>2, <1>6, ElementOfSeq
    <2>3. /\ SubSeq(mel_frames, d + 1, d + n) \in Seq(Window)
          /\ Len(SubSeq(mel_frames, d + 1, d + n))
                 = IF d + 1 <= d + n THEN (d + n) - (d + 1) + 1 ELSE 0
          /\ \A i \in 1 .. (d + n) - (d + 1) + 1 :
                 SubSeq(mel_frames, d + 1, d + n)[i] = mel_frames[(d + 1) + i - 1]
      BY <1>6, <2>2, SubSeqProperties
    <2>4. (d + n) - (d + 1) + 1 = n /\ d + 1 <= d + n
      BY <1>6
    <2>5. ASSUME NEW k \in 1 .. n
          PROVE  held[k] = mel_frames[d + k]
      <3>1. (d + 1) + k - 1 = d + k
        BY <1>6
      <3> QED  BY <2>1, <2>3, <2>4, <3>1
    <2> QED  BY <2>1, <2>3, <2>4, <2>5
  <1> HIDE DEF held
  <1>8. PushedInv'
    <2>1. ASSUME NEW f \in Nat
          PROVE  T[f] = Truth(f)
      OBVIOUS
    <2> HIDE DEF T
    <2>2. pushed \in Seq(Window) /\ Len(pushed) = enc_pushed_frames
      BY DEF PushedInv
    <2>3. ASSUME NEW k \in 1 .. Len(pushed)
          PROVE  pushed[k] = T[0 + k - 1]
      <3>1. k - 1 \in Nat /\ 0 + k - 1 = k - 1
        BY <1>2, <2>2
      <3>2. pushed[k] = Truth(k - 1)
        BY DEF PushedInv
      <3> QED  BY <2>1, <3>1, <3>2
    <2>4. ASSUME NEW k \in 1 .. Len(held)
          PROVE  held[k] = T[0 + Len(pushed) + k - 1]
      <3> DEFINE f == enc_pushed_frames + k - 1
      <3>1. /\ k \in 1 .. n /\ d + k \in 1 .. Len(mel_frames) /\ f \in Nat
            /\ mel_base_frame + (d + k) - 1 = f /\ 0 + Len(pushed) + k - 1 = f
        <4>1. /\ Len(held) = n /\ Len(pushed) = enc_pushed_frames
              /\ enc_pushed_frames \in Nat /\ mel_base_frame \in Nat
          BY <1>2, <1>7, <2>2
        <4>2. Len(mel_frames) \in Nat
          BY <1>2
        <4> QED  BY <1>6, <4>1, <4>2
      <3> HIDE DEF f, d
      <3>2. held[k] = mel_frames[d + k] /\ mel_frames[d + k] = Truth(mel_base_frame + (d + k) - 1)
        BY <1>5, <1>7, <3>1
      <3> QED  BY <2>1, <3>1, <3>2
    <2>5. \A k \in 1 .. Len(pushed \o held) : (pushed \o held)[k] = T[0 + k - 1]
      <3> HIDE DEF d
      <3>1. pushed \in Seq(Window) /\ held \in Seq(Window) /\ 0 \in Nat
        BY <1>7, <2>2
      <3>2. Holds(pushed, 0, T) /\ Holds(held, 0 + Len(pushed), T)
        BY <2>3, <2>4 DEF Holds
      <3>3. Holds(pushed \o held, 0, T)
        BY <3>1, <3>2, ConcatContent
      <3> QED  BY <3>3 DEF Holds
    <2>6. pushed \o held \in Seq(Window) /\ Len(pushed \o held) = enc_pushed_frames + n
      BY <1>7, <2>2, ConcatProperties
    <2>7. ASSUME NEW k \in 1 .. Len(pushed \o held)
          PROVE  (pushed \o held)[k] = Truth(k - 1)
      <3>1. k - 1 \in Nat /\ 0 + k - 1 = k - 1
        BY <1>2, <2>6
      <3> QED  BY <2>1, <2>5, <3>1
    <2> QED  BY <1>1, <1>3, <1>4, <2>6, <2>7 DEF PushedInv
  <1>9. ASSUME NEW k \in 1 .. Len(mel_frames')
        PROVE  mel_frames'[k] = Truth(mel_base_frame' + k - 1)
    <2> DEFINE b == mel_base_frame'
               m == Len(mel_frames')
               j == b - mel_base_frame + k
    <2>1. /\ m \in Nat /\ b \in Nat /\ b + m = next_frame /\ mel_base_frame <= b /\ k \in 1 .. m
          /\ mel_frames'[k] = mel_frames[j]
      BY <1>1, LenProperties DEF FrontInv
    <2> HIDE DEF b, m
    <2>2. j \in 1 .. Len(mel_frames) /\ mel_base_frame + j - 1 = b + k - 1
      BY <1>2, <2>1
    <2> HIDE DEF j
    <2>3. mel_frames[j] = Truth(mel_base_frame + j - 1)
      BY <1>5, <2>2
    <2> QED  BY <2>1, <2>2, <2>3 DEF b
  <1>10. ContentInv'
    BY <1>1, <1>4, <1>9 DEF ContentInv
  <1> QED  BY <1>8, <1>10

\* Where a stream that still feeds stands.
LEMMA FeedingFacts ==
    ASSUME ShortSignal, UtteranceInv
    PROVE  /\ sent \in Nat /\ sent <= MaxSamples /\ Left \in Nat /\ samples \in Nat
           /\ \A n \in Nat : n <= MaxSamples => Left + n < Int32Span \div 2
  <1>1. /\ sent \in Nat /\ todo \in Nat /\ sent + todo <= MaxSamples /\ MaxSamples \in Nat
        /\ samples \in Nat
    BY MelAssumption DEF UtteranceInv, HoldInv, CursorInv, AccountInv
  <1>2. Left \in Nat
    BY PadsLong
  <1>3. ASSUME NEW n \in Nat, n <= MaxSamples
        PROVE  Left + n < Int32Span \div 2
    <2> DEFINE p == PaddedLen(n)
               h == Int32Span \div 2
    <2>1. p \in Nat /\ p < h /\ p >= Left + n + 2 * Hop /\ Hop \in Nat /\ h \in Nat
      BY <1>3, PaddedShort, MelAssumption
    <2> HIDE DEF p, h
    <2>2. Left + n < h
      BY <1>2, <2>1
    <2> QED  BY <2>2 DEF h
  <1> QED  BY <1>1, <1>2, <1>3

LEMMA CallFeedContent ==
    ASSUME ShortSignal, UtteranceInv, NEW n \in FeedSizes, CallFeed(n)
    PROVE  UtteranceInv'
  <1>1. HoldInv'
    BY CallFeedHold DEF UtteranceInv
  <1>2. /\ pc = "idle" /\ status = "open" /\ samples + n <= MaxSamples /\ EnsureLeftPad
        /\ todo' = n /\ pc' = "slice"
        /\ UNCHANGED <<samples, sent, enc_pushed_frames, pushed, mel_even, status>>
    BY DEF CallFeed
  <1>3. samples = sent /\ ~finalized
    BY <1>2 DEF UtteranceInv, AccountInv
  <1>4. sent' + todo' <= MaxSamples
    BY <1>2, <1>3
  <1>5. CASE left_pad_injected
    <2>1. UNCHANGED <<feVars, left_pad_injected>>
      BY <1>2, <1>5 DEF EnsureLeftPad
    <2>2. ContentInv'
      BY <1>2, <2>1 DEF UtteranceInv, ContentInv, Truth, feVars
    <2>3. PushedInv'
      BY <1>2, <2>1 DEF UtteranceInv, PushedInv, Truth, feVars
    <2>4. AccountInv'
      BY <1>2, <1>3, <1>4, <1>5, <2>1 DEF UtteranceInv, AccountInv, feVars
    <2>5. MatrixInv'
      BY <1>2, <2>1 DEF UtteranceInv, MatrixInv, feVars
    <2> QED  BY <1>1, <2>2, <2>3, <2>4, <2>5 DEF UtteranceInv
  <1>6. CASE ~left_pad_injected
    <2> DEFINE new == Silence(Left)
    <2>1. /\ FeedFrontend(new) /\ left_pad_injected' = TRUE /\ total_received = 0 /\ sent = 0
      BY <1>2, <1>6 DEF EnsureLeftPad, UtteranceInv, AccountInv
    <2>2. new \in Seq(Int) /\ Len(new) = Left /\ \A i \in 1 .. Left : new[i] = 0
      BY SilenceProperty, PadsLong
    <2> HIDE DEF new
    <2>3. ComesNext(new)
      <3>1. Left \in Nat /\ Left + 0 < Int32Span \div 2
        BY <2>1, FeedingFacts
      <3>2. \A i \in 1 .. Left : Tone(0 + i - 1) = 0
        BY <3>1 DEF Tone
      <3>3. 0 + Left < Int32Span \div 2
        BY <3>1
      <3> QED  BY <2>1, <2>2, <3>2, <3>3 DEF ComesNext
    <2>4. /\ ContentInv' /\ ~finalized' /\ total_received' = 0 + Left
          /\ UNCHANGED <<mel_base_frame, retain_history>>
      BY <2>1, <2>2, <2>3, FeedContent, FeedDoes DEF UtteranceInv, HoldInv
    <2>5. PushedInv'
      BY <1>2, <1>3, <2>4 DEF UtteranceInv, PushedInv, Truth
    <2>6. total_received' = Left + sent'
      BY <1>2, <2>1, <2>4, PadsLong
    <2>7. AccountInv'
      BY <1>2, <1>3, <1>4, <2>1, <2>4, <2>6 DEF UtteranceInv, AccountInv
    <2>8. MatrixInv'
      BY <2>4 DEF UtteranceInv, MatrixInv
    <2> QED  BY <1>1, <2>4, <2>5, <2>7, <2>8 DEF UtteranceInv
  <1> QED  BY <1>5, <1>6

LEMMA FeedSliceContent ==
    ASSUME ShortSignal, UtteranceInv, FeedSlice
    PROVE  UtteranceInv'
  <1> DEFINE n == SmallerOf(AudioSlice, todo)
             new == [i \in 1 .. n |-> sent + i]
  <1>1. HoldInv'
    BY FeedSliceHold DEF UtteranceInv
  <1>2. /\ n \in Nat /\ n <= todo /\ new \in Seq(Int) /\ Len(new) = n
        /\ FeedFrontend(new) /\ sent' = sent + n /\ todo' = todo - n /\ pc' = "drain"
        /\ \A i \in 1 .. n : new[i] = sent + i
        /\ UNCHANGED <<left_pad_injected, samples, enc_pushed_frames, pushed, mel_even, status>>
    BY SliceTakes DEF UtteranceInv
  <1>3. pc = "slice"
    BY DEF FeedSlice
  <1>4. /\ left_pad_injected /\ ~finalized /\ total_received = Left + sent
        /\ status = "open" /\ sent + todo <= MaxSamples
    BY <1>3 DEF UtteranceInv, AccountInv
  <1> HIDE DEF new, n
  <1>5. /\ sent \in Nat /\ Left \in Nat /\ todo \in Nat /\ MaxSamples \in Nat
        /\ sent + n \in Nat /\ sent + n <= MaxSamples
    <2>1. sent \in Nat /\ Left \in Nat /\ todo \in Nat /\ MaxSamples \in Nat
      BY FeedingFacts, MelAssumption DEF UtteranceInv, HoldInv, CursorInv
    <2> QED  BY <1>2, <1>4, <2>1
  <1>6. ComesNext(new)
    <2> DEFINE h == Int32Span \div 2
    <2>1. Left + (sent + n) < h
      BY <1>5, FeedingFacts
    <2> HIDE DEF h
    <2>2. total_received + Len(new) < h
      <3>1. (Left + sent) + n = Left + (sent + n)
        BY <1>2, <1>5
      <3> QED  BY <1>2, <1>4, <2>1, <3>1
    <2>3. ASSUME NEW i \in 1 .. n
          PROVE  new[i] = Tone(total_received + i - 1)
      <3>1. /\ ~((Left + sent) + i - 1 < Left)
            /\ ((Left + sent) + i - 1) - Left + 1 = sent + i
        BY <1>2, <1>5
      <3>2. Tone((Left + sent) + i - 1) = sent + i
        BY <3>1 DEF Tone
      <3> QED  BY <1>2, <1>4, <3>2
    <2> QED  BY <1>2, <2>2, <2>3 DEF ComesNext, h
  <1>7. /\ ContentInv' /\ ~finalized' /\ total_received' = total_received + n
        /\ UNCHANGED <<mel_base_frame, retain_history>>
    BY <1>2, <1>6, FeedContent, FeedDoes DEF UtteranceInv, HoldInv
  <1>8. PushedInv'
    BY <1>2, <1>4, <1>7 DEF UtteranceInv, PushedInv, Truth
  <1>9. total_received' = Left + sent' /\ sent' + todo' <= MaxSamples
    <2>1. (Left + sent) + n = Left + (sent + n) /\ (sent + n) + (todo - n) <= MaxSamples
      BY <1>2, <1>4, <1>5
    <2> QED  BY <1>2, <1>4, <1>7, <2>1
  <1>10. AccountInv'
    BY <1>2, <1>4, <1>7, <1>9 DEF AccountInv
  <1>11. MatrixInv'
    BY <1>7 DEF UtteranceInv, MatrixInv
  <1> QED  BY <1>1, <1>7, <1>8, <1>10, <1>11 DEF UtteranceInv

LEMMA DrainOneContent ==
    ASSUME ShortSignal, UtteranceInv, DrainOne
    PROVE  UtteranceInv'
  <1> DEFINE n == SmallerOf(MelSlice, next_frame - enc_pushed_frames)
  <1>1. HoldInv' /\ HoldInv
    BY DrainOneHold DEF UtteranceInv
  <1>2. /\ enc_pushed_frames < next_frame /\ enc_pushed_frames \in Nat /\ next_frame \in Nat
        /\ pc = "drain" /\ Push(n) /\ UNCHANGED <<todo, pc, status>>
    BY DEF DrainOne, UtteranceInv, HoldInv, CursorInv, FrontInv
  <1>3. n \in Nat /\ n > 0 /\ n <= next_frame - enc_pushed_frames
    <2>1. next_frame - enc_pushed_frames \in Nat /\ next_frame - enc_pushed_frames > 0
      BY <1>2
    <2> QED  BY <2>1, SmallerProperty, MelAssumption
  <1> HIDE DEF n
  <1>4. ContentInv' /\ PushedInv'
    BY <1>1, <1>2, <1>3, PushContent DEF UtteranceInv
  <1>5. /\ UNCHANGED <<total_received, finalized, left_pad_injected, samples, sent, mel_even, next_frame>>
        /\ retain_history' = retain_history
        /\ retain_history => mel_base_frame' = mel_base_frame
    BY <1>1, <1>2, <1>3, PushDoes
  <1>6. AccountInv'
    BY <1>2, <1>5 DEF UtteranceInv, AccountInv
  <1>7. MatrixInv'
    BY <1>5 DEF UtteranceInv, MatrixInv
  <1> QED  BY <1>1, <1>4, <1>6, <1>7 DEF UtteranceInv

LEMMA DrainFinalContent ==
    ASSUME ShortSignal, UtteranceInv, DrainFinal
    PROVE  UtteranceInv'
  <1> DEFINE n == next_frame - enc_pushed_frames
  <1>1. HoldInv' /\ HoldInv
    BY DrainFinalHold DEF UtteranceInv
  <1>2. /\ enc_pushed_frames < next_frame /\ enc_pushed_frames \in Nat /\ next_frame \in Nat
        /\ pc = "flush" /\ Push(n) /\ UNCHANGED todo /\ pc' = "idle" /\ status' = "completed"
    BY DEF DrainFinal, Push, HasFrame, UtteranceInv, HoldInv, CursorInv, FrontInv
  <1>3. n \in Nat /\ n > 0 /\ n <= next_frame - enc_pushed_frames /\ enc_pushed_frames + n = next_frame
    BY <1>2
  <1> HIDE DEF n
  <1>4. ContentInv' /\ PushedInv'
    BY <1>1, <1>2, <1>3, PushContent DEF UtteranceInv
  <1>5. /\ UNCHANGED <<total_received, finalized, left_pad_injected, samples, sent, mel_even, next_frame>>
        /\ retain_history' = retain_history
        /\ retain_history => mel_base_frame' = mel_base_frame
        /\ enc_pushed_frames' = next_frame
    BY <1>1, <1>2, <1>3, PushDoes
  <1>6. AccountInv'
    BY <1>2, <1>5 DEF UtteranceInv, AccountInv
  <1>7. MatrixInv'
    BY <1>5 DEF UtteranceInv, MatrixInv
  <1> QED  BY <1>1, <1>4, <1>6, <1>7 DEF UtteranceInv

LEMMA StillContent ==
    ASSUME UtteranceInv, DrainEnds \/ DrainFails \/ FinishEmpty \/ UNCHANGED vars
    PROVE  UtteranceInv'
  <1>1. UNCHANGED <<feVars, left_pad_injected, sent, enc_pushed_frames, pushed, mel_even>>
    BY DEF DrainEnds, DrainFails, FinishEmpty, vars, callVars
  <1>2. HoldInv'
    BY StillHold DEF UtteranceInv
  <1>3. ContentInv'
    BY <1>1 DEF UtteranceInv, ContentInv, Truth, feVars
  <1>4. PushedInv'
    BY <1>1 DEF UtteranceInv, PushedInv, Truth, feVars
  <1>5. MatrixInv'
    BY <1>1 DEF UtteranceInv, MatrixInv, feVars
  <1>6. AccountInv'
    <2>1. CASE DrainEnds
      <3>1. todo \in Nat /\ (~(todo > 0) => todo = 0)
        BY MelAssumption DEF UtteranceInv, HoldInv, CursorInv
      <3>2. /\ pc = "drain" /\ UNCHANGED <<todo, status>>
            /\ IF todo > 0 THEN pc' = "slice" /\ UNCHANGED samples
               ELSE pc' = "idle" /\ samples' = sent
        BY <2>1 DEF DrainEnds
      <3> QED  BY <1>1, <3>1, <3>2 DEF UtteranceInv, AccountInv, feVars
    <2>2. CASE DrainFails
      <3>1. /\ pc # "idle" /\ todo' = 0 /\ pc' = "idle" /\ status' = "failed" /\ UNCHANGED samples
        BY <2>2 DEF DrainFails
      <3>2. sent' + todo' <= MaxSamples
        <4>1. sent \in Nat /\ todo \in Nat /\ MaxSamples \in Nat /\ sent + todo <= MaxSamples
          BY MelAssumption DEF UtteranceInv, HoldInv, CursorInv, AccountInv
        <4> QED  BY <1>1, <3>1, <4>1
      <3> QED  BY <1>1, <3>1, <3>2 DEF UtteranceInv, AccountInv, feVars
    <2>3. CASE FinishEmpty
      <3>1. /\ pc = "idle" /\ status = "open" /\ samples = 0 /\ status' = "completed"
            /\ UNCHANGED <<samples, todo, pc>>
        BY <2>3 DEF FinishEmpty
      <3> QED  BY <1>1, <3>1 DEF UtteranceInv, AccountInv, feVars
    <2>4. CASE UNCHANGED vars
      BY <2>4 DEF UtteranceInv, AccountInv, vars, callVars, feVars
    <2> QED  BY <2>1, <2>2, <2>3, <2>4
  <1> QED  BY <1>2, <1>3, <1>4, <1>5, <1>6 DEF UtteranceInv

\* Two sequences of one length that agree everywhere are the same.
LEMMA SameSequence ==
    ASSUME NEW E, NEW s \in Seq(E), NEW t \in Seq(E), Len(s) = Len(t),
           \A k \in 1 .. Len(s) : s[k] = t[k]
    PROVE  s = t
  BY SeqEqual

LEMMA CallFinishContent ==
    ASSUME ShortSignal, UtteranceInv, CallFinish
    PROVE  UtteranceInv'
  <1>1. HoldInv' /\ HoldInv
    BY CallFinishHold DEF UtteranceInv
  <1>2. /\ pc = "idle" /\ status = "open" /\ samples > 0
        /\ mel_even' = AssembleEven(mel_base_frame, mel_frames') /\ pc' = "flush"
        /\ FinishFrontend(RightPad(samples))
        /\ UNCHANGED <<left_pad_injected, samples, sent, enc_pushed_frames, pushed, todo, status>>
    BY DEF CallFinish
  <1>3. /\ samples = sent /\ ~finalized /\ left_pad_injected /\ total_received = Left + sent
        /\ todo = 0 /\ sent + todo <= MaxSamples
    BY <1>2 DEF UtteranceInv, AccountInv
  <1>4. sent \in Nat /\ sent <= MaxSamples /\ Left \in Nat
    BY FeedingFacts
  <1>5. /\ ContentInv' /\ next_frame' = PaddedLen(sent) \div Hop /\ finalized'
        /\ UNCHANGED <<mel_base_frame, retain_history>>
    <2>1. FrontInv /\ ContentInv
      BY DEF UtteranceInv, HoldInv
    <2>2. FinishFrontend(RightPad(sent))
      BY <1>2, <1>3
    <2> QED  BY <1>2, <1>3, <1>4, <2>1, <2>2, FinishContent
  <1>6. PushedInv'
    <2>1. pushed \in Seq(Window) /\ Len(pushed) = enc_pushed_frames
      BY DEF UtteranceInv, PushedInv
    <2>2. enc_pushed_frames \in Nat /\ enc_pushed_frames <= next_frame /\ next_frame \in Nat
      BY DEF UtteranceInv, HoldInv, CursorInv, FrontInv
    <2>3. ASSUME NEW k \in 1 .. Len(pushed)
          PROVE  pushed[k] = PaddedFrame(k - 1, sent)
      <3>1. pushed[k] = TrueFrame(k - 1)
        BY <1>3 DEF UtteranceInv, PushedInv, Truth
      <3>2. k - 1 \in Nat /\ k - 1 < next_frame
        BY <2>1, <2>2
      <3>3. FrameHi(k - 1) <= total_received - 1
        BY <1>3, <3>2 DEF UtteranceInv, ContentInv
      <3>4. FrameHi(k - 1) <= Left + sent - 1
        BY <1>3, <1>4, <3>3
      <3>5. TrueFrame(k - 1) = PaddedFrame(k - 1, sent)
        BY <1>4, <3>2, <3>4, StableIsBatch
      <3> QED  BY <3>1, <3>5
    <2> QED  BY <1>2, <1>5, <2>1, <2>3 DEF PushedInv, Truth
  <1>7. AccountInv'
    <2>1. UNCHANGED <<samples, sent, todo, status, left_pad_injected>> /\ pc' = "flush"
          /\ next_frame' = PaddedLen(sent') \div Hop
      BY <1>2, <1>5
    <2> QED  BY <1>2, <1>3, <1>5, <2>1 DEF AccountInv
  <1>8. MatrixInv'
    <2>1. retain_history => mel_base_frame = 0
      BY DEF UtteranceInv, MatrixInv
    <2>2. CASE retain_history
      <3> DEFINE b == BatchMel(PaddedAudio(sent))
      <3>1. /\ b \in Seq(Window) /\ Len(b) = PaddedLen(sent) \div Hop /\ Len(b) \in Nat
            /\ \A k \in 1 .. Len(b) : b[k] = PaddedFrame(k - 1, sent)
        BY <1>4, BatchIs
      <3>2. /\ mel_frames' \in Seq(Window) /\ Len(mel_frames') \in Nat
            /\ 0 + Len(mel_frames') = next_frame' /\ mel_base_frame = 0
        BY <1>1, <1>5, <2>1, <2>2, LenProperties DEF HoldInv, FrontInv
      <3>3. ASSUME NEW k \in 1 .. Len(mel_frames')
            PROVE  mel_frames'[k] = PaddedFrame(k - 1, sent)
        <4>1. 0 + k - 1 = k - 1
          BY <3>2
        <4> QED  BY <1>2, <1>5, <3>2, <4>1 DEF ContentInv, Truth
      <3> DEFINE m == mel_frames'
      <3>4. Len(m) = Len(b)
        BY <1>5, <3>1, <3>2
      <3> HIDE DEF b
      <3>5. m = b
        <4>1. m \in Seq(Window) /\ b \in Seq(Window)
          BY <3>1, <3>2
        <4>2. ASSUME NEW k \in 1 .. Len(m)
              PROVE  m[k] = b[k]
          BY <3>1, <3>3, <3>4
        <4> HIDE DEF m
        <4> QED  BY <3>4, <4>1, <4>2, SameSequence
      <3>6. mel_even' = EvenMel(b)
        BY <1>2, <3>2, <3>5 DEF AssembleEven, EvenMel
      <3> QED  BY <1>2, <1>5, <2>1, <2>2, <3>6 DEF MatrixInv, b
    <2>3. CASE ~retain_history
      <3>1. /\ mel_base_frame = enc_pushed_frames /\ enc_pushed_frames = next_frame
            /\ total_received <= FrameHi(next_frame)
        BY <1>2, <1>3, <2>3 DEF UtteranceInv, HoldInv, FrontInv, CursorInv
      <3>2. mel_base_frame # 0
        <4> SUFFICES ASSUME next_frame = 0
                     PROVE  FALSE
          BY <3>1
        <4>1. FrameHi(0) = (IF 0 * Hop = 0 THEN Pad ELSE 0 * Hop + Pad - 1) /\ 0 * Hop = 0
              /\ Pad \in Nat /\ Hop \in Nat /\ Pad <= 2 * Hop
          BY FrameBounds, MelAssumption
        <4>2. FrameHi(0) = Pad
          BY <4>1
        <4>3. 2 * Hop <= Left /\ Left + sent <= Pad
          BY <1>3, <3>1, <4>2, PadsLong
        <4> QED  BY <1>2, <1>3, <1>4, <4>1, <4>3
      <3>3. mel_even' = <<>>
        BY <1>2, <3>2 DEF AssembleEven
      <3> QED  BY <1>5, <2>3, <3>3 DEF MatrixInv
    <2> QED  BY <2>2, <2>3
  <1> QED  BY <1>1, <1>5, <1>6, <1>7, <1>8 DEF UtteranceInv

LEMMA FreshContent ==
    ASSUME Len(pcm) = 0, Len(mel_frames) = 0, next_frame = 0
    PROVE  ContentInv
  <1>1. \A f \in Nat : ~(f < 0)
    OBVIOUS
  <1>2. \A k \in 1 .. 0 : FALSE
    OBVIOUS
  <1> QED  BY <1>1, <1>2 DEF ContentInv

LEMMA InitContent == Init => UtteranceInv
  <1> SUFFICES ASSUME Init
               PROVE  UtteranceInv
    OBVIOUS
  <1>1. HoldInv
    BY InitHold
  <1>2. /\ pcm = <<>> /\ mel_frames = <<>> /\ next_frame = 0 /\ mel_base_frame = 0 /\ total_received = 0
        /\ finalized = FALSE /\ left_pad_injected = FALSE /\ samples = 0 /\ sent = 0
        /\ enc_pushed_frames = 0 /\ pushed = <<>> /\ todo = 0 /\ pc = "idle" /\ status = "open"
    BY DEF Init, FreshFrontend
  <1>3. <<>> \in Seq(Window) /\ Len(<<>>) = 0 /\ \A k \in 1 .. 0 : FALSE
    OBVIOUS
  <1>4. ContentInv
    BY <1>2, <1>3, FreshContent
  <1>5. PushedInv
    BY <1>2, <1>3 DEF PushedInv
  <1>6. AccountInv
    <2>1. sent + todo <= MaxSamples
      BY <1>2, MelAssumption
    <2> QED  BY <1>2, <2>1 DEF AccountInv
  <1>7. MatrixInv
    BY <1>2 DEF MatrixInv
  <1> QED  BY <1>1, <1>4, <1>5, <1>6, <1>7 DEF UtteranceInv

LEMMA CallResetContent ==
    ASSUME UtteranceInv, CallReset
    PROVE  UtteranceInv'
  <1>1. HoldInv'
    BY CallResetHold DEF UtteranceInv
  <1>2. /\ pcm' = <<>> /\ mel_frames' = <<>> /\ next_frame' = 0 /\ mel_base_frame' = 0
        /\ total_received' = 0 /\ finalized' = FALSE /\ left_pad_injected' = FALSE
        /\ samples' = 0 /\ sent' = 0 /\ enc_pushed_frames' = 0 /\ pushed' = <<>>
        /\ status' = "open" /\ todo' = todo /\ pc' = "idle" /\ pc = "idle"
    BY DEF CallReset, ResetFrontend
  <1>3. <<>> \in Seq(Window) /\ Len(<<>>) = 0 /\ \A k \in 1 .. 0 : FALSE
    OBVIOUS
  <1>4. ContentInv'
    <2>1. \A f \in Nat : ~(f < 0)
      OBVIOUS
    <2> QED  BY <1>2, <1>3, <2>1 DEF ContentInv
  <1>5. PushedInv'
    BY <1>2, <1>3 DEF PushedInv
  <1>6. AccountInv'
    <2>1. todo = 0
      BY <1>2 DEF UtteranceInv, AccountInv
    <2>2. sent' + todo' <= MaxSamples
      BY <1>2, <2>1, MelAssumption
    <2> QED  BY <1>2, <2>1, <2>2 DEF AccountInv
  <1>7. MatrixInv'
    BY <1>2 DEF MatrixInv
  <1> QED  BY <1>1, <1>4, <1>5, <1>6, <1>7 DEF UtteranceInv

LEMMA NextContent ==
    ASSUME ShortSignal, UtteranceInv, [Next]_vars
    PROVE  UtteranceInv'
  BY CallFeedContent, FeedSliceContent, DrainOneContent, DrainFinalContent, StillContent,
     CallFinishContent, CallResetContent DEF Next

-----------------------------------------------------------------------------
(* The streamed spectrogram is the batch path's.                           *)

\* What is computed, held and pushed is the utterance's in every reachable state.
THEOREM UtteranceInductive ==
    ASSUME ShortSignal
    PROVE  Spec => []UtteranceInv
  BY InitContent, NextContent, PTL DEF Spec

\* What the encoder has taken is the beginning of the batch spectrogram, and all of it
\* at the end.
LEMMA UtteranceIsBatch ==
    ASSUME ShortSignal, UtteranceInv
    PROVE  SameAsBatch
  <1> DEFINE b == BatchMel(PaddedAudio(sent))
             q == PaddedLen(sent) \div Hop
             n == Len(pushed)
  <1>1. sent \in Nat /\ sent <= MaxSamples /\ Left \in Nat
    BY FeedingFacts
  <1>2. /\ b \in Seq(Window) /\ Len(b) = q /\ q \in Nat
        /\ \A k \in 1 .. q : b[k] = PaddedFrame(k - 1, sent)
    BY <1>1, BatchIs
  <1>3. /\ pushed \in Seq(Window) /\ n = enc_pushed_frames /\ n \in Nat
        /\ n <= next_frame /\ next_frame \in Nat
    BY DEF UtteranceInv, PushedInv, HoldInv, CursorInv, FrontInv
  <1>4. n <= q /\ \A k \in 1 .. n : pushed[k] = PaddedFrame(k - 1, sent)
    <2>1. CASE finalized
      <3>1. next_frame = q /\ \A k \in 1 .. n : pushed[k] = PaddedFrame(k - 1, sent)
        BY <2>1 DEF UtteranceInv, AccountInv, PushedInv, Truth
      <3> HIDE DEF n, q
      <3> QED  BY <1>3, <3>1
    <2>2. CASE ~finalized
      <3>1. ASSUME NEW f \in Nat, f < next_frame
            PROVE  TrueFrame(f) = PaddedFrame(f, sent) /\ f < q
        <4>1. FrameHi(f) <= total_received - 1 /\ FrameHi(f) \in Nat
          BY <2>2, <3>1, FrameBounds DEF UtteranceInv, ContentInv
        <4>2. total_received = 0 \/ total_received = Left + sent
          BY <2>2 DEF UtteranceInv, AccountInv
        <4>3. FrameHi(f) <= Left + sent - 1
          BY <1>1, <4>1, <4>2
        <4> QED  BY <1>1, <3>1, <4>3, StableIsBatch
      <3> HIDE DEF n, q
      <3>2. n <= q
        <4>1. CASE n = 0
          BY <1>2, <1>3, <4>1
        <4>2. CASE n # 0
          <5>1. n - 1 \in Nat /\ n - 1 < next_frame
            BY <1>3, <4>2
          <5> QED  BY <1>2, <1>3, <3>1, <5>1
        <4> QED  BY <4>1, <4>2
      <3>3. ASSUME NEW k \in 1 .. n
            PROVE  pushed[k] = PaddedFrame(k - 1, sent)
        <4>1. k - 1 \in Nat /\ k - 1 < next_frame
          BY <1>3
        <4>2. pushed[k] = TrueFrame(k - 1)
          BY <2>2 DEF UtteranceInv, PushedInv, Truth, n
        <4> QED  BY <3>1, <4>1, <4>2
      <3> QED  BY <3>2, <3>3
    <2> QED  BY <2>1, <2>2
  <1>5. StreamedIsBatch
    <2>1. pushed = SubSeq(b, 1, n)
      <3> HIDE DEF b, q, n
      <3>1. \A i \in 1 .. n : b[i] \in Window
        <4>1. ASSUME NEW i \in 1 .. n
              PROVE  i \in 1 .. Len(b)
          BY <1>2, <1>3, <1>4
        <4> QED  BY <1>2, <4>1, ElementOfSeq
      <3> DEFINE r == SubSeq(b, 1, n)
      <3>2. /\ r \in Seq(Window) /\ Len(r) = IF 1 <= n THEN n - 1 + 1 ELSE 0
            /\ \A i \in 1 .. n - 1 + 1 : r[i] = b[1 + i - 1]
        BY <1>3, <3>1, SubSeqProperties
      <3> HIDE DEF r
      <3>3. Len(r) = n /\ n - 1 + 1 = n
        BY <1>3, <3>2
      <3>4. ASSUME NEW i \in 1 .. n
            PROVE  pushed[i] = r[i]
        <4>1. 1 + i - 1 = i /\ i \in 1 .. q
          BY <1>2, <1>3, <1>4
        <4>2. r[i] = b[i]
          BY <3>2, <3>3, <4>1
        <4> QED  BY <1>2, <1>4, <4>1, <4>2
      <3>5. Len(pushed) = n
        BY DEF n
      <3> QED  BY <1>3, <3>2, <3>3, <3>4, <3>5, SameSequence DEF r
    <2>2. status = "completed" /\ samples > 0 => n = Len(b)
      <3> SUFFICES ASSUME status = "completed", samples > 0
                   PROVE  n = Len(b)
        OBVIOUS
      <3>1. samples # 0
        BY FeedingFacts
      <3>2. finalized
        BY <3>1 DEF UtteranceInv, AccountInv
      <3>3. enc_pushed_frames = next_frame /\ next_frame = q
        BY <3>2 DEF UtteranceInv, AccountInv
      <3> QED  BY <1>2, <1>3, <3>3
    <2> QED  BY <1>2, <1>4, <2>1, <2>2 DEF StreamedIsBatch
  <1>6. MatrixIsBatch
    BY DEF UtteranceInv, MatrixInv, MatrixIsBatch
  <1> QED  BY <1>5, <1>6 DEF SameAsBatch

\* Whatever the caller's feeds and wherever the drain stands, the encoder takes the
\* batch path's frames, once each and in order, all of them by the end, and the
\* matrix kept for introspection is the batch path's (emit_stable_frames, compact,
\* finish), for every window, hop, pad and slice: provided the padded signal has
\* less than 2^31 samples, the range of fill_window's positions.
THEOREM StreamedAsBatch ==
    ASSUME ShortSignal
    PROVE  Spec => []SameAsBatch
  <1>1. UtteranceInv => SameAsBatch
    BY UtteranceIsBatch
  <1> QED  BY <1>1, UtteranceInductive, PTL

=============================================================================
