--------------------------- MODULE EncoderKv_proofs ---------------------------
(***************************************************************************)
(* Proofs about the K/V encoder, for every window, block and ring size,    *)
(* and every environment, that EncoderAssumption allows.                   *)
(***************************************************************************)
EXTENDS EncoderKv, TLAPS, NaturalsInduction, WellFoundedInduction

-----------------------------------------------------------------------------
(* Facts about the operators. *)

\* The remainder of a division lies below the divisor.
LEMMA ModProperty ==
    ASSUME NEW a \in Int, NEW n \in Nat \ {0}
    PROVE  a % n \in 0..(n - 1)
  OBVIOUS

\* A number is a multiple of the divisor and its remainder.
LEMMA DivMod ==
    ASSUME NEW a \in Int, NEW n \in Nat \ {0}
    PROVE  \E k \in Int, s \in 0..(n - 1) : s = a % n /\ a = n * k + s
  <1>1. a = (a \div n) * n + (a % n)
    BY SMTT(60)
  <1>2. a \div n \in Int /\ a % n \in 0..(n - 1)
    OBVIOUS
  <1>3. PICK k \in Int, s \in 0..(n - 1) : s = a % n /\ a = k * n + s
    BY <1>1, <1>2, Zenon
  <1>4. k * n = n * k
    OBVIOUS
  <1> QED BY <1>3, <1>4, Zenon

\* Multiples of a positive number are at least that number apart.
LEMMA Times ==
    ASSUME NEW n \in Nat \ {0}, NEW k \in Int, NEW m \in Int, k < m
    PROVE  n * k + n <= n * m
  <1>1. PICK d \in Nat : m = k + 1 + d
    <2>1. m - k - 1 \in Nat /\ m = k + 1 + (m - k - 1)
      OBVIOUS
    <2> QED BY <2>1
  <1>2. n * m = n * k + n + n * d
    BY <1>1
  <1>3. n * d \in Nat
    OBVIOUS
  <1>4. n * k \in Int /\ n*m \in Int
    OBVIOUS
  <1> QED BY <1>2, <1>3, <1>4

\* There is only one way to write it so.
LEMMA ModUnique ==
    ASSUME NEW n \in Nat \ {0}, NEW a \in Int, NEW k \in Int, NEW r \in 0..(n-1), a = n * k + r
    PROVE  a % n = r
  <1>0. PICK m \in Int, s \in 0..(n - 1) : s = a % n /\ a = n * m + s
    BY DivMod
  <1> DEFINE x == n * m
             y == n * k
  <1>1. m \in Int /\ s \in 0..(n-1) /\ a = x + s /\ x \in Int /\ y \in Int /\ a = y + r
    BY <1>0
  <1>2. m < k => x + n <= y
    BY <1>1, Times
  <1>3. k < m => y + n <= x
    BY <1>1, Times
  <1>4. k = m => x = y
    OBVIOUS
  <1> HIDE DEF x, y
  <1>5. m = k
    BY <1>1, <1>2, <1>3
  <1> QED BY <1>0, <1>1, <1>4, <1>5

\* The slot of a position less than one lap after another follows from that one's.
LEMMA ModNear ==
    ASSUME NEW n \in Nat \ {0}, NEW a \in Int, NEW b \in Int, a <= b, b < a + n
    PROVE  b % n = IF (a % n) + (b - a) < n THEN (a % n) + (b - a) ELSE (a % n) + (b - a) - n
  <1>0. PICK k \in Int, s \in 0..(n - 1) : s = a % n /\ a = n * k + s
    BY DivMod
  <1> DEFINE x == n * k
  <1>1. k \in Int /\ x \in Int /\ a = x + s /\ s \in 0 .. n - 1
    BY <1>0
  <1> SUFFICES b % n = IF s + (b - a) < n THEN s + (b - a) ELSE s + (b - a) - n
    BY <1>0, Zenon
  <1>2. k + 1 \in Int /\ n * (k + 1) = x + n
    BY <1>1
  <1>3. CASE s + (b - a) < n
    <2> DEFINE r == s + (b - a)
    <2>1. r \in 0 .. n - 1 /\ b = x + r
      <3> HIDE DEF x
      <3> QED BY <1>1, <1>3
    <2> HIDE DEF r
    <2>2. b % n = r
      BY <1>1, <2>1, ModUnique
    <2> QED BY <1>3, <2>2 DEF r
  <1>4. CASE ~(s + (b - a) < n)
    <2> DEFINE r == s + (b - a) - n
               m == k + 1
               y == n * m
    <2>0. m \in Int /\ y = x + n
      BY <1>2
    <2>1. r \in 0 .. n - 1 /\ b = y + r
      <3> HIDE DEF x, y
      <3> QED BY <1>1, <1>4, <2>0
    <2> HIDE DEF r, m
    <2>2. b % n = r
      BY <2>0, <2>1, ModUnique
    <2> QED BY <1>4, <2>2 DEF r
  <1> QED BY <1>3, <1>4

\* Two positions less than one lap apart have slots of their own.
LEMMA ModApart ==
    ASSUME NEW n \in Nat \ {0}, NEW a \in Int, NEW b \in Int, a < b, b < a + n
    PROVE  a % n # b % n
  <1>1. b % n = IF (a % n) + (b - a) < n THEN (a % n) + (b - a) ELSE (a % n) + (b - a) - n
    <2>1. a <= b
      OBVIOUS
    <2> QED BY <2>1, ModNear, Zenon
  <1>2. a % n \in 0 .. n - 1
    BY ModProperty
  <1> DEFINE s == a % n
             t == b % n
  <1>3. t = (IF s + (b - a) < n THEN s + (b - a) ELSE s + (b - a) - n) /\ s \in 0 .. n - 1
    BY <1>1, <1>2
  <1> HIDE DEF s, t
  <1>4. s # t
    BY <1>3
  <1> QED BY <1>4 DEF s, t

\* So positions of one lap with one slot are one position.
LEMMA SlotInjective ==
    ASSUME NEW n \in Nat \ {0}, NEW a \in Int, NEW b \in Int,
           a < b + n, b < a + n, a % n = b % n
    PROVE  a = b
  <1>1. ~(a < b)
    BY ModApart, Zenon
  <1>2. ~(b < a)
    <2>1. b % n = a % n
      OBVIOUS
    <2> QED  BY <2>1, ModApart, Zenon
  <1> QED  BY <1>1, <1>2

\* The realizable frames are frames whose two Mel frames have arrived.
LEMMA RealizableProperty ==
    ASSUME NEW mel \in Nat
    PROVE  Realizable(mel) \in Nat /\ 2 * Realizable(mel) <= mel
  BY DEF Realizable

\* So one more Mel frame never makes fewer of them.
LEMMA RealizableGrows ==
    ASSUME NEW m \in Nat, NEW n \in Nat
    PROVE  Realizable(m) <= Realizable(m + n)
  BY DEF Realizable

-----------------------------------------------------------------------------
(* The inductive invariant: the tail starts where the convolution of the next *)
(* frame starts and ends with the audio, and no frame runs ahead of its Mel.   *)

TailFollowsHead ==
    /\ emitted <= Realizable(stable_mel)
    /\ ~finalized => /\ tail_base = ConvStart(emitted)
                     /\ tail_base + tail_frames = stable_mel

EncInv == EncTypeOK /\ TailFollowsHead

\* A launch starts at the head, stays within the realizable frames and within one
\* physical block (encoder_kv_drive).
LEMMA NextLaunchProperty ==
    ASSUME EncInv, NEW final \in BOOLEAN, NextLaunch(final) # NoLaunch
    PROVE  /\ NextLaunch(final).q = emitted
           /\ NextLaunch(final).n \in 1..MaxNew
           /\ NextLaunch(final).p \in 1..MaxNew
           /\ emitted + NextLaunch(final).n <= Realizable(stable_mel)
           /\ (emitted % NextLaunch(final).p) + NextLaunch(final).n <= NextLaunch(final).p
  <1> DEFINE rem      == Realizable(stable_mel) - emitted
             terminal == final /\ incremental
             physical == IF terminal THEN finish_physical ELSE schedule.physical
             logical  == IF terminal THEN finish_physical ELSE schedule.logical
             room     == physical - (emitted % physical)
  <1>0. /\ finish_physical \in 1..MaxNew /\ schedule.physical \in 1..MaxNew
        /\ schedule.logical \in 1..MaxNew /\ MaxNew \in Nat \ {0}
    BY EncoderAssumption DEF EncInv, EncTypeOK
  <1>1. /\ rem \in Int /\ emitted \in Nat /\ Realizable(stable_mel) \in Nat
        /\ physical \in 1..MaxNew /\ logical \in 1..MaxNew /\ MaxNew \in Nat \ {0}
    <2>1. emitted \in Nat /\ stable_mel \in Nat
      BY EncoderAssumption DEF EncInv, EncTypeOK
    <2> QED  BY <1>0, <2>1, RealizableProperty
  <1>2. rem > 0
    BY <1>1 DEF NextLaunch
  <1>3. CASE Startup(final)
    <2>1. /\ rem >= MaxNew /\ emitted = 0
          /\ NextLaunch(final) = [q |-> 0, n |-> MaxNew, p |-> MaxNew, final |-> final]
      BY <1>1, <1>2, <1>3 DEF NextLaunch, Startup
    <2>2. 0 % MaxNew = 0
      BY <1>1
    <2> QED  BY <1>1, <2>1, <2>2
  <1>4. CASE ~Startup(final)
    <2>1. NextLaunch(final) = [q |-> emitted, n |-> MinOf(MinOf(logical, room), rem),
                               p |-> physical, final |-> final]
      BY <1>1, <1>2, <1>4 DEF NextLaunch
    <2> DEFINE n == MinOf(MinOf(logical, room), rem)
    <2>2. emitted % physical \in 0..(physical - 1)
      <3> HIDE DEF physical
      <3>1. physical \in Nat \ {0} /\ emitted \in Int
        BY <1>1
      <3> QED  BY <3>1, ModProperty
    <2>3. n \in 1..MaxNew /\ n <= room /\ n <= rem
      <3> HIDE DEF physical, logical, rem
      <3> QED  BY <1>1, <1>2, <2>2 DEF MinOf
    <2>4. emitted + n <= Realizable(stable_mel) /\ (emitted % physical) + n <= physical
      <3> HIDE DEF physical, logical, n
      <3> QED  BY <1>1, <2>2, <2>3
    <2> HIDE DEF physical, logical, n, rem, room
    <2> QED  BY <1>1, <2>1, <2>3, <2>4 DEF n
  <1> QED  BY <1>3, <1>4

\* What the drive loop launches passes every check on the way to the backend.
LEMMA RunnableProperty ==
    ASSUME EncInv
    PROVE  NeverRefused
  <1> SUFFICES ASSUME NEW final \in BOOLEAN, ~finalized, NextLaunch(final) # NoLaunch
               PROVE  Runnable(NextLaunch(final))
    BY DEF NeverRefused
  <1> DEFINE l == NextLaunch(final)
  <1>1. /\ l.q = emitted /\ l.n \in 1..MaxNew /\ l.p \in 1..MaxNew
        /\ emitted + l.n <= Realizable(stable_mel)
        /\ (emitted % l.p) + l.n <= l.p
    BY NextLaunchProperty
  <1>2. /\ emitted \in Nat /\ stable_mel \in Nat /\ MaxNew \in Nat /\ Window \in Nat
        /\ tail_base = ConvStart(emitted) /\ tail_base + tail_frames = stable_mel
    BY EncoderAssumption DEF EncInv, EncTypeOK, TailFollowsHead
  <1>3. 2 * (emitted + l.n) <= stable_mel
    BY <1>1, <1>2, RealizableProperty
  <1> HIDE DEF l
  <1> QED  BY <1>1, <1>2, <1>3 DEF l, Runnable, ValidPlan, ConvEnd, ConvStart, MaxOf, Cap

-----------------------------------------------------------------------------
(* The rings. *)

\* The two runs of slots of a span name the slot of each of its positions
\* (enc_kv_ring_segments).
LEMMA SegmentProperty ==
    ASSUME NEW start \in Nat, NEW len \in 0..Cap, NEW i \in 0..(len - 1)
    PROVE  SegmentSlot(RingSegments(start, len), i) = (start + i) % Cap
  <1>0. Cap \in Nat \ {0}
    BY EncoderAssumption DEF Cap
  <1> DEFINE slot == start % Cap
             p    == start + i
             t    == p % Cap
  <1>1. slot \in 0..(Cap - 1) /\ p \in Int /\ start \in Int
    BY <1>0, ModProperty
  <1>2. start <= p /\ p < start + Cap /\ p - start = i
    BY <1>0
  <1>3. t = IF slot + (p - start) < Cap THEN slot + (p - start)
            ELSE slot + (p - start) - Cap
    BY <1>0, <1>1, <1>2, ModNear, Zenon
  <1>4. RingSegments(start, len) =
            IF MinOf(len, Cap - slot) >= len
            THEN << [slot |-> slot, len |-> len] >>
            ELSE << [slot |-> slot, len |-> MinOf(len, Cap - slot)],
                    [slot |-> 0, len |-> len - MinOf(len, Cap - slot)] >>
    BY DEF RingSegments
  <1> HIDE DEF slot, t
  <1>5. CASE len <= Cap - slot
    <2>1. RingSegments(start, len) = << [slot |-> slot, len |-> len] >>
      BY <1>0, <1>1, <1>4, <1>5 DEF MinOf
    <2>2. SegmentSlot(RingSegments(start, len), i) = slot + i
      BY <2>1 DEF SegmentSlot
    <2>3. t = slot + i
      BY <1>0, <1>1, <1>2, <1>3, <1>5
    <2> QED  BY <2>2, <2>3 DEF t
  <1>6. CASE ~(len <= Cap - slot)
    <2>1. RingSegments(start, len) =
              << [slot |-> slot, len |-> Cap - slot],
                 [slot |-> 0, len |-> len - (Cap - slot)] >>
      BY <1>0, <1>1, <1>4, <1>6 DEF MinOf
    <2>2. SegmentSlot(RingSegments(start, len), i) =
              IF i < Cap - slot THEN slot + i ELSE 0 + (i - (Cap - slot))
      BY <2>1 DEF SegmentSlot
    <2>3. t = IF i < Cap - slot THEN slot + i ELSE 0 + (i - (Cap - slot))
      BY <1>0, <1>1, <1>2, <1>3
    <2> QED  BY <2>2, <2>3 DEF t
  <1> QED  BY <1>5, <1>6

\* A launch puts each of its rows into the row's own slot and leaves the other
\* slots alone (build_encoder_kv_graph).
LEMMA WriteProperty ==
    ASSUME NEW q \in Nat, NEW n \in 1..MaxNew
    PROVE  /\ \A p \in q..(q + n - 1) : WriteRows(q, n)[p % Cap] = Row(p)
           /\ \A s \in 0..(Cap - 1) :
                  (\A p \in q..(q + n - 1) : p % Cap # s) => WriteRows(q, n)[s] = ring[s]
  <1>0. Cap \in Nat \ {0} /\ n <= Cap /\ n \in 0..Cap
    BY EncoderAssumption DEF Cap
  <1> DEFINE New(s) == { i \in 0..(n - 1) : SegmentSlot(RingSegments(q, n), i) = s }
  <1>1. \A i \in 0..(n - 1) : SegmentSlot(RingSegments(q, n), i) = (q + i) % Cap
    BY <1>0, SegmentProperty
  <1>2. \A s : New(s) = { i \in 0..(n - 1) : (q + i) % Cap = s }
    BY <1>1
  <1>3. WriteRows(q, n) =
            [s \in 0..(Cap - 1) |->
                IF New(s) = {} THEN ring[s] ELSE Row(q + (CHOOSE i \in New(s) : TRUE))]
    BY DEF WriteRows
  <1> HIDE DEF New
  <1>4. ASSUME NEW p \in q..(q + n - 1)
        PROVE  WriteRows(q, n)[p % Cap] = Row(p)
    <2>1. p % Cap \in 0..(Cap - 1)
      BY <1>0, ModProperty
    <2>2. p - q \in 0..(n - 1) /\ q + (p - q) = p
      OBVIOUS
    <2>3. p - q \in New(p % Cap)
      BY <1>2, <2>2
    <2>4. ASSUME NEW i \in New(p % Cap)
          PROVE  q + i = p
      <3>1. i \in 0..(n - 1) /\ (q + i) % Cap = p % Cap /\ q + i \in Int
        BY <1>2
      <3>2. p \in Int /\ q + i < p + Cap /\ p < q + i + Cap
        BY <1>0, <3>1
      <3> QED  BY <1>0, <3>1, <3>2, SlotInjective, Zenon
    <2>5. (CHOOSE i \in New(p % Cap) : TRUE) \in New(p % Cap)
      BY <2>3
    <2>6. q + (CHOOSE i \in New(p % Cap) : TRUE) = p
      BY <2>4, <2>5
    <2>7. WriteRows(q, n)[p % Cap] = Row(q + (CHOOSE i \in New(p % Cap) : TRUE))
      BY <1>3, <2>1, <2>3
    <2> QED  BY <2>6, <2>7
  <1>5. ASSUME NEW s \in 0..(Cap - 1), \A p \in q..(q + n - 1) : p % Cap # s
        PROVE  WriteRows(q, n)[s] = ring[s]
    <2>1. New(s) = {}
      <3>1. \A i \in 0..(n - 1) : q + i \in q..(q + n - 1)
        OBVIOUS
      <3> QED  BY <1>2, <1>5, <3>1
    <2> QED  BY <1>3, <2>1
  <1> QED  BY <1>4, <1>5

\* So after a launch the ring still holds the rows the launch attends to, which
\* have slots outside its own.
LEMMA WindowAfterWrite ==
    ASSUME EncInv, RingHoldsWindow, NEW n \in 1..MaxNew
    PROVE  \A p \in WindowStart(emitted)..(emitted + n - 1) :
               WriteRows(emitted, n)[p % Cap] = Row(p)
  <1>0. /\ emitted \in Nat /\ Cap \in Nat \ {0} /\ Window \in Nat \ {0}
        /\ Cap = Window + MaxNew /\ MaxNew \in Nat
        /\ WindowStart(emitted) = IF 0 >= emitted - (Window - 1) THEN 0
                                  ELSE emitted - (Window - 1)
    BY EncoderAssumption DEF Cap, EncInv, EncTypeOK, WindowStart, MaxOf
  <1> SUFFICES ASSUME NEW p \in WindowStart(emitted)..(emitted + n - 1)
               PROVE  WriteRows(emitted, n)[p % Cap] = Row(p)
    OBVIOUS
  <1>1. p \in Nat
    BY <1>0
  <1>2. CASE p >= emitted
    <2>1. p \in emitted..(emitted + n - 1)
      BY <1>0, <1>1, <1>2
    <2> QED  BY <1>0, <2>1, WriteProperty
  <1>3. CASE p < emitted
    <2>1. p \in CausalWindow(emitted) \ {emitted}
      BY <1>0, <1>1, <1>3 DEF CausalWindow
    <2>2. ring[p % Cap] = Row(p)
      BY <2>1 DEF RingHoldsWindow
    <2>3. p % Cap \in 0..(Cap - 1)
      BY <1>0, <1>1, ModProperty
    <2>4. ASSUME NEW r \in emitted..(emitted + n - 1)
          PROVE  r % Cap # p % Cap
      <3>1. r \in Int /\ p < r /\ r < p + Cap
        BY <1>0, <1>1, <1>3
      <3>2. p \in Int
        BY <1>1
      <3>3. p % Cap # r % Cap
        BY <1>0, <3>1, <3>2, ModApart, Zenon
      <3> QED  BY <3>3
    <2> QED  BY <1>0, <2>2, <2>3, <2>4, WriteProperty
  <1> QED  BY <1>0, <1>1, <1>2, <1>3

\* The same for the output ring: each row of a launch in its own slot, the other
\* slots as they were (copy_chunk_to_enc_out_ring).
LEMMA CopyOutProperty ==
    ASSUME NEW q \in Nat, NEW n \in 1..MaxNew
    PROVE  /\ \A p \in q..(q + n - 1) : CopyOut(q, n)[p % OutCap] = Row(p)
           /\ \A s \in 0..(OutCap - 1) :
                  (\A p \in q..(q + n - 1) : p % OutCap # s) =>
                      CopyOut(q, n)[s] = enc_out_ring[s]
  <1>0. OutCap \in Nat \ {0} /\ n <= OutCap
    BY EncoderAssumption
  <1> DEFINE New(s)    == { i \in 0..(n - 1) : (q + i) % OutCap = s }
             Latest(s) == CHOOSE i \in New(s) : \A j \in New(s) : j <= i
  <1>1. CopyOut(q, n) =
            [s \in 0..(OutCap - 1) |->
                IF New(s) = {} THEN enc_out_ring[s] ELSE Row(q + Latest(s))]
    BY Zenon DEF CopyOut
  <1>2. ASSUME NEW p \in q..(q + n - 1)
        PROVE  CopyOut(q, n)[p % OutCap] = Row(p)
    <2>1. p % OutCap \in 0..(OutCap - 1) /\ p \in Int
      BY <1>0, ModProperty
    <2>2. p - q \in New(p % OutCap)
      OBVIOUS
    <2>3. ASSUME NEW i \in New(p % OutCap)
          PROVE  i = p - q
      <3>1. i \in 0..(n - 1) /\ (q + i) % OutCap = p % OutCap /\ q + i \in Int
        OBVIOUS
      <3>2. q + i < p + OutCap /\ p < q + i + OutCap
        BY <1>0, <3>1
      <3>3. q + i = p
        BY <1>0, <2>1, <3>1, <3>2, SlotInjective, Zenon
      <3> QED  BY <3>1, <3>3
    <2> HIDE DEF New
    <2>4. \A j \in New(p % OutCap) : j <= p - q
      BY <2>1, <2>3
    <2>5. Latest(p % OutCap) \in New(p % OutCap)
      BY <2>2, <2>4
    <2>6. Latest(p % OutCap) = p - q
      BY <2>3, <2>5
    <2>7. CopyOut(q, n)[p % OutCap] = Row(q + Latest(p % OutCap))
      BY <1>1, <2>1, <2>2
    <2>8. q + (p - q) = p
      OBVIOUS
    <2> QED  BY <2>6, <2>7, <2>8
  <1>3. ASSUME NEW s \in 0..(OutCap - 1), \A p \in q..(q + n - 1) : p % OutCap # s
        PROVE  CopyOut(q, n)[s] = enc_out_ring[s]
    <2>1. \A i \in 0..(n - 1) : q + i \in q..(q + n - 1)
      OBVIOUS
    <2>2. New(s) = {}
      BY <1>3, <2>1
    <2> HIDE DEF New
    <2> QED  BY <1>1, <2>2
  <1> QED  BY <1>2, <1>3

\* A reader that is not more than the ring less one launch behind still finds its
\* rows after a launch has copied its own.
LEMMA OutputAfterCopy ==
    ASSUME NEW q \in Nat, NEW n \in 1..MaxNew,
           \A p \in MaxOf(0, q - (OutCap - MaxNew))..(q - 1) :
               enc_out_ring[p % OutCap] = Row(p)
    PROVE  \A p \in MaxOf(0, q - (OutCap - MaxNew))..(q + n - 1) :
               CopyOut(q, n)[p % OutCap] = Row(p)
  <1>0. /\ OutCap \in Nat \ {0} /\ MaxNew \in Nat \ {0} /\ MaxNew <= OutCap
        /\ MaxOf(0, q - (OutCap - MaxNew)) = IF 0 >= q - (OutCap - MaxNew) THEN 0
                                             ELSE q - (OutCap - MaxNew)
    BY EncoderAssumption DEF MaxOf
  <1> SUFFICES ASSUME NEW p \in MaxOf(0, q - (OutCap - MaxNew))..(q + n - 1)
               PROVE  CopyOut(q, n)[p % OutCap] = Row(p)
    OBVIOUS
  <1>1. p \in Int
    BY <1>0
  <1>2. CASE p >= q
    <2>1. p \in q..(q + n - 1)
      BY <1>1, <1>2
    <2> QED  BY <2>1, CopyOutProperty
  <1>3. CASE p < q
    <2>1. p \in MaxOf(0, q - (OutCap - MaxNew))..(q - 1)
      BY <1>0, <1>1, <1>3
    <2>2. p % OutCap \in 0..(OutCap - 1)
      BY <1>0, <1>1, ModProperty
    <2>3. ASSUME NEW r \in q..(q + n - 1)
          PROVE  r % OutCap # p % OutCap
      <3>1. r \in Int /\ p < r /\ r < p + OutCap
        BY <1>0, <1>1, <1>3
      <3>2. p % OutCap # r % OutCap
        BY <1>0, <1>1, <3>1, ModApart, Zenon
      <3> QED  BY <3>2
    <2> QED  BY <2>1, <2>2, <2>3, CopyOutProperty
  <1> QED  BY <1>1, <1>2, <1>3

-----------------------------------------------------------------------------
(* What a graph reads. *)

\* The window of a frame is the span that starts at its WindowStart
\* (voxtral_enc_kv_mask_allows), and a later frame's starts no earlier.
LEMMA WindowProperty ==
    ASSUME NEW q \in Nat, NEW r \in Nat, q <= r
    PROVE  /\ CausalWindow(r) = WindowStart(r)..r
           /\ WindowStart(q) \in 0..q /\ WindowStart(q) <= WindowStart(r)
           /\ q - WindowStart(q) < Window
  BY EncoderAssumption DEF CausalWindow, WindowStart, MaxOf

\* A frame reads its own Mel frames from a convolution that starts two frames
\* before the launch, or at the beginning of the stream
\* (build_encoder_kv_graph, build_encoder_steady_graph).
OwnMel(r) == { IF i < 0 THEN ZeroMel ELSE i : i \in (2*r - 3)..(2*r + 1) }

LEMMA ConvReadsOwnMel ==
    ASSUME NEW q \in Nat, NEW r \in Nat, q <= r
    PROVE  /\ ConvReads(ConvStart(q), (q - ConvStart(q) \div 2) + (r - q)) = OwnMel(r)
           /\ ConvReads(2 * (q - 2), 2 + (r - q)) = OwnMel(r)
  <1>1. ASSUME NEW start \in Int, NEW j \in Int, start + 2 * j = 2 * r,
               start > 0 => j >= 2, start < 0 => j >= 2
        PROVE  ConvReads(start, j) = OwnMel(r)
    <2>1. ASSUME NEW i \in (2*j - 3)..(2*j + 1)
          PROVE  /\ start + i \in (2*r - 3)..(2*r + 1)
                 /\ (IF i < 0 \/ start + i < 0 THEN ZeroMel ELSE start + i)
                       = (IF start + i < 0 THEN ZeroMel ELSE start + i)
      BY <1>1
    <2>2. ASSUME NEW k \in (2*r - 3)..(2*r + 1)
          PROVE  k - start \in (2*j - 3)..(2*j + 1) /\ start + (k - start) = k
      BY <1>1
    <2>3. ConvReads(start, j) \subseteq OwnMel(r)
      BY <2>1 DEF ConvReads, OwnMel
    <2>4. ASSUME NEW m \in OwnMel(r)
          PROVE  m \in ConvReads(start, j)
      <3>1. PICK k \in (2*r - 3)..(2*r + 1) : m = IF k < 0 THEN ZeroMel ELSE k
        BY DEF OwnMel
      <3>2. m = IF k - start < 0 \/ start + (k - start) < 0 THEN ZeroMel ELSE start + (k - start)
        BY <2>1, <2>2, <3>1
      <3> QED  BY <2>2, <3>2 DEF ConvReads
    <2> QED  BY <2>3, <2>4
  <1>2. CASE q >= 2
    <2>1. ConvStart(q) = 2 * (q - 2) /\ (2 * (q - 2)) \div 2 = q - 2
      BY <1>2 DEF ConvStart, MaxOf
    <2>2. (q - (2 * (q - 2)) \div 2) + (r - q) = 2 + (r - q)
      BY <2>1
    <2>3. ConvReads(2 * (q - 2), 2 + (r - q)) = OwnMel(r)
      BY <1>1, <1>2
    <2> QED  BY <2>1, <2>2, <2>3
  <1>3. CASE q < 2
    <2>1. ConvStart(q) = 0 /\ 0 \div 2 = 0
      BY <1>3 DEF ConvStart, MaxOf
    <2>2. (q - 0) + (r - q) = r
      OBVIOUS
    <2>3. ConvReads(0, r) = OwnMel(r)
      BY <1>1
    <2>4. ConvReads(2 * (q - 2), 2 + (r - q)) = OwnMel(r)
      BY <1>1, <1>3
    <2> QED  BY <2>1, <2>2, <2>3, <2>4
  <1> QED  BY <1>2, <1>3

\* What a row reads when it reads its own.
OwnReads(r) == [keys |-> { Row(k) : k \in CausalWindow(r) }, mel |-> OwnMel(r)]

\* The growing graph: old rows out of the ring in one or two segments, then the
\* new rows, and the mask opens each query's window (build_encoder_kv_graph).
LEMMA BatchReadsOwn ==
    ASSUME EncInv, RingHoldsWindow, NEW n \in 1..MaxNew, NEW P \in 1..MaxNew,
           (emitted % P) + n <= P
    PROVE  BatchReads(emitted, n, P) = [r \in emitted..(emitted + n - 1) |-> OwnReads(r)]
  <1> DEFINE q           == emitted
             block_start == q - (q % P)
             key_start   == WindowStart(block_start)
             valid_old   == MaxOf(key_start, WindowStart(q))
             prefix_len  == valid_old - key_start
             old_len     == q - valid_old
             old_segs    == RingSegments(valid_old, old_len)
             rows        == WriteRows(q, n)
             Column(c)   == CASE c < prefix_len -> Padding
                              [] c >= prefix_len /\ c < prefix_len + old_len ->
                                     rows[SegmentSlot(old_segs, c - prefix_len)]
                              [] c >= prefix_len + old_len
                                 /\ c < prefix_len + old_len + n ->
                                     Row(q + (c - prefix_len - old_len))
                              [] OTHER -> Padding
             Open(r)     == { c \in 0..(block_start + P - key_start - 1) :
                                 key_start + c \in WindowStart(r)..r }
             start       == ConvStart(q)
  <1>1. BatchReads(emitted, n, P) =
            [r \in q..(q + n - 1) |->
                [keys |-> { Column(c) : c \in Open(r) },
                 mel  |-> ConvReads(start, (q - start \div 2) + (r - q))]]
    BY Zenon DEF BatchReads
  <1>2. /\ q \in Nat /\ Window \in Nat \ {0} /\ MaxNew \in Nat \ {0} /\ Cap = Window + MaxNew
        /\ Cap \in Nat \ {0} /\ P \in Nat \ {0}
    BY EncoderAssumption DEF EncInv, EncTypeOK, Cap
  <1>3. q % P \in 0..(P - 1) /\ (q % P) + n <= P
    BY <1>2, ModProperty
  <1>4. block_start \in Int /\ block_start <= q /\ q + n <= block_start + P
    <2> DEFINE m == q % P
    <2>1. m \in 0..(P - 1) /\ m + n <= P
      BY <1>3
    <2> HIDE DEF m, q
    <2>2. q - m \in Int /\ q - m <= q /\ q + n <= (q - m) + P
      BY <1>2, <2>1
    <2> QED  BY <2>2 DEF m
  <1>5. block_start \in Nat
    <2>1. PICK k \in Int, s \in 0..(P - 1) : s = q % P /\ q = P * k + s
      BY <1>2, DivMod
    <2>2. P * k \in Int /\ block_start = P * k
      BY <2>1, <1>2
    <2>3. ~(k < 0)
      <3> SUFFICES ASSUME k < 0  PROVE FALSE
        OBVIOUS
      <3>1. P * k + P <= P * 0
        BY <1>2, Times
      <3>2. P * 0 = 0
        BY <1>2
      <3> DEFINE x == P * k
      <3>3. x \in Int /\ x + P <= 0 /\ q = x + s /\ s \in 0..(P - 1)
        BY <2>1, <2>2, <3>1, <3>2
      <3> HIDE DEF x, q
      <3> QED  BY <1>2, <3>3
    <2>4. k \in Nat
      BY <2>3
    <2>5. P * k \in Nat
      BY <1>2, <2>4
    <2> QED  BY <2>2, <2>5
  <1> HIDE DEF block_start
  <1>6. /\ key_start \in Nat /\ key_start <= WindowStart(q) /\ WindowStart(q) \in 0..q
        /\ q - WindowStart(q) < Window /\ valid_old = WindowStart(q)
    <2>1. /\ key_start <= WindowStart(q) /\ key_start \in Nat
      <3> HIDE DEF q
      <3>1. WindowStart(block_start) <= WindowStart(q)
            /\ WindowStart(block_start) \in 0..block_start
        BY <1>2, <1>4, <1>5, WindowProperty, Zenon
      <3> QED  BY <1>5, <3>1
    <2>2. WindowStart(q) \in 0..q /\ q - WindowStart(q) < Window
      BY <1>2, WindowProperty
    <2> HIDE DEF key_start, q
    <2> QED  BY <2>1, <2>2 DEF MaxOf
  <1> DEFINE ws == WindowStart(q)
  <1>7. /\ ws \in 0..q /\ key_start \in 0..ws /\ q - ws < Window
        /\ prefix_len = ws - key_start /\ old_len = q - ws
        /\ old_segs = RingSegments(ws, q - ws)
    BY <1>2, <1>6
  <1>8. \A p \in ws..(q + n - 1) : rows[p % Cap] = Row(p)
    BY WindowAfterWrite
  <1>9. ASSUME NEW i \in 0..(q - ws - 1)
        PROVE  SegmentSlot(RingSegments(ws, q - ws), i) = (ws + i) % Cap
    <2>1. ws \in Nat /\ q - ws \in 0..Cap
      BY <1>2, <1>7
    <2> QED  BY <2>1, SegmentProperty
  <1> HIDE DEF key_start, prefix_len, old_len, old_segs, rows, ws, q
  <1>10. ASSUME NEW c \in Nat, key_start + c >= ws, key_start + c < q + n
         PROVE  Column(c) = Row(key_start + c)
    <2>1. ~(c < prefix_len)
      BY <1>2, <1>7, <1>10
    <2>2. CASE key_start + c < q
      <3>1. c >= prefix_len /\ c < prefix_len + old_len /\ ~(c >= prefix_len + old_len)
        BY <1>2, <1>7, <1>10, <2>2
      <3>2. Column(c) = rows[SegmentSlot(old_segs, c - prefix_len)]
        BY <2>1, <3>1, Zenon
      <3>3. c - prefix_len \in 0..(q - ws - 1) /\ ws + (c - prefix_len) = key_start + c
        BY <1>2, <1>7, <1>10, <2>2
      <3>4. SegmentSlot(old_segs, c - prefix_len) = (key_start + c) % Cap
        BY <1>7, <1>9, <3>3
      <3>5. key_start + c \in ws..(q + n - 1)
        BY <1>2, <1>7, <1>10, <2>2
      <3> QED  BY <1>8, <3>2, <3>4, <3>5
    <2>3. CASE ~(key_start + c < q)
      <3>1. ~(c < prefix_len + old_len) /\ c >= prefix_len + old_len
            /\ c < prefix_len + old_len + n
        BY <1>2, <1>7, <1>10, <2>3
      <3>2. Column(c) = Row(q + (c - prefix_len - old_len))
        BY <2>1, <3>1
      <3>3. q + (c - prefix_len - old_len) = key_start + c
        BY <1>2, <1>7, <1>10
      <3> QED  BY <3>2, <3>3
    <2> QED  BY <2>2, <2>3
  <1> HIDE DEF Column
  <1>11. ASSUME NEW r \in q..(q + n - 1)
         PROVE  { Column(c) : c \in Open(r) } = { Row(k) : k \in CausalWindow(r) }
    <2>1. r \in Nat /\ q <= r /\ r < q + n
      BY <1>2
    <2>2. CausalWindow(r) = WindowStart(r)..r /\ WindowStart(r) \in 0..r /\ ws <= WindowStart(r)
      <3>1. r <= r
        BY <2>1
      <3> QED  BY <1>2, <2>1, <3>1, WindowProperty, Zenon DEF ws
    <2>3. ASSUME NEW c \in Open(r)
          PROVE  Column(c) = Row(key_start + c) /\ key_start + c \in CausalWindow(r)
      <3>1. c \in Nat /\ key_start + c \in WindowStart(r)..r
        BY <1>4, <1>7
      <3>2. key_start + c >= ws /\ key_start + c < q + n
        BY <1>2, <1>7, <2>1, <2>2, <3>1
      <3> QED  BY <1>10, <2>2, <3>1, <3>2
    <2>4. ASSUME NEW k \in CausalWindow(r)
          PROVE  k - key_start \in Open(r) /\ key_start + (k - key_start) = k
      <3>1. k \in WindowStart(r)..r /\ k \in Int
        BY <2>2
      <3>2. k - key_start \in 0..(block_start + P - key_start - 1)
        BY <1>2, <1>4, <1>7, <2>1, <2>2, <3>1
      <3>3. key_start + (k - key_start) = k
        BY <1>7, <3>1
      <3> QED  BY <3>1, <3>2, <3>3
    <2> HIDE DEF Open
    <2>5. { Column(c) : c \in Open(r) } \subseteq { Row(k) : k \in CausalWindow(r) }
      BY <2>3
    <2>6. \A k \in CausalWindow(r) : Row(k) = Column(k - key_start) /\ k - key_start \in Open(r)
      BY <2>3, <2>4
    <2> QED  BY <2>5, <2>6
  <1>12. ASSUME NEW r \in q..(q + n - 1)
         PROVE  ConvReads(start, (q - start \div 2) + (r - q)) = OwnMel(r)
    <2>1. r \in Nat /\ q <= r
      BY <1>2
    <2> QED  BY <1>2, <2>1, ConvReadsOwnMel
  <1> HIDE DEF Open, start
  <1>13. [r \in q..(q + n - 1) |->
                [keys |-> { Column(c) : c \in Open(r) },
                 mel  |-> ConvReads(start, (q - start \div 2) + (r - q))]]
            = [r \in q..(q + n - 1) |-> OwnReads(r)]
    BY <1>11, <1>12, Zenon DEF OwnReads
  <1> QED  BY <1>1, <1>13, Zenon DEF q

\* The steady graph: every key through its slot in the ring
\* (run_encoder_steady_batch).
LEMMA SteadyReadsOwn ==
    ASSUME EncInv, RingHoldsWindow
    PROVE  SteadyReads(emitted) =
               [r \in emitted..(emitted + Group - 1) |-> OwnReads(r)]
  <1> DEFINE q    == emitted
             rows == WriteRows(q, Group)
  <1>1. q \in Nat /\ Group \in 1..MaxNew /\ Group \in Nat
    BY EncoderAssumption DEF EncInv, EncTypeOK
  <1>2. \A p \in WindowStart(q)..(q + Group - 1) : rows[p % Cap] = Row(p)
    BY <1>1, WindowAfterWrite
  <1> HIDE DEF rows
  <1>3. ASSUME NEW r \in q..(q + Group - 1)
        PROVE  { rows[k % Cap] : k \in WindowStart(r)..r } = { Row(k) : k \in CausalWindow(r) }
    <2>1. r \in Nat /\ q <= r /\ r \in Int
      BY <1>1
    <2>2. CausalWindow(r) = WindowStart(r)..r /\ WindowStart(r) \in 0..r
          /\ WindowStart(q) <= WindowStart(r) /\ WindowStart(q) \in 0..q
      <3>1. q \in Nat /\ r \in Nat /\ q <= r
        BY <1>1, <2>1
      <3>2. CausalWindow(r) = WindowStart(r)..r /\ WindowStart(r) \in 0..r
        BY <3>1, WindowProperty
      <3> QED  BY <3>1, <3>2, WindowProperty
    <2>3. \A k \in WindowStart(r)..r : k \in WindowStart(q)..(q + Group - 1)
      BY <1>1, <2>1, <2>2
    <2>4. \A k \in WindowStart(r)..r : rows[k % Cap] = Row(k)
      BY <1>2, <2>3
    <2> QED  BY <2>2, <2>4
  <1>4. ASSUME NEW r \in q..(q + Group - 1)
        PROVE  ConvReads(2 * (q - 2), 2 + (r - q)) = OwnMel(r)
    <2>1. r \in Nat /\ q <= r
      BY <1>1
    <2> QED  BY <1>1, <2>1, ConvReadsOwnMel
  <1>5. SteadyReads(q) =
            [r \in q..(q + Group - 1) |->
                [keys |-> { rows[k % Cap] : k \in WindowStart(r)..r },
                 mel  |-> ConvReads(2 * (q - 2), 2 + (r - q))]]
    BY Zenon DEF SteadyReads, rows
  <1> HIDE DEF q
  <1>6. SteadyReads(q) = [r \in q..(q + Group - 1) |-> OwnReads(r)]
    BY <1>3, <1>4, <1>5, Zenon DEF OwnReads
  <1> QED  BY <1>6 DEF q

-----------------------------------------------------------------------------
(* The schedule. *)

\* A set of numbers that is not empty has a least one.
LEMMA LeastProperty ==
    ASSUME NEW T, T \subseteq Nat, T # {}
    PROVE  \E b \in T : \A c \in T : b <= c
  <1>1. PICK b \in T : \A c \in T : << c, b >> \notin OpToRel(<, Nat)
    BY WFMin, NatLessThanWellFounded, Zenon
  <1>2. ASSUME NEW c \in T  PROVE b <= c
    <2>1. b \in Nat /\ c \in Nat
      OBVIOUS
    <2>2. ~(c < b)
      BY <1>1, <2>1, Zenon DEF OpToRel
    <2> QED  BY <2>1, <2>2
  <1> QED  BY <1>2

\* A bounded one has a largest.
LEMMA LargestProperty ==
    ASSUME NEW n \in Nat, NEW T, T \subseteq 0..n, T # {}
    PROVE  \E d \in T : \A e \in T : e <= d
  <1> DEFINE U == { n - d : d \in T }
  <1>1. U \subseteq Nat /\ U # {}
    <2>1. \A d \in T : n - d \in Nat
      <3> SUFFICES ASSUME NEW d \in T  PROVE n - d \in Nat
        OBVIOUS
      <3>1. d \in 0..n
        OBVIOUS
      <3> QED  BY <3>1
    <2> QED  BY <2>1, Zenon
  <1>2. PICK u \in U : \A v \in U : u <= v
    <2> HIDE DEF U
    <2> QED  BY <1>1, LeastProperty, Zenon
  <1>3. PICK d \in T : u = n - d
    BY <1>2
  <1>4. ASSUME NEW e \in T  PROVE e <= d
    <2>1. n - e \in U
      OBVIOUS
    <2>2. n - d <= n - e
      BY <1>2, <1>3, <2>1, Zenon
    <2>3. d \in 0..n /\ e \in 0..n
      OBVIOUS
    <2> HIDE DEF U
    <2> QED  BY <2>2, <2>3
  <1> QED  BY <1>4

\* The physical block is a block, or the startup block (normalize_physical_rows).
LEMMA PhysicalProperty ==
    ASSUME NEW rows \in Int
    PROVE  PhysicalRows(rows) \in 1..MaxNew /\ MaxNew % PhysicalRows(rows) = 0
  <1>0. MaxNew \in Nat \ {0} /\ BlockSizes \subseteq 1..MaxNew
        /\ \A b \in BlockSizes : MaxNew % b = 0
    BY EncoderAssumption
  <1>1. CASE \A b \in BlockSizes : b < rows
    <2>1. PhysicalRows(rows) = MaxNew
      BY <1>1 DEF PhysicalRows
    <2> QED  BY <1>0, <2>1
  <1>2. CASE ~(\A b \in BlockSizes : b < rows)
    <2> DEFINE T == { b \in BlockSizes : b >= rows }
    <2>1. T \subseteq Nat /\ T # {}
      <3>1. PICK b \in BlockSizes : ~(b < rows)
        BY <1>2
      <3>2. b \in Int /\ b >= rows
        BY <1>0, <3>1
      <3>3. BlockSizes \subseteq Nat
        BY <1>0
      <3> QED  BY <3>1, <3>2, <3>3, Zenon
    <2>2. \E b \in T : \A c \in T : b <= c
      <3> HIDE DEF T
      <3> QED  BY <2>1, LeastProperty, Zenon
    <2>3. \E b \in BlockSizes : b >= rows /\ \A c \in BlockSizes : c >= rows => b <= c
      BY <2>2
    <2>4. PhysicalRows(rows) \in BlockSizes
      <3>1. PhysicalRows(rows) =
                CHOOSE b \in BlockSizes : b >= rows /\ \A c \in BlockSizes : c >= rows => b <= c
        BY <1>2, Zenon DEF PhysicalRows
      <3> QED  BY <2>3, <3>1, Zenon
    <2> QED  BY <1>0, <2>4
  <1> QED  BY <1>1, <1>2

\* The logical batch divides the block.
LEMMA LogicalProperty ==
    ASSUME NEW logical \in 1..MaxNew, NEW physical \in 1..MaxNew
    PROVE  LogicalRows(logical, physical) \in 1..MaxNew
           /\ physical % LogicalRows(logical, physical) = 0
  <1>0. MaxNew \in Nat
    BY EncoderAssumption
  <1> DEFINE n == MinOf(logical, physical)
             T == { d \in 1..n : physical % d = 0 }
  <1>1. n \in Nat \ {0} /\ n <= MaxNew
    BY <1>0 DEF MinOf
  <1> HIDE DEF n
  <1>2. T \subseteq 0..n /\ 1 \in T
    BY <1>0, <1>1
  <1>3. \E d \in T : \A e \in T : e <= d
    <2>1. n \in Nat /\ T # {}
      BY <1>1, <1>2
    <2> HIDE DEF T
    <2> QED  BY <1>2, <2>1, LargestProperty, Zenon
  <1>4. \E d \in 1..n : /\ physical % d = 0
                        /\ \A e \in 1..n : physical % e = 0 => e <= d
    BY <1>3, Zenon
  <1>5. LogicalRows(logical, physical) =
            CHOOSE d \in 1..n : /\ physical % d = 0
                                /\ \A e \in 1..n : physical % e = 0 => e <= d
    BY Zenon DEF LogicalRows, n
  <1>6. LogicalRows(logical, physical) \in 1..n /\ physical % LogicalRows(logical, physical) = 0
    BY <1>4, <1>5, Zenon
  <1> QED  BY <1>0, <1>1, <1>6

\* Whatever the environment says, the logical batch divides its physical block, and
\* that the startup block (encoder_kv_schedule_from_env).
LEMMA ScheduleProperty ==
    ASSUME NEW env \in Envs
    PROVE  /\ ScheduleFromEnv(env) \in [logical : 1..MaxNew, physical : 1..MaxNew]
           /\ ScheduleFromEnv(env).physical % ScheduleFromEnv(env).logical = 0
           /\ MaxNew % ScheduleFromEnv(env).physical = 0
  <1>0. /\ MaxNew \in Nat \ {0} /\ Group \in 1..MaxNew
        /\ env.throughput \in BOOLEAN /\ env.grid \in Nat /\ env.logical \in Nat
        /\ env.physical \in Nat
    BY EncoderAssumption
  <1>1. CASE env.throughput
    <2>1. ScheduleFromEnv(env) = [logical |-> MaxNew, physical |-> MaxNew]
      BY <1>1, Zenon DEF ScheduleFromEnv
    <2> QED  BY <1>0, <2>1
  <1>2. CASE ~env.throughput
    <2> DEFINE logical0  == IF env.grid > 0 THEN MinOf(env.grid, MaxNew) ELSE Group
               physical0 == IF env.grid >= FullGrid THEN PhysicalRows(env.grid) ELSE Group
               logical   == IF env.logical > 0 THEN MinOf(env.logical, MaxNew) ELSE logical0
               rows      == IF env.physical > 0 THEN env.physical ELSE physical0
               physical  == PhysicalRows(rows)
    <2>1. logical \in 1..MaxNew
      BY <1>0 DEF MinOf
    <2>2. rows \in Int
      <3>1. PhysicalRows(env.grid) \in Int
        BY <1>0, PhysicalProperty
      <3> QED  BY <1>0, <3>1
    <2>3. ScheduleFromEnv(env) = [logical |-> LogicalRows(logical, physical), physical |-> physical]
      BY <1>2, Zenon DEF ScheduleFromEnv
    <2> HIDE DEF rows, logical
    <2>4. physical \in 1..MaxNew /\ MaxNew % physical = 0
      BY <2>2, PhysicalProperty
    <2> HIDE DEF physical
    <2>5. LogicalRows(logical, physical) \in 1..MaxNew
          /\ physical % LogicalRows(logical, physical) = 0
      BY <2>1, <2>4, LogicalProperty
    <2> DEFINE s == ScheduleFromEnv(env)
    <2>6. s.logical = LogicalRows(logical, physical) /\ s.physical = physical
      BY <2>3
    <2>7. s \in [logical : 1..MaxNew, physical : 1..MaxNew]
      BY <2>3, <2>4, <2>5
    <2> QED  BY <2>4, <2>5, <2>6, <2>7, Zenon
  <1> QED  BY <1>1, <1>2

-----------------------------------------------------------------------------
(* The steps. *)

\* The encoder starts with an empty tail.
LEMMA EncStart ==
    ASSUME EncInit
    PROVE  EncInv
  <1>1. EncTypeOK
    <2>1. schedule \in [logical : 1..MaxNew, physical : 1..MaxNew]
      <3>1. PICK env \in Envs : schedule = ScheduleFromEnv(env)
        BY DEF EncInit
      <3> QED  BY <3>1, ScheduleProperty
    <2>2. DOMAIN ring = 0..(Cap - 1) /\ DOMAIN enc_out_ring = 0..(OutCap - 1)
      BY DEF EncInit
    <2>3. MaxMel \in Nat
      BY EncoderAssumption
    <2>4. /\ stream = 0 /\ stable_mel = 0 /\ tail_base = 0 /\ tail_frames = 0
          /\ emitted = 0 /\ finalized = FALSE
          /\ finish_physical \in FinishSizes /\ incremental \in BOOLEAN
      BY DEF EncInit
    <2>5. stream \in Nat /\ tail_base \in Nat /\ tail_frames \in Nat /\ emitted \in Nat
      BY <2>4
    <2>6. stable_mel \in 0..MaxMel
      BY <2>3, <2>4
    <2>7. finalized \in BOOLEAN
      BY <2>4
    <2> QED  BY <2>1, <2>2, <2>4, <2>5, <2>6, <2>7, Zenon DEF EncTypeOK
  <1>2. TailFollowsHead
    BY DEF EncInit, TailFollowsHead, Realizable, ConvStart, MaxOf
  <1> QED  BY <1>1, <1>2 DEF EncInv

\* New Mel frames extend the tail.
LEMMA PushMelStep ==
    ASSUME EncInv, NEW n \in Int, PushMel(n)
    PROVE  EncInv'
  <1>1. EncTypeOK'
    BY EncoderAssumption DEF PushMel, EncInv, EncTypeOK, encConfig, encDevice
  <1>2. TailFollowsHead'
    <2>1. stable_mel \in Nat /\ n \in Nat /\ stable_mel + n \in Nat
      BY EncoderAssumption DEF PushMel, EncInv, EncTypeOK
    <2>2. Realizable(stable_mel) <= Realizable(stable_mel + n)
          /\ Realizable(stable_mel) \in Nat /\ Realizable(stable_mel + n) \in Nat
      BY <2>1, RealizableGrows, RealizableProperty
    <2> QED  BY <2>1, <2>2, EncoderAssumption
             DEF PushMel, EncInv, EncTypeOK, TailFollowsHead, ConvStart, MaxOf
  <1> QED  BY <1>1, <1>2 DEF EncInv

\* A launch moves the head, and the tail after it.
LEMMA LaunchStep ==
    ASSUME EncInv, NEW final \in BOOLEAN, Launch(final)
    PROVE  EncInv'
  <1> DEFINE l == NextLaunch(final)
  <1>1. /\ l.q = emitted /\ l.n \in 1..MaxNew
        /\ emitted + l.n <= Realizable(stable_mel)
    BY NextLaunchProperty DEF Launch
  <1>2. /\ emitted' = l.q + l.n /\ TrimTail(l.q + l.n)
        /\ UNCHANGED << encConfig, stream, stable_mel, finalized >> /\ ~finalized
        /\ ring' = WriteRows(l.q, l.n) /\ StoreOutput(l)
    BY DEF Launch
  <1>3. /\ emitted \in Nat /\ stable_mel \in Nat /\ MaxNew \in Nat
        /\ tail_base \in Nat /\ tail_frames \in Nat
        /\ tail_base = ConvStart(emitted) /\ tail_base + tail_frames = stable_mel
    BY <1>2, EncoderAssumption DEF EncInv, EncTypeOK, TailFollowsHead
  <1>4. Realizable(stable_mel) \in Nat /\ 2 * Realizable(stable_mel) <= stable_mel
    BY <1>3, RealizableProperty
  <1> HIDE DEF l
  <1>5. emitted' \in Nat /\ emitted' = emitted + l.n /\ emitted' <= Realizable(stable_mel)
    BY <1>1, <1>2, <1>3
  <1>6. tail_base' = ConvStart(emitted') /\ tail_base' + tail_frames' = stable_mel
        /\ tail_base' \in Nat /\ tail_frames' \in Nat
    BY <1>1, <1>2, <1>3, <1>4, <1>5 DEF TrimTail, ConvStart, MaxOf
  <1>7. DOMAIN ring' = 0..(Cap - 1)
    BY <1>2 DEF WriteRows
  <1>8. DOMAIN enc_out_ring' = 0..(OutCap - 1)
    BY <1>2 DEF StoreOutput, CopyOut, EncInv, EncTypeOK
  <1> QED  BY <1>2, <1>3, <1>5, <1>6, <1>7, <1>8
           DEF EncInv, EncTypeOK, TailFollowsHead, encConfig

\* A launch that fails leaves the head and the tail where they were.
LEMMA LaunchFailsStep ==
    ASSUME EncInv, NEW final \in BOOLEAN, LaunchFails(final)
    PROVE  EncInv'
  <1>1. DOMAIN ring' = 0..(Cap - 1) /\ DOMAIN enc_out_ring' = 0..(OutCap - 1)
    BY DEF LaunchFails, WriteRows, CopyOut, EncInv, EncTypeOK
  <1> QED  BY <1>1 DEF LaunchFails, EncInv, EncTypeOK, TailFollowsHead, encConfig, encCounts

\* Finish and reset leave nothing to convolve.
LEMMA EndStep ==
    ASSUME EncInv, FinishEncoder \/ ResetEncoder
    PROVE  EncInv'
  <1>1. CASE FinishEncoder
    BY <1>1, EncoderAssumption
    DEF FinishEncoder, EncInv, EncTypeOK, TailFollowsHead, encConfig, encDevice
  <1>2. CASE ResetEncoder
    <2>1. EncTypeOK'
      <3>1. MaxMel \in Nat
        BY EncoderAssumption
      <3>2. /\ stream' = stream + 1 /\ stable_mel' = 0 /\ tail_base' = 0
            /\ tail_frames' = 0 /\ emitted' = 0 /\ finalized' = FALSE
            /\ UNCHANGED << schedule, finish_physical, incremental, ring, enc_out_ring >>
        BY <1>2 DEF ResetEncoder, encConfig
      <3>3. stream' \in Nat /\ tail_base' \in Nat /\ tail_frames' \in Nat /\ emitted' \in Nat
        BY <3>2 DEF EncInv, EncTypeOK
      <3>4. stable_mel' \in 0..MaxMel
        BY <3>1, <3>2
      <3>5. finalized' \in BOOLEAN
        BY <3>2
      <3> QED  BY <3>2, <3>3, <3>4, <3>5, Zenon DEF EncInv, EncTypeOK
    <2>2. TailFollowsHead'
      BY <1>2 DEF ResetEncoder, TailFollowsHead, ConvStart, MaxOf, Realizable
    <2> QED  BY <2>1, <2>2 DEF EncInv
  <1> QED  BY <1>1, <1>2

\* So does every step of the encoder.
LEMMA EncStep ==
    ASSUME EncInv, [EncNext]_encVars
    PROVE  EncInv'
  <1>1. CASE \E n \in 1..MaxMel : PushMel(n)
    BY <1>1, PushMelStep
  <1>2. CASE \E final \in BOOLEAN : Launch(final) \/ LaunchFails(final)
    BY <1>2, LaunchStep, LaunchFailsStep
  <1>3. CASE FinishEncoder \/ ResetEncoder
    BY <1>3, EndStep
  <1>4. CASE UNCHANGED encVars
    BY <1>4 DEF encVars, encConfig, encCounts, encDevice, encGhosts, EncInv, EncTypeOK,
                TailFollowsHead
  <1> QED  BY <1>1, <1>2, <1>3, <1>4 DEF EncNext

-----------------------------------------------------------------------------
(* The device rows and the reads, step by step. *)

EncRows == DeviceRowsKept /\ EncoderReadsRight

\* Nothing is kept or read before the first launch.
LEMMA RowsStart ==
    ASSUME emitted = 0, OutputInOrder, attended = << >>
    PROVE  EncRows
  <1>1. RingHoldsWindow
    BY DEF RingHoldsWindow, CausalWindow
  <1>2. EncoderReadsRight
    BY DEF EncoderReadsRight, AttendsOwnWindow, ConvolvesOwnMel
  <1> QED  BY <1>1, <1>2 DEF EncRows, DeviceRowsKept

LEMMA NoOutputYet ==
    ASSUME emitted = 0, enc_accum = << >>
    PROVE  OutputInOrder
  <1>1. MaxOf(0, emitted - (OutCap - MaxNew))..(emitted - 1) = {}
    BY EncoderAssumption DEF MaxOf
  <1>2. enc_accum = [i \in 1..emitted |-> Row(i - 1)]
    BY DEF Row
  <1> QED  BY <1>1, <1>2 DEF OutputInOrder

\* A step that touches neither the rows nor the head keeps them.
LEMMA RowsUntouched ==
    ASSUME EncRows, UNCHANGED << stream, emitted, incremental, encDevice, attended >>
    PROVE  EncRows'
  BY DEF EncRows, DeviceRowsKept, RingHoldsWindow, OutputInOrder, EncoderReadsRight,
         AttendsOwnWindow, ConvolvesOwnMel, CausalWindow, Row, encDevice

\* The rows before the head, as a span.
LEMMA RingWindowSpan ==
    ASSUME NEW e \in Nat
    PROVE  CausalWindow(e) \ {e} = WindowStart(e)..(e - 1)
  BY EncoderAssumption DEF CausalWindow, WindowStart, MaxOf

\* A launch leaves the window of the next launch in the ring and its own rows in
\* the output, and what it read is its own.
LEMMA RowsLaunch ==
    ASSUME EncInv, EncRows, NEW final \in BOOLEAN, Launch(final)
    PROVE  EncRows'
  <1> DEFINE l == NextLaunch(final)
  <1>1. /\ l.q = emitted /\ l.n \in 1..MaxNew /\ l.p \in 1..MaxNew
        /\ (emitted % l.p) + l.n <= l.p
    BY NextLaunchProperty DEF Launch
  <1>2. /\ emitted' = l.q + l.n /\ stream' = stream /\ incremental' = incremental
        /\ ring' = WriteRows(l.q, l.n) /\ StoreOutput(l)
        /\ attended' = IF IsSteady(l) THEN SteadyReads(l.q) ELSE BatchReads(l.q, l.n, l.p)
    BY DEF Launch, encConfig
  <1>3. /\ emitted \in Nat /\ OutCap \in Nat \ {0} /\ MaxNew \in Nat \ {0}
        /\ MaxNew <= OutCap /\ incremental \in BOOLEAN
    BY EncoderAssumption DEF EncInv, EncTypeOK
  <1>4. RingHoldsWindow /\ OutputInOrder
    BY DEF EncRows, DeviceRowsKept
  <1> DEFINE n == l.n
  <1>5. n \in 1..MaxNew /\ emitted' = emitted + n /\ emitted' \in Nat
    BY <1>1, <1>2, <1>3
  <1>6. RingHoldsWindow'
    <2>1. \A p \in WindowStart(emitted)..(emitted + n - 1) :
              WriteRows(emitted, n)[p % Cap] = Row(p)
      BY <1>4, <1>5, WindowAfterWrite
    <2> DEFINE e == emitted + n
    <2>2. CausalWindow(e) \ {e} = WindowStart(e)..(e - 1) /\ e \in Nat /\ emitted <= e
      BY <1>3, <1>5, RingWindowSpan
    <2>3. WindowStart(emitted) <= WindowStart(e) /\ WindowStart(e) \in 0..e
          /\ WindowStart(emitted) \in 0..emitted
      <3>1. e <= e
        BY <2>2
      <3> QED  BY <1>3, <2>2, <3>1, WindowProperty, Zenon
    <2>4. \A p \in CausalWindow(e) \ {e} : p \in WindowStart(emitted)..(emitted + n - 1)
      <3> HIDE DEF n
      <3> QED  BY <1>3, <1>5, <2>2, <2>3
    <2>5. \A p \in CausalWindow(e) \ {e} : ring'[p % Cap] = Row(p)
      BY <1>1, <1>2, <2>1, <2>4
    <2> HIDE DEF n
    <2> QED  BY <1>2, <1>5, <2>5 DEF RingHoldsWindow, CausalWindow, Row
  <1>7. OutputInOrder'
    <2>1. CASE incremental
      <3>1. enc_out_ring' = CopyOut(emitted, n)
        BY <1>1, <1>2, <2>1 DEF StoreOutput
      <3>2. \A p \in MaxOf(0, emitted - (OutCap - MaxNew))..(emitted - 1) :
                enc_out_ring[p % OutCap] = Row(p)
        BY <1>4, <2>1 DEF OutputInOrder
      <3>3. \A p \in MaxOf(0, emitted - (OutCap - MaxNew))..(emitted + n - 1) :
                CopyOut(emitted, n)[p % OutCap] = Row(p)
        BY <1>3, <1>5, <3>2, OutputAfterCopy
      <3>4. \A p \in MaxOf(0, emitted' - (OutCap - MaxNew))..(emitted' - 1) :
                p \in MaxOf(0, emitted - (OutCap - MaxNew))..(emitted + n - 1)
        <4> HIDE DEF n
        <4> QED  BY <1>3, <1>5 DEF MaxOf
      <3> HIDE DEF n
      <3>5. \A p \in MaxOf(0, emitted' - (OutCap - MaxNew))..(emitted' - 1) :
                enc_out_ring'[p % OutCap] = Row(p)
        BY <3>1, <3>3, <3>4
      <3> QED  BY <1>2, <2>1, <3>5 DEF OutputInOrder, Row, MaxOf
    <2>2. CASE ~incremental
      <3>1. enc_accum' = enc_accum \o [i \in 1..n |-> Row(emitted + i - 1)]
        BY <1>1, <1>2, <2>2 DEF StoreOutput
      <3>2. enc_accum = [i \in 1..emitted |-> Row(i - 1)]
        BY <1>4, <2>2 DEF OutputInOrder
      <3> DEFINE A == [i \in 1..emitted |-> Row(i - 1)]
                 B == [i \in 1..n |-> Row(emitted + i - 1)]
                 R == { Row(p) : p \in Int }
      <3> HIDE DEF n
      <3>3. A \in Seq(R) /\ B \in Seq(R) /\ Len(A) = emitted /\ Len(B) = n
        BY <1>3, <1>5
      <3>4. A \o B = [i \in 1..(emitted + n) |-> Row(i - 1)]
        <4>1. A \o B \in Seq(R) /\ Len(A \o B) = emitted + n
          BY <1>3, <1>5, <3>3
        <4>2. ASSUME NEW i \in 1..(emitted + n)
              PROVE  (A \o B)[i] = Row(i - 1)
          <5>1. (A \o B)[i] = IF i <= emitted THEN A[i] ELSE B[i - emitted]
            <6> HIDE DEF A, B, R
            <6> QED  BY <1>3, <1>5, <3>3
          <5>2. CASE i <= emitted
            BY <1>3, <1>5, <5>1, <5>2
          <5>3. CASE ~(i <= emitted)
            <6>1. i - emitted \in 1..n /\ emitted + (i - emitted) - 1 = i - 1
              BY <1>3, <1>5, <5>3
            <6>2. B[i - emitted] = Row(i - 1)
              BY <6>1
            <6> QED  BY <5>1, <5>3, <6>2
          <5> QED  BY <5>2, <5>3
        <4>3. A \o B = [i \in 1..(emitted + n) |-> (A \o B)[i]]
          <5> DEFINE X == A \o B
          <5>1. X \in Seq(R) /\ Len(X) = emitted + n
            BY <4>1
          <5> HIDE DEF X, R
          <5>2. X = [i \in 1..(emitted + n) |-> X[i]]
            BY <5>1
          <5> QED  BY <5>2 DEF X
        <4> HIDE DEF A, B
        <4> QED  BY <4>2, <4>3, Zenon
      <3>5. enc_accum' = [i \in 1..emitted' |-> Row(i - 1)]
        BY <1>5, <3>1, <3>2, <3>4
      <3> QED  BY <1>2, <2>2, <3>5 DEF OutputInOrder, Row
    <2> QED  BY <1>3, <2>1, <2>2
  <1>8. attended' = [r \in emitted..(emitted + n - 1) |-> OwnReads(r)]
    <2>1. CASE IsSteady(l)
      <3>1. attended' = SteadyReads(emitted) /\ n = Group
        BY <1>1, <1>2, <2>1 DEF IsSteady
      <3> HIDE DEF n
      <3> QED  BY <1>4, <3>1, SteadyReadsOwn
    <2>2. CASE ~IsSteady(l)
      <3>1. attended' = BatchReads(emitted, n, l.p)
        BY <1>1, <1>2, <2>2
      <3> QED  BY <1>1, <1>4, <3>1, BatchReadsOwn
    <2> QED  BY <2>1, <2>2
  <1>9. EncoderReadsRight'
    <2> HIDE DEF n
    <2>1. \A r \in DOMAIN attended' : attended'[r] = OwnReads(r)
      BY <1>8
    <2>2. ASSUME NEW r \in DOMAIN attended'
          PROVE  /\ attended'[r].keys = { Row(k) : k \in CausalWindow(r) }
                 /\ attended'[r].mel = OwnMel(r)
      BY <2>1 DEF OwnReads
    <2>3. \A k : Row(k)' = Row(k)
      BY <1>2 DEF Row
    <2>4. AttendsOwnWindow'
      BY <2>2, <2>3 DEF AttendsOwnWindow, CausalWindow
    <2>5. ConvolvesOwnMel'
      BY <2>2 DEF ConvolvesOwnMel, OwnMel
    <2> QED  BY <2>4, <2>5 DEF EncoderReadsRight
  <1> QED  BY <1>6, <1>7, <1>9 DEF EncRows, DeviceRowsKept

\* A launch that fails half way has written beyond the head only.
LEMMA RowsLaunchFails ==
    ASSUME EncInv, EncRows, NEW final \in BOOLEAN, LaunchFails(final)
    PROVE  EncRows'
  <1> DEFINE l == NextLaunch(final)
             n == l.n
  <1>1. l.q = emitted /\ n \in 1..MaxNew
    BY NextLaunchProperty DEF LaunchFails
  <1>2. /\ ring' \in {ring, WriteRows(l.q, l.n)}
        /\ enc_out_ring' \in {enc_out_ring} \cup
                             (IF incremental THEN {CopyOut(l.q, l.n)} ELSE {})
        /\ stream' = stream /\ emitted' = emitted /\ incremental' = incremental
        /\ enc_accum' = enc_accum /\ attended' = attended
    BY DEF LaunchFails, encConfig, encCounts, encGhosts
  <1>3. /\ emitted \in Nat /\ OutCap \in Nat \ {0} /\ MaxNew \in Nat \ {0}
        /\ MaxNew <= OutCap /\ incremental \in BOOLEAN
    BY EncoderAssumption DEF EncInv, EncTypeOK
  <1>4. RingHoldsWindow /\ OutputInOrder
    BY DEF EncRows, DeviceRowsKept
  <1>5. RingHoldsWindow'
    <2>1. \A p \in WindowStart(emitted)..(emitted + n - 1) :
              WriteRows(emitted, n)[p % Cap] = Row(p)
      BY <1>1, <1>4, WindowAfterWrite
    <2>2. CausalWindow(emitted) \ {emitted} = WindowStart(emitted)..(emitted - 1)
          /\ WindowStart(emitted) \in 0..emitted
      <3>1. emitted <= emitted
        BY <1>3
      <3> QED  BY <1>3, <3>1, RingWindowSpan, WindowProperty, Zenon
    <2>3. \A p \in CausalWindow(emitted) \ {emitted} :
              p \in WindowStart(emitted)..(emitted + n - 1)
      <3> HIDE DEF n
      <3> QED  BY <1>1, <1>3, <2>2
    <2>4. \A p \in CausalWindow(emitted) \ {emitted} : ring[p % Cap] = Row(p)
      BY <1>4 DEF RingHoldsWindow
    <2>5. \A p \in CausalWindow(emitted) \ {emitted} : ring'[p % Cap] = Row(p)
      BY <1>1, <1>2, <2>1, <2>3, <2>4
    <2> QED  BY <1>2, <2>5 DEF RingHoldsWindow, CausalWindow, Row
  <1>6. OutputInOrder'
    <2>1. CASE incremental
      <3>1. enc_out_ring' \in {enc_out_ring, CopyOut(emitted, n)}
        BY <1>1, <1>2, <2>1
      <3>2. \A p \in MaxOf(0, emitted - (OutCap - MaxNew))..(emitted - 1) :
                enc_out_ring[p % OutCap] = Row(p)
        BY <1>4, <2>1 DEF OutputInOrder
      <3>3. \A p \in MaxOf(0, emitted - (OutCap - MaxNew))..(emitted + n - 1) :
                CopyOut(emitted, n)[p % OutCap] = Row(p)
        BY <1>1, <1>3, <3>2, OutputAfterCopy
      <3>4. \A p \in MaxOf(0, emitted - (OutCap - MaxNew))..(emitted - 1) :
                p \in MaxOf(0, emitted - (OutCap - MaxNew))..(emitted + n - 1)
        <4> HIDE DEF n
        <4> QED  BY <1>1, <1>3 DEF MaxOf
      <3> HIDE DEF n
      <3>5. \A p \in MaxOf(0, emitted - (OutCap - MaxNew))..(emitted - 1) :
                enc_out_ring'[p % OutCap] = Row(p)
        BY <3>1, <3>2, <3>3, <3>4
      <3> QED  BY <1>2, <2>1, <3>5 DEF OutputInOrder, Row, MaxOf
    <2>2. CASE ~incremental
      BY <1>2, <1>4, <2>2 DEF OutputInOrder, Row
    <2> QED  BY <1>3, <2>1, <2>2
  <1>7. EncoderReadsRight'
    BY <1>2 DEF EncRows, EncoderReadsRight, AttendsOwnWindow, ConvolvesOwnMel,
                CausalWindow, Row
  <1> QED  BY <1>5, <1>6, <1>7 DEF EncRows, DeviceRowsKept

\* Every step of the encoder.
LEMMA RowsStep ==
    ASSUME EncInv, EncRows, [EncNext]_encVars
    PROVE  EncRows'
  <1>1. CASE \E n \in 1..MaxMel : PushMel(n)
    <2>1. UNCHANGED << stream, emitted, incremental, encDevice, attended >>
      BY <1>1 DEF PushMel, encConfig, encGhosts
    <2> QED  BY <2>1, RowsUntouched
  <1>2. CASE \E final \in BOOLEAN : Launch(final) \/ LaunchFails(final)
    BY <1>2, RowsLaunch, RowsLaunchFails
  <1>3. CASE FinishEncoder
    <2>1. UNCHANGED << stream, emitted, incremental, encDevice, attended >>
      BY <1>3 DEF FinishEncoder, encConfig, encGhosts
    <2> QED  BY <2>1, RowsUntouched
  <1>4. CASE ResetEncoder
    <2>1. emitted' = 0 /\ enc_accum' = << >> /\ attended' = << >>
      BY <1>4 DEF ResetEncoder
    <2>2. MaxOf(0, emitted' - (OutCap - MaxNew))..(emitted' - 1) = {}
      BY <2>1, EncoderAssumption DEF MaxOf
    <2>3. enc_accum' = [i \in 1..emitted' |-> Row(i - 1)']
      BY <2>1 DEF Row
    <2>4. OutputInOrder'
      BY <2>2, <2>3 DEF OutputInOrder, Row, MaxOf
    <2>5. RingHoldsWindow'
      BY <2>1 DEF RingHoldsWindow, CausalWindow
    <2>6. EncoderReadsRight'
      BY <2>1 DEF EncoderReadsRight, AttendsOwnWindow, ConvolvesOwnMel
    <2> QED  BY <2>4, <2>5, <2>6 DEF EncRows, DeviceRowsKept
  <1>5. CASE UNCHANGED encVars
    <2>1. UNCHANGED << stream, emitted, incremental, encDevice, attended >>
      BY <1>5 DEF encVars, encConfig, encCounts, encDevice, encGhosts
    <2> QED  BY <2>1, RowsUntouched
  <1> QED  BY <1>1, <1>2, <1>3, <1>4, <1>5 DEF EncNext

-----------------------------------------------------------------------------
(* The theorems. *)

\* The tail follows the head in every reachable state of the encoder.
THEOREM EncInductive == EncSpec => []EncInv
  BY EncStart, EncStep, PTL DEF EncSpec

\* No plan, convolution window or block check of the encoder ever refuses what its
\* drive loop asks for, for every schedule and every way of pushing Mel frames.
THEOREM EncNeverRefused == EncSpec => []NeverRefused
  <1>1. EncInv => NeverRefused
    BY RunnableProperty
  <1> QED  BY <1>1, EncInductive, PTL

\* The rows the next launch attends to stay in the K/V ring and the emitted frames
\* where their reader looks, for every ring, window and schedule and after every
\* launch that fails half way.
THEOREM EncRowsKept == EncSpec => []DeviceRowsKept
  <1>1. EncInit => EncInv /\ EncRows
    BY EncStart, RowsStart, NoOutputYet DEF EncInit
  <1>2. EncInv /\ EncRows /\ [EncNext]_encVars => (EncInv /\ EncRows)'
    BY EncStep, RowsStep
  <1>3. EncRows => DeviceRowsKept
    BY DEF EncRows
  <1> QED  BY <1>1, <1>2, <1>3, PTL DEF EncSpec

\* And every graph reads the keys and the Mel frames of its own window: the frame
\* a row is computed from never depends on where the rings wrapped, which graph
\* computed it, or what an earlier stream left on the device.
THEOREM EncReadsOwn == EncSpec => []EncoderReadsRight
  <1>1. EncInit => EncInv /\ EncRows
    BY EncStart, RowsStart, NoOutputYet DEF EncInit
  <1>2. EncInv /\ EncRows /\ [EncNext]_encVars => (EncInv /\ EncRows)'
    BY EncStep, RowsStep
  <1>3. EncRows => EncoderReadsRight
    BY DEF EncRows
  <1> QED  BY <1>1, <1>2, <1>3, PTL DEF EncSpec
=============================================================================
