------------------------ MODULE StreamRuntime_proofs ------------------------
(***************************************************************************)
(* Proofs about the streaming session runtime, for every capacity, pad,    *)
(* ring, slice and feed size that StreamConstants allows: the inductive    *)
(* invariant of its calls, the order of the events a client reads, what a  *)
(* decoder step reads and a completed stream has decoded, and the contract *)
(* of the public API.                                                      *)
(***************************************************************************)
EXTENDS StreamRuntime, SequenceTheorems, NaturalsInduction,
        WellFoundedInduction, TLAPS

-----------------------------------------------------------------------------
(* Facts about the operators the model is built from.                      *)

\* A set of positive integers has a least element, and Min picks it.
LEMMA MinProperty ==
    ASSUME NEW S, S \subseteq Nat, S # {}
    PROVE  Min(S) \in S /\ \A y \in S : Min(S) =< y
  <1>1. PICK x \in S : \A y \in S : ~(<<y, x>> \in OpToRel(<, Nat))
    BY NatLessThanWellFounded, WFMin
  <1>2. \A y \in S : x =< y
    <2> SUFFICES ASSUME NEW y \in S, y < x
                 PROVE  FALSE
      OBVIOUS
    <2>1. <<y, x>> \in Nat \X Nat /\ <<y, x>>[1] < <<y, x>>[2]
      OBVIOUS
    <2>2. <<y, x>> \in OpToRel(<, Nat)
      BY <2>1 DEF OpToRel
    <2> QED  BY <1>1, <2>2
  <1> QED  BY <1>1, <1>2 DEF Min

\* So has a set of positions of a finite sequence a greatest one.
LEMMA MaxProperty ==
    ASSUME NEW n \in Nat, NEW S, S \subseteq 1 .. n, S # {}
    PROVE  Max(S) \in S /\ \A y \in S : Max(S) >= y
  <1> DEFINE T == {n - x : x \in S}
  <1>1. T \subseteq Nat /\ T # {}
    <2>1. PICK s \in S : TRUE
      OBVIOUS
    <2>2. n - s \in T
      OBVIOUS
    <2> QED  BY <2>2
  <1>2. Min(T) \in T /\ \A y \in T : Min(T) =< y
    BY <1>1, MinProperty
  <1>3. PICK x \in S : Min(T) = n - x
    BY <1>2
  <1>4. \A y \in S : x >= y
    <2> TAKE y \in S
    <2>1. n - y \in T
      OBVIOUS
    <2> HIDE DEF T
    <2> QED  BY <1>2, <1>3, <2>1
  <1> QED  BY <1>3, <1>4 DEF Max

\* Removing a position keeps the type and shortens by one.
LEMMA RemoveAtProperty ==
    ASSUME NEW E, NEW q \in Seq(E), NEW i \in 1 .. Len(q)
    PROVE  RemoveAt(q, i) \in Seq(E) /\ Len(RemoveAt(q, i)) = Len(q) - 1
  <1> DEFINE a == SubSeq(q, 1, i - 1)
             b == SubSeq(q, i + 1, Len(q))
  <1>0. Len(q) \in Nat /\ \A j \in 1 .. Len(q) : q[j] \in E
    BY LenProperties, ElementOfSeq
  <1>1. a \in Seq(E) /\ Len(a) = i - 1
    BY <1>0, SubSeqProperties
  <1>2. b \in Seq(E) /\ Len(b) = Len(q) - i
    BY <1>0, SubSeqProperties
  <1>3. a \o b \in Seq(E) /\ Len(a \o b) = Len(a) + Len(b)
    BY <1>1, <1>2, ConcatProperties
  <1>4. RemoveAt(q, i) = a \o b
    BY DEF RemoveAt
  <1> HIDE DEF a, b
  <1>5. Len(a \o b) = (i - 1) + (Len(q) - i)
    BY <1>1, <1>2, <1>3
  <1>6. (i - 1) + (Len(q) - i) = Len(q) - 1
    BY <1>0
  <1> QED  BY <1>3, <1>4, <1>5, <1>6

\* push_event keeps the type and does not pass its bound.
LEMMA PushMandatoryProperty ==
    ASSUME NEW q \in Seq(Events), NEW e \in Events, NEW bound \in Int
    PROVE  /\ PushMandatory(q, e, bound) \in Seq(Events)
           /\ Len(q) <= bound => Len(PushMandatory(q, e, bound)) <= bound
  BY DEF PushMandatory

\* push_event_coalesced keeps the type and does not pass its bound, whichever
\* of its four ways it takes.
LEMMA PushPartialProperty ==
    ASSUME NEW q \in Seq(Events), NEW e \in Events, NEW bound \in Int
    PROVE  /\ PushPartial(q, e, bound) \in Seq(Events)
           /\ Len(q) <= bound => Len(PushPartial(q, e, bound)) <= bound
  <1>1. PartialsIn(q) \subseteq 1 .. Len(q)
    BY DEF PartialsIn
  <1>2. ASSUME PartialsIn(q) # {}
        PROVE  /\ Append(RemoveAt(q, Min(PartialsIn(q))), e) \in Seq(Events)
               /\ Len(Append(RemoveAt(q, Min(PartialsIn(q))), e)) = Len(q)
    <2>1. Min(PartialsIn(q)) \in 1 .. Len(q)
      BY <1>1, <1>2, MinProperty
    <2> QED  BY <2>1, RemoveAtProperty
  <1>3. ASSUME PartialsIn(q) # {}
        PROVE  /\ ReplaceAt(q, Max(PartialsIn(q)), e) \in Seq(Events)
               /\ Len(ReplaceAt(q, Max(PartialsIn(q)), e)) = Len(q)
    <2>1. Max(PartialsIn(q)) \in 1 .. Len(q)
      BY <1>1, <1>3, LenProperties, MaxProperty
    <2> QED  BY <2>1, ExceptSeq DEF ReplaceAt
  <1> QED  BY <1>2, <1>3 DEF PushPartial

\* The remainder of a division lies below the divisor.
LEMMA ModProperty ==
    ASSUME NEW a \in Int, NEW n \in Nat \ {0}
    PROVE  a % n \in 0 .. n - 1
  OBVIOUS

\* A ring write brings only rows of the written range.
LEMMA WriteRingProperty ==
    ASSUME NEW R, NEW size \in Nat \ {0}, NEW lo \in Nat, NEW hi \in Nat,
           NEW ring \in [0 .. size - 1 -> R],
           NEW rows \in [lo .. hi - 1 -> R]
    PROVE  WriteRing(ring, size, lo, hi, rows) \in [0 .. size - 1 -> R]
  <1> SUFFICES ASSUME NEW s \in 0 .. size - 1,
                      LastInSlot(s, size, hi) >= lo
               PROVE  LastInSlot(s, size, hi) \in lo .. hi - 1
    BY DEF WriteRing
  <1> DEFINE m == (hi - 1 - s) % size
  <1>1. m \in 0 .. size - 1
    <2>1. hi - 1 - s \in Int
      OBVIOUS
    <2> QED  BY <2>1, ModProperty, Zenon
  <1>2. LastInSlot(s, size, hi) = hi - 1 - m
    BY DEF LastInSlot
  <1> HIDE DEF m
  <1> QED  BY <1>1, <1>2

-----------------------------------------------------------------------------
(* The inductive invariant.                                                *)

\* Which calls can be where: a call that feeds audio runs in an open stream,
\* the tail of finish() in a finishing one.
Phase ==
    /\ after = "none" <=> pc \in {"idle", "slice"}
    /\ pc = "slice" => FeedAllowed
    /\ after \in {"resume", "slice", "drain"} => FeedAllowed
    /\ after = "tail" <=> state = "finishing"
    /\ todo <= asked
    /\ pc = "slice" \/ after = "slice" \/ todo = 0

\* The reserve opens exactly when the stream stops accepting audio, and the
\* queue keeps to the bound in force.
Reserve ==
    /\ finalizing <=> ~FeedAllowed
    /\ Len(queue) <= Bound

\* A stalled stream holds exactly one undelivered token, from a decoder that
\* was prefilled; no decoder step runs while it does.
Held ==
    /\ backpressured <=> pending.valid
    /\ pending.valid => prefilled
    /\ pc = "step" => ~pending.valid
    /\ full => pending.valid /\ pc = "slice"
    /\ outcome = "queue_full" => pending.valid /\ pc = "pumped"
    /\ pc = "pumped" /\ outcome = "ok" => ~pending.valid
    /\ pc = "idle" /\ res = "queue_full" => pending.valid

\* What Mel took is what earlier feeds were credited with plus what the
\* running feed has sliced so far.
Consumed == IF pc = "slice" \/ after = "slice" THEN asked - todo ELSE 0

Credit ==
    FeedAllowed =>
        pushed = IF received + Consumed = 0 THEN 0
                 ELSE LeftPad + received + Consumed

IInv == TypeOK /\ Phase /\ Reserve /\ Held /\ StepsOnce /\ Credit

\* A fresh stream satisfies the invariant.
LEMMA InitIInv == Init => IInv
  <1> USE StreamConstants
  <1> SUFFICES ASSUME Init
               PROVE  IInv
    OBVIOUS
  <1>1. NoRow \in Rows
    BY DEF NoRow, Rows
  <1>2. TypeOK
    BY <1>1 DEF Init, TypeOK, States, NoToken
  <1>3. Phase /\ Held /\ StepsOnce /\ Credit
    BY DEF Init, Phase, FeedAllowed, Held, NoToken, StepsOnce, Credit, Consumed
  <1>4. Reserve
    BY DEF Init, Reserve, FeedAllowed, Bound
  <1> QED  BY <1>2, <1>3, <1>4 DEF IInv

-----------------------------------------------------------------------------
(* The pieces several actions share.                                       *)

\* Events the runtime pushes have the type of events.
LEMMA EventType ==
    ASSUME NEW t \in EventTypes, NEW k \in Nat
    PROVE  Event(t, k) \in Events
  BY DEF Event, Events

\* The exits that fail the stream.
LEMMA FailStreamStep ==
    ASSUME IInv, FailStream, pushed' \in Nat,
           UNCHANGED <<emitted, encRing, received, decodeVars, clientVars>>
    PROVE  IInv'
  <1> USE StreamConstants DEF IInv, decodeVars, clientVars
  <1> DEFINE e == Event("error", 0)
  <1>1. e \in Events
    BY EventType DEF EventTypes
  <1>2. Len(queue) <= MaxEvents + Headroom
    BY DEF Reserve, Bound, TypeOK
  <1> HIDE DEF e
  <1>3. queue' = PushMandatory(queue, e, MaxEvents + Headroom)
    BY DEF FailStream, e
  <1>4. queue' \in Seq(Events) /\ Len(queue') <= MaxEvents + Headroom
    BY <1>1, <1>2, <1>3, PushMandatoryProperty DEF TypeOK
  <1>5. TypeOK'
    BY <1>4 DEF TypeOK, FailStream, Return, States
  <1>6. Phase' /\ Held' /\ StepsOnce' /\ Credit'
    BY DEF FailStream, Return, Phase, Held, StepsOnce, Credit, FeedAllowed,
           TypeOK
  <1>7. Reserve'
    BY <1>4 DEF FailStream, Reserve, FeedAllowed, Bound
  <1> QED  BY <1>5, <1>6, <1>7

\* An open stream that holds no token accepts a feed, or refuses it at once.
LEMMA AcceptFeedStep ==
    ASSUME IInv, NEW n \in Nat, AcceptFeed(n), FeedAllowed,
           pc \in {"idle", "pumped"}, after \in {"none", "resume"},
           ~pending.valid,
           UNCHANGED <<state, queue, finalizing, backpressured, audioVars,
                       decodeVars, clientVars>>
    PROVE  IInv'
  <1> USE StreamConstants DEF IInv, audioVars, decodeVars, clientVars
  <1>1. Eager(n) \in BOOLEAN
    BY Zenon DEF Eager
  <1>2. CASE /\ res' \in {"ok", "invalid_argument"} /\ Return(res')
             /\ UNCHANGED aggressive
    <2>1. TypeOK'
      BY <1>2 DEF TypeOK, Return
    <2>2. Phase' /\ Reserve' /\ Held' /\ StepsOnce'
      BY <1>2 DEF Return, Phase, FeedAllowed, Reserve, Bound, Held, StepsOnce
    <2>3. Credit'
      BY <1>2 DEF Return, Credit, Phase, Consumed, FeedAllowed
    <2> QED  BY <2>1, <2>2, <2>3
  <1>3. CASE /\ aggressive' = Eager(n)
             /\ pc' = "slice" /\ asked' = n /\ todo' = n /\ full' = FALSE
             /\ after' = "none" /\ outcome' = "ok"
             /\ UNCHANGED res
    <2>1. TypeOK'
      BY <1>1, <1>3 DEF TypeOK
    <2>2. Phase' /\ Reserve' /\ Held' /\ StepsOnce'
      BY <1>3 DEF Phase, FeedAllowed, Reserve, Bound, Held, StepsOnce
    <2>3. Credit'
      BY <1>3 DEF Credit, Phase, Consumed, FeedAllowed
    <2> QED  BY <2>1, <2>2, <2>3
  <1> QED  BY <1>2, <1>3 DEF AcceptFeed, Return

\* A token that fits the queue is delivered.
LEMMA DeliverProperty ==
    ASSUME TypeOK, Len(queue) < Bound,
           NEW t \in [valid : BOOLEAN, eos : BOOLEAN, row : Rows], Deliver(t)
    PROVE  /\ queue' \in Seq(Events) /\ Len(queue') <= Bound
           /\ tokens' \in Seq(Rows) /\ position' \in Nat /\ eos' \in BOOLEAN
           /\ seqno' = seqno + 1 /\ pending' = NoToken
  <1> DEFINE token == Event("token", seqno + 1)
             partial == Event("partial", Len(tokens) + 1)
  <1>1. token \in Events /\ partial \in Events
    BY EventType DEF EventTypes, TypeOK
  <1>2. Append(queue, token) \in Seq(Events)
        /\ Len(Append(queue, token)) = Len(queue) + 1
    BY <1>1, AppendProperties DEF TypeOK
  <1>3. Bound \in Int /\ Len(queue) \in Nat
    BY StreamConstants DEF Bound, TypeOK
  <1>4. Len(Append(queue, token)) <= Bound
    BY <1>2, <1>3
  <1>5. /\ PushPartial(Append(queue, token), partial, Bound) \in Seq(Events)
        /\ Len(PushPartial(Append(queue, token), partial, Bound)) <= Bound
    BY <1>1, <1>2, <1>3, <1>4, PushPartialProperty
  <1>6. seqno' = seqno + 1 /\ pending' = NoToken
    BY DEF Deliver
  <1>7. CASE t.eos
    <2>1. /\ eos' = TRUE /\ queue' = Append(queue, token)
          /\ tokens' = tokens /\ position' = position
      BY <1>7 DEF Deliver
    <2> QED  BY <1>2, <1>4, <1>6, <2>1 DEF TypeOK
  <1>8. CASE ~t.eos
    <2>1. /\ eos' = eos /\ tokens' = Append(tokens, t.row)
          /\ queue' = PushPartial(Append(queue, token), partial, Bound)
          /\ position' = position + 1
      BY <1>8 DEF Deliver
    <2>2. t.row \in Rows
      OBVIOUS
    <2>3. tokens' \in Seq(Rows)
      BY <2>1, <2>2, AppendProperties DEF TypeOK
    <2> QED  BY <1>5, <1>6, <2>1, <2>3 DEF TypeOK
  <1> QED  BY <1>7, <1>8

-----------------------------------------------------------------------------
(* feed                                                                    *)

LEMMA CallFeedStep ==
    ASSUME IInv, NEW n \in Nat, CallFeed(n)
    PROVE  IInv'
  <1> USE StreamConstants DEF IInv, audioVars, decodeVars, clientVars
  <1>1. CASE FeedAllowed /\ ~backpressured /\ AcceptFeed(n)
    BY <1>1, AcceptFeedStep DEF CallFeed, Phase, Held
  <1>2. CASE /\ FeedAllowed /\ backpressured /\ RunPump("resume")
             /\ asked' = n /\ UNCHANGED <<todo, full, aggressive>>
    <2>1. TypeOK'
      BY <1>2 DEF CallFeed, TypeOK, RunPump
    <2>2. Phase' /\ Reserve' /\ Held' /\ StepsOnce'
      BY <1>2 DEF CallFeed, RunPump, Phase, FeedAllowed, Reserve, Bound, Held,
                  StepsOnce, TypeOK
    <2>3. Credit'
      BY <1>2 DEF CallFeed, RunPump, Phase, Credit, Consumed, FeedAllowed
    <2> QED  BY <2>1, <2>2, <2>3
  <1>3. CASE ~FeedAllowed /\ Return("invalid_state") /\ UNCHANGED aggressive
    <2>1. TypeOK'
      BY <1>3 DEF CallFeed, TypeOK, Return
    <2>2. Phase' /\ Reserve' /\ Held' /\ StepsOnce' /\ Credit'
      BY <1>3 DEF CallFeed, Return, Phase, FeedAllowed, Reserve, Bound, Held,
                  StepsOnce, Credit
    <2> QED  BY <2>1, <2>2
  <1> QED  BY <1>1, <1>2, <1>3 DEF CallFeed

LEMMA FeedResumedStep ==
    ASSUME IInv, FeedResumed
    PROVE  IInv'
  <1> USE StreamConstants DEF IInv, eventVars, audioVars, decodeVars, clientVars
  <1>0. FeedAllowed /\ pc = "pumped" /\ after = "resume"
    BY DEF FeedResumed, Phase
  <1>1. CASE outcome = "ok" /\ AcceptFeed(asked)
    <2>1. ~pending.valid /\ asked \in Nat
      BY <1>0, <1>1 DEF Held, TypeOK
    <2>2. UNCHANGED <<state, queue, finalizing, backpressured, audioVars,
                      decodeVars, clientVars>>
      BY <1>1 DEF FeedResumed
    <2> QED  BY <1>0, <1>1, <2>1, <2>2, AcceptFeedStep
  <1>2. CASE outcome = "queue_full"
    <2>0. /\ Return("queue_full") /\ UNCHANGED <<state, eventVars>>
          /\ UNCHANGED <<audioVars, decodeVars, clientVars>>
      BY <1>2 DEF FeedResumed
    <2>1. TypeOK'
      BY <2>0 DEF TypeOK, Return
    <2>2. Phase'
      BY <1>0, <1>2 DEF FeedResumed, Return, Phase, FeedAllowed
    <2>3. Reserve' /\ StepsOnce'
      BY <1>2 DEF FeedResumed, Reserve, FeedAllowed, Bound, StepsOnce
    <2>4. Held'
      BY <1>2 DEF FeedResumed, Return, Held
    <2>5. Credit'
      BY <1>0, <1>2 DEF FeedResumed, Return, Credit, Consumed, FeedAllowed
    <2> QED  BY <2>1, <2>2, <2>3, <2>4, <2>5
  <1>3. CASE outcome = "error"
    BY <1>3, FailStreamStep DEF FeedResumed, TypeOK
  <1> QED  BY <1>1, <1>2, <1>3 DEF FeedResumed

LEMMA FeedSliceStep ==
    ASSUME IInv, FeedSlice
    PROVE  IInv'
  <1> USE StreamConstants DEF IInv, eventVars, decodeVars, clientVars
  <1> DEFINE p == PushedAfter(SliceSize)
             e == Realizable(p)
  <1>1. /\ SliceSize \in Nat \ {0} /\ SliceSize <= todo
        /\ p \in Nat /\ e \in Nat
    BY DEF FeedSlice, TypeOK, SliceSize, PushedAfter, Realizable
  <1>2. p = LeftPad + received + (asked - todo) + SliceSize
    BY <1>1 DEF FeedSlice, TypeOK, PushedAfter, Credit, Consumed, Phase
  <1> HIDE DEF p, e
  <1>3. pushed' = p /\ emitted' = e
    BY DEF FeedSlice, EmitUpTo, p, e
  <1>4. encRing' \in [0 .. EncRing - 1 -> Rows]
    <2> DEFINE rows == [g \in emitted .. e - 1 |-> <<gen, g>>]
    <2>1. rows \in [emitted .. e - 1 -> Rows]
      <3>1. \A g \in emitted .. e - 1 : <<gen, g>> \in Rows
        <4> TAKE g \in emitted .. e - 1
        <4>1. g \in Nat /\ gen \in 0 .. MaxGen
          BY <1>1 DEF TypeOK
        <4> QED  BY <4>1 DEF Rows
      <3> QED  BY <3>1
    <2>2. encRing' = WriteRing(encRing, EncRing, emitted, e, rows)
      BY <1>3 DEF FeedSlice, EmitUpTo, p, e
    <2> HIDE DEF rows
    <2> QED  BY <1>1, <2>1, <2>2, WriteRingProperty DEF TypeOK
  <1>5. TypeOK'
    BY <1>1, <1>3, <1>4 DEF FeedSlice, TypeOK
  <1>6. Phase'
    BY <1>1 DEF TypeOK, FeedSlice, Phase, FeedAllowed
  <1>7. Reserve' /\ Held' /\ StepsOnce'
    BY DEF FeedSlice, Reserve, FeedAllowed, Bound, Held, StepsOnce
  <1>8. Credit'
    <2>1. Consumed' = (asked - todo) + SliceSize
      BY <1>1 DEF FeedSlice, Consumed, TypeOK
    <2> QED  BY <1>1, <1>2, <1>3, <2>1 DEF FeedSlice, Credit, TypeOK, Phase
  <1> QED  BY <1>5, <1>6, <1>7, <1>8

LEMMA FeedSliceFailsStep ==
    ASSUME IInv, FeedSliceFails
    PROVE  IInv'
  <1> USE StreamConstants
  <1>1. pushed' \in Nat
    BY DEF IInv, TypeOK, FeedSliceFails, SliceLost, SliceSize, PushedAfter
  <1> QED  BY <1>1, FailStreamStep DEF FeedSliceFails

LEMMA FeedPumpedStep ==
    ASSUME IInv, FeedPumped
    PROVE  IInv'
  <1> USE StreamConstants DEF IInv, eventVars, audioVars, decodeVars, clientVars
  <1>1. CASE outcome = "error"
    BY <1>1, FailStreamStep DEF FeedPumped, TypeOK
  <1>2. CASE outcome # "error"
    <2>0. full' \in BOOLEAN
      BY <1>2, Zenon DEF FeedPumped
    <2>1. TypeOK'
      BY <1>2, <2>0 DEF FeedPumped, TypeOK
    <2>2. Phase'
      BY <1>2 DEF FeedPumped, Phase, FeedAllowed
    <2>3. Reserve' /\ StepsOnce'
      BY <1>2 DEF FeedPumped, Reserve, FeedAllowed, Bound, StepsOnce
    <2>4. Held'
      <3>1. full' => pending.valid
        BY <1>2 DEF FeedPumped, Held
      <3> QED  BY <1>2, <3>1 DEF FeedPumped, Held
    <2>5. Credit'
      BY <1>2 DEF FeedPumped, Credit, Consumed, FeedAllowed
    <2> QED  BY <2>1, <2>2, <2>3, <2>4, <2>5
  <1> QED  BY <1>1, <1>2

LEMMA FeedReturnsStep ==
    ASSUME IInv, FeedReturns
    PROVE  IInv'
  <1> USE StreamConstants DEF IInv, decodeVars, clientVars
  <1>1. TypeOK'
    <2>1. received' = received + asked /\ state' = "running" /\ ~aggressive'
      BY DEF FeedReturns
    <2>2. received' \in Nat
      BY <2>1 DEF TypeOK
    <2>3. state' \in States /\ aggressive' \in BOOLEAN
      BY <2>1 DEF FeedReturns, States
    <2>4. /\ res' \in {"ok", "queue_full"}
          /\ pc' = "idle" /\ after' = "none" /\ outcome' = "ok"
          /\ asked' = 0 /\ todo' = 0 /\ full' = FALSE
      BY DEF FeedReturns, Return
    <2> QED  BY <2>2, <2>3, <2>4 DEF FeedReturns, TypeOK
  <1>2. Phase'
    BY DEF FeedReturns, Return, Phase, FeedAllowed
  <1>3. Reserve' /\ StepsOnce'
    BY DEF FeedReturns, Phase, Reserve, FeedAllowed, Bound, StepsOnce
  <1>4. Held'
    BY DEF FeedReturns, Return, Held
  <1>5. Credit'
    BY DEF FeedReturns, Return, Credit, Consumed, FeedAllowed, Phase, TypeOK
  <1> QED  BY <1>1, <1>2, <1>3, <1>4, <1>5

-----------------------------------------------------------------------------
(* pump_incremental                                                        *)

LEMMA PumpCommitStep ==
    ASSUME IInv, PumpCommit
    PROVE  IInv'
  <1> USE StreamConstants DEF IInv, eventVars, audioVars, callVars, clientVars
  <1> DEFINE c == IF Committable > committed THEN Committable ELSE committed
             rows == [g \in committed .. c - 1 |-> encRing[g % EncRing]]
  <1>1. Committable \in Nat /\ c \in Nat /\ PrefillLen \in Nat
    BY DEF TypeOK, Committable, PrefillLen
  <1>2. aemb' = WriteRing(aemb, AembRing, committed, c, rows)
    BY DEF PumpCommit
  <1>3. rows \in [committed .. c - 1 -> Rows]
    <2>1. ASSUME NEW g \in committed .. c - 1
          PROVE  encRing[g % EncRing] \in Rows
      <3>1. g \in Int
        BY <1>1 DEF TypeOK
      <3>2. g % EncRing \in 0 .. EncRing - 1
        BY <3>1, ModProperty
      <3> QED  BY <3>2 DEF TypeOK
    <2> QED  BY <2>1
  <1>4. committed' = c
    BY DEF PumpCommit
  <1> HIDE DEF c, rows
  <1>5. aemb' \in [0 .. AembRing - 1 -> Rows]
    BY <1>1, <1>2, <1>3, WriteRingProperty DEF TypeOK
  <1>6. /\ prefilled' \in BOOLEAN /\ position' \in {PrefillLen, position}
        /\ pc' = "flush" /\ pc = "pump" /\ (prefilled => prefilled')
    BY DEF PumpCommit, TypeOK
  <1>7. TypeOK'
    <2>1. position' \in Nat /\ committed' \in Nat
      BY <1>1, <1>4, <1>6 DEF TypeOK
    <2>2. UNCHANGED <<state, eventVars, audioVars, pending, eos, tokens,
                      seqno, steps, callVars, res, clientVars>>
      BY DEF PumpCommit
    <2> QED  BY <1>5, <1>6, <2>1, <2>2 DEF TypeOK
  <1>8. Phase' /\ Reserve' /\ StepsOnce'
    BY <1>6 DEF PumpCommit, Phase, FeedAllowed, Reserve, Bound, StepsOnce
  <1>9. Held' /\ Credit'
    BY <1>6 DEF PumpCommit, Held, Credit, Consumed, FeedAllowed
  <1> QED  BY <1>7, <1>8, <1>9

\* Delivering a token during a pump keeps the invariant, wherever the pump
\* goes next.
LEMMA DeliverStep ==
    ASSUME IInv, Len(queue) < Bound, prefilled,
           NEW t \in [valid : BOOLEAN, eos : BOOLEAN, row : Rows], Deliver(t),
           pc \in {"flush", "step"}, pc' = "step", backpressured' = FALSE,
           steps' = steps + (IF pending.valid THEN 0 ELSE 1),
           UNCHANGED <<state, finalizing, aggressive, audioVars, committed,
                       aemb, prefilled, callVars, res, clientVars>>
    PROVE  IInv'
  <1> USE StreamConstants DEF IInv, audioVars, callVars, clientVars
  <1>1. /\ queue' \in Seq(Events) /\ Len(queue') <= Bound
        /\ tokens' \in Seq(Rows) /\ position' \in Nat /\ eos' \in BOOLEAN
        /\ seqno' = seqno + 1 /\ pending' = NoToken
    BY DeliverProperty
  <1>2. NoToken \in [valid : BOOLEAN, eos : BOOLEAN, row : Rows] /\ ~NoToken.valid
    <2>1. NoRow \in Rows
      BY DEF NoRow, Rows
    <2> QED  BY <2>1 DEF NoToken
  <1>3. TypeOK'
    <2>1. pending' \in [valid : BOOLEAN, eos : BOOLEAN, row : Rows]
      BY <1>1, <1>2
    <2>2. seqno' \in Nat /\ steps' \in Nat
      BY <1>1 DEF TypeOK
    <2>3. backpressured' \in BOOLEAN
      OBVIOUS
    <2> QED  BY <1>1, <2>1, <2>2, <2>3 DEF TypeOK
  <1>4. Phase' /\ Reserve'
    BY <1>1 DEF Phase, FeedAllowed, Reserve, Bound
  <1>5. StepsOnce'
    BY <1>1, <1>2 DEF StepsOnce, TypeOK
  <1>6. Held' /\ Credit'
    BY <1>1, <1>2 DEF Held, Credit, Consumed, FeedAllowed
  <1> QED  BY <1>3, <1>4, <1>5, <1>6

\* Stashing a token stalls the stream and keeps the invariant.
LEMMA StashStep ==
    ASSUME IInv, prefilled, after # "none", ~full,
           NEW t \in [valid : BOOLEAN, eos : BOOLEAN, row : Rows], t.valid,
           Stash(t), pc \in {"flush", "step"},
           steps' = steps + (IF pending.valid THEN 0 ELSE 1),
           UNCHANGED <<state, finalizing, aggressive, audioVars, committed,
                       aemb, prefilled, after, asked, todo, full, res,
                       clientVars>>
    PROVE  IInv'
  <1> USE StreamConstants DEF IInv, audioVars, clientVars
  <1>1. TypeOK'
    BY DEF TypeOK, Stash
  <1>2. Phase' /\ Reserve'
    BY DEF Stash, Phase, FeedAllowed, Reserve, Bound
  <1>3. StepsOnce'
    BY DEF Stash, StepsOnce, TypeOK
  <1>4. Held' /\ Credit'
    BY DEF Stash, Held, Credit, Consumed, FeedAllowed
  <1> QED  BY <1>1, <1>2, <1>3, <1>4

LEMMA PumpFlushStep ==
    ASSUME IInv, PumpFlush
    PROVE  IInv'
  <1> USE StreamConstants DEF IInv, audioVars, callVars, clientVars
  <1>1. pending \in [valid : BOOLEAN, eos : BOOLEAN, row : Rows]
        /\ after # "none" /\ ~full /\ pc = "flush"
    BY DEF PumpFlush, TypeOK, Phase, Held
  <1>2. CASE prefilled /\ pending.valid /\ Len(queue) < Bound
    <2>1. /\ Deliver(pending) /\ backpressured' = FALSE /\ pc' = "step"
          /\ UNCHANGED outcome /\ steps' = steps
      BY <1>2 DEF PumpFlush
    <2>2. UNCHANGED <<state, finalizing, aggressive, audioVars, committed,
                      aemb, prefilled, callVars, res, clientVars>>
      BY <2>1 DEF PumpFlush
    <2>3. steps \in Nat
      BY DEF TypeOK
    <2>4. steps' = steps + (IF pending.valid THEN 0 ELSE 1)
      BY <1>2, <2>1, <2>3
    <2> HIDE DEF IInv, audioVars, callVars, clientVars
    <2> QED  BY <1>1, <1>2, <2>1, <2>2, <2>4, DeliverStep
  <1>3. CASE prefilled /\ pending.valid /\ ~(Len(queue) < Bound)
    <2>1. Stash(pending) /\ steps' = steps
      BY <1>3 DEF PumpFlush
    <2>2. UNCHANGED <<state, finalizing, aggressive, audioVars, committed,
                      aemb, prefilled, after, asked, todo, full, res,
                      clientVars>>
      BY DEF PumpFlush
    <2>3. steps \in Nat
      BY DEF TypeOK
    <2> QED  BY <1>1, <1>3, <2>1, <2>2, <2>3, StashStep
  <1>4. CASE ~(prefilled /\ pending.valid)
    <2>1. ~backpressured /\ ~pending.valid
      BY <1>4 DEF Held
    <2>2. /\ ~backpressured' /\ backpressured' \in BOOLEAN /\ pc' = "step"
          /\ UNCHANGED <<queue, pending, eos, tokens, position, seqno, outcome>>
      BY <1>4, <2>1 DEF PumpFlush
    <2>3. UNCHANGED <<state, finalizing, aggressive, audioVars, committed,
                      aemb, prefilled, steps, after, asked, todo, full, res,
                      clientVars>>
      BY DEF PumpFlush
    <2>4. TypeOK'
      BY <2>2, <2>3 DEF TypeOK
    <2>5. Phase' /\ Reserve' /\ StepsOnce'
      BY <1>1, <2>2, <2>3 DEF Phase, FeedAllowed, Reserve, Bound, StepsOnce
    <2>6. Held' /\ Credit'
      BY <1>1, <2>1, <2>2, <2>3 DEF Held, Credit, Consumed, FeedAllowed
    <2> QED  BY <2>4, <2>5, <2>6
  <1> QED  BY <1>2, <1>3, <1>4

LEMMA PumpStepStep ==
    ASSUME IInv, PumpStep
    PROVE  IInv'
  <1> USE StreamConstants DEF IInv
  <1>1. PICK e \in BOOLEAN :
          LET t == [valid |-> TRUE, eos |-> e, row |-> aemb[position % AembRing]]
          IN  IF Len(queue) < Bound
              THEN Deliver(t) /\ UNCHANGED <<backpressured, pc, outcome>>
              ELSE Stash(t)
    BY DEF PumpStep
  <1> DEFINE t == [valid |-> TRUE, eos |-> e, row |-> aemb[position % AembRing]]
  <1>2. t \in [valid : BOOLEAN, eos : BOOLEAN, row : Rows] /\ t.valid
    <2>1. position % AembRing \in 0 .. AembRing - 1
      BY ModProperty DEF TypeOK
    <2>2. aemb[position % AembRing] \in Rows
      BY <2>1 DEF TypeOK
    <2> QED  BY <2>2
  <1>3. /\ pc = "step" /\ prefilled /\ after # "none" /\ ~full
        /\ ~pending.valid /\ ~backpressured /\ backpressured \in BOOLEAN
    BY DEF PumpStep, StepReady, Phase, Held, TypeOK
  <1>4. /\ steps' = steps + 1
        /\ UNCHANGED <<state, finalizing, aggressive, audioVars, committed,
                       aemb, prefilled, after, asked, todo, full, res,
                       clientVars>>
    BY DEF PumpStep
  <1> HIDE DEF t
  <1>5. CASE Len(queue) < Bound
    <2>1. Deliver(t) /\ UNCHANGED <<backpressured, pc, outcome>>
      BY <1>1, <1>5 DEF t
    <2>2. UNCHANGED callVars /\ backpressured' = FALSE
      BY <1>3, <1>4, <2>1 DEF callVars
    <2> QED  BY <1>2, <1>3, <1>4, <1>5, <2>1, <2>2, DeliverStep
  <1>6. CASE ~(Len(queue) < Bound)
    <2>1. Stash(t)
      BY <1>1, <1>6 DEF t
    <2> QED  BY <1>2, <1>3, <1>4, <2>1, StashStep
  <1> QED  BY <1>5, <1>6

LEMMA PumpReturnsStep ==
    ASSUME IInv, PumpReturns \/ PumpFails
    PROVE  IInv'
  <1> USE StreamConstants DEF IInv, eventVars, audioVars, decodeVars, clientVars
  <1>1. /\ pc' = "pumped" /\ outcome' \in {"ok", "error"}
        /\ pc \in {"pump", "step"}
        /\ outcome' = "ok" => ~pending.valid
        /\ UNCHANGED <<state, eventVars, audioVars, decodeVars, after, asked,
                       todo, full, res, clientVars>>
    BY DEF PumpReturns, PumpFails, Held
  <1>2. TypeOK'
    BY <1>1 DEF TypeOK
  <1>3. Phase' /\ Reserve' /\ StepsOnce'
    BY <1>1 DEF Phase, FeedAllowed, Reserve, Bound, StepsOnce
  <1>4. Held' /\ Credit'
    BY <1>1 DEF Held, Credit, Consumed, FeedAllowed
  <1> QED  BY <1>2, <1>3, <1>4

-----------------------------------------------------------------------------
(* finish, cancel, reset, poll                                             *)

\* The two last events of a completed stream fit their type and the reserve.
LEMMA FinalAndCompletedProperty ==
    ASSUME NEW q \in Seq(Events), TypeOK
    PROVE  /\ FinalAndCompleted(q) \in Seq(Events)
           /\ Len(q) <= MaxEvents + Headroom =>
                 Len(FinalAndCompleted(q)) <= MaxEvents + Headroom
  <1> DEFINE bound == MaxEvents + Headroom
             final == Event("final", Len(tokens))
             completed == Event("completed", 0)
             q1 == PushMandatory(q, final, bound)
  <1>1. bound \in Int
    BY StreamConstants
  <1>2. final \in Events /\ completed \in Events
    BY EventType, LenProperties DEF EventTypes, TypeOK
  <1>3. FinalAndCompleted(q) = PushMandatory(q1, completed, bound)
    BY DEF FinalAndCompleted
  <1> HIDE DEF bound, final, completed
  <1>4. q1 \in Seq(Events) /\ (Len(q) <= bound => Len(q1) <= bound)
    BY <1>1, <1>2, PushMandatoryProperty
  <1> HIDE DEF q1
  <1>5. /\ PushMandatory(q1, completed, bound) \in Seq(Events)
        /\ Len(q1) <= bound =>
              Len(PushMandatory(q1, completed, bound)) <= bound
    BY <1>1, <1>2, <1>4, PushMandatoryProperty
  <1> QED  BY <1>3, <1>4, <1>5 DEF bound

\* finish() past its drain: an open stream that holds no token ends, or takes
\* the tail.
LEMMA EnterFinishingStep ==
    ASSUME IInv, EnterFinishing, FeedAllowed, pc \in {"idle", "pumped"},
           ~pending.valid, ~full, todo = 0,
           UNCHANGED <<decodeVars, clientVars>>,
           outcome # "queue_full"
    PROVE  IInv'
  <1> USE StreamConstants DEF IInv, decodeVars, clientVars
  <1>1. Len(queue) <= MaxEvents + Headroom
    BY DEF Reserve, Bound, TypeOK
  <1>2. CASE received = 0
    <2>1. /\ queue' = FinalAndCompleted(queue) /\ state' = "completed"
          /\ Return("ok") /\ finalizing' = TRUE
          /\ UNCHANGED <<backpressured, aggressive, pushed, emitted, encRing,
                         received>>
      BY <1>2 DEF EnterFinishing
    <2>2. queue' \in Seq(Events) /\ Len(queue') <= MaxEvents + Headroom
      BY <1>1, <2>1, FinalAndCompletedProperty DEF TypeOK
    <2>3. TypeOK'
      BY <2>1, <2>2 DEF TypeOK, Return, States
    <2>4. Phase' /\ Held' /\ StepsOnce' /\ Credit'
      BY <2>1 DEF Return, Phase, FeedAllowed, Held, StepsOnce, Credit
    <2>5. Reserve'
      BY <2>1, <2>2 DEF Reserve, FeedAllowed, Bound
    <2> QED  BY <2>3, <2>4, <2>5
  <1>3. CASE received # 0
    <2> DEFINE e == pushed + RightPad
               rows == [g \in emitted .. e - 1 |-> <<gen, g>>]
    <2>1. /\ state' = "finishing" /\ pushed' = e /\ EmitUpTo(e)
          /\ pc' = "pump" /\ after' = "tail" /\ finalizing' = TRUE
          /\ UNCHANGED <<backpressured, aggressive, received, queue, asked,
                         todo, full, outcome, res>>
      BY <1>3 DEF EnterFinishing, RunPump
    <2>2. e \in Nat
      BY DEF TypeOK
    <2>3. rows \in [emitted .. e - 1 -> Rows]
      <3>1. \A g \in emitted .. e - 1 : <<gen, g>> \in Rows
        <4> TAKE g \in emitted .. e - 1
        <4>1. g \in Nat /\ gen \in 0 .. MaxGen
          BY <2>2 DEF TypeOK
        <4> QED  BY <4>1 DEF Rows
      <3> QED  BY <3>1
    <2>4. emitted' = e /\ encRing' = WriteRing(encRing, EncRing, emitted, e, rows)
      BY <2>1 DEF EmitUpTo
    <2> HIDE DEF e, rows
    <2>5. encRing' \in [0 .. EncRing - 1 -> Rows]
      BY <2>2, <2>3, <2>4, WriteRingProperty DEF TypeOK
    <2>6. TypeOK'
      BY <2>1, <2>2, <2>4, <2>5 DEF TypeOK, States
    <2>7. Phase' /\ Held' /\ StepsOnce' /\ Credit'
      BY <2>1 DEF Phase, FeedAllowed, Held, StepsOnce, Credit, TypeOK
    <2>8. Reserve'
      BY <1>1, <2>1 DEF Reserve, FeedAllowed, Bound
    <2> QED  BY <2>6, <2>7, <2>8
  <1> QED  BY <1>2, <1>3

\* Returning without touching the stream.
LEMMA ReturnStep ==
    ASSUME IInv, NEW r \in {"ok", "queue_full", "invalid_state"}, Return(r),
           pc \in {"idle", "pumped"}, after \in {"none", "resume", "drain"},
           r = "queue_full" => pending.valid,
           UNCHANGED <<state, eventVars, audioVars, decodeVars, clientVars>>
    PROVE  IInv'
  <1> USE StreamConstants DEF IInv, eventVars, audioVars, decodeVars, clientVars
  <1>1. TypeOK'
    BY DEF TypeOK, Return
  <1>2. Phase' /\ Reserve' /\ StepsOnce'
    BY DEF Return, Phase, FeedAllowed, Reserve, Bound, StepsOnce
  <1>3. Held' /\ Credit'
    BY DEF Return, Phase, Held, Credit, Consumed, FeedAllowed
  <1> QED  BY <1>1, <1>2, <1>3

LEMMA CallFinishStep ==
    ASSUME IInv, CallFinish
    PROVE  IInv'
  <1> USE StreamConstants
  <1>1. /\ pc = "idle" /\ after = "none" /\ ~full /\ todo = 0
        /\ UNCHANGED <<decodeVars, clientVars>>
        /\ backpressured <=> pending.valid
        /\ outcome # "queue_full"
    BY DEF CallFinish, IInv, TypeOK, Phase, Held
  <1>2. CASE /\ state \notin {"created", "running"}
             /\ \/ Return("ok")
                \/ Return("invalid_state")
             /\ UNCHANGED <<state, eventVars, audioVars>>
    BY <1>1, <1>2, ReturnStep
  <1>3. CASE FeedAllowed /\ ~backpressured /\ EnterFinishing
    BY <1>1, <1>3, EnterFinishingStep DEF IInv, Phase
  <1>4. CASE /\ FeedAllowed /\ backpressured /\ RunPump("drain")
             /\ UNCHANGED <<state, eventVars, audioVars, asked, todo, full>>
    <2> USE DEF IInv, eventVars, audioVars, decodeVars, clientVars
    <2>1. TypeOK'
      BY <1>1, <1>4 DEF TypeOK, RunPump
    <2>2. Phase' /\ Reserve' /\ StepsOnce'
      BY <1>1, <1>4 DEF RunPump, Phase, FeedAllowed, Reserve, Bound, StepsOnce
    <2>3. Held' /\ Credit'
      BY <1>1, <1>4 DEF RunPump, Held, Credit, Consumed, FeedAllowed
    <2> QED  BY <2>1, <2>2, <2>3
  <1> QED  BY <1>2, <1>3, <1>4 DEF CallFinish, FeedAllowed

LEMMA FinishDrainedStep ==
    ASSUME IInv, FinishDrained
    PROVE  IInv'
  <1> USE StreamConstants
  <1>1. /\ pc = "pumped" /\ after = "drain" /\ FeedAllowed /\ ~full
        /\ todo = 0 /\ UNCHANGED clientVars
        /\ outcome = "ok" => ~pending.valid
        /\ outcome = "queue_full" => pending.valid
    BY DEF FinishDrained, IInv, TypeOK, Phase, Held
  <1>2. CASE outcome = "ok"
    BY <1>1, <1>2, EnterFinishingStep DEF FinishDrained
  <1>3. CASE outcome = "queue_full"
    BY <1>1, <1>3, ReturnStep DEF FinishDrained
  <1>4. CASE outcome = "error"
    <2>1. FailStream /\ UNCHANGED <<audioVars, decodeVars>>
      BY <1>4 DEF FinishDrained
    <2>2. pushed' \in Nat
      BY <2>1 DEF IInv, TypeOK, audioVars
    <2> QED  BY <1>1, <2>1, <2>2, FailStreamStep DEF audioVars
  <1> QED  BY <1>2, <1>3, <1>4 DEF FinishDrained

LEMMA FinishReturnsStep ==
    ASSUME IInv, FinishReturns
    PROVE  IInv'
  <1> USE StreamConstants DEF IInv, audioVars, decodeVars, clientVars
  <1>1. CASE outcome # "ok"
    BY <1>1, FailStreamStep DEF FinishReturns, TypeOK
  <1>2. CASE outcome = "ok"
    <2>1. /\ queue' = FinalAndCompleted(queue) /\ state' = "completed"
          /\ Return("ok") /\ pc = "pumped" /\ state = "finishing"
          /\ UNCHANGED <<finalizing, backpressured, aggressive>>
          /\ UNCHANGED <<audioVars, decodeVars, clientVars>>
      BY <1>2 DEF FinishReturns, Phase
    <2>2. finalizing /\ Len(queue) <= MaxEvents + Headroom
      BY <2>1 DEF Reserve, Bound, TypeOK, FeedAllowed
    <2>3. queue' \in Seq(Events) /\ Len(queue') <= MaxEvents + Headroom
      BY <2>1, <2>2, FinalAndCompletedProperty DEF TypeOK
    <2>4. TypeOK'
      BY <2>1, <2>3 DEF TypeOK, Return, States
    <2>5. Phase' /\ Held' /\ StepsOnce' /\ Credit'
      BY <2>1 DEF Return, Phase, FeedAllowed, Held, StepsOnce, Credit
    <2>6. Reserve'
      BY <2>1, <2>2, <2>3 DEF Reserve, FeedAllowed, Bound
    <2> QED  BY <2>4, <2>5, <2>6
  <1> QED  BY <1>1, <1>2

LEMMA CallCancelStep ==
    ASSUME IInv, CallCancel
    PROVE  IInv'
  <1> USE StreamConstants
  <1>1. /\ pc = "idle" /\ after = "none"
        /\ UNCHANGED <<backpressured, aggressive, audioVars, decodeVars,
                       clientVars>>
    BY DEF CallCancel, IInv, Phase
  <1>2. CASE /\ Return("ok") \/ Return("invalid_state")
             /\ UNCHANGED <<state, queue, finalizing>>
    BY <1>1, <1>2, ReturnStep DEF eventVars
  <1>3. CASE FeedAllowed /\ finalizing'
    <2> USE DEF IInv, audioVars, decodeVars, clientVars
    <2> DEFINE e == Event("cancelled", 0)
    <2>1. /\ finalizing' = TRUE /\ state' = "cancelled" /\ Return("ok")
          /\ queue' = PushMandatory(queue, e, MaxEvents + Headroom)
      BY <1>3 DEF CallCancel, FeedAllowed, Reserve
    <2>2. Len(queue) <= MaxEvents + Headroom
      BY DEF Reserve, Bound, TypeOK
    <2>3. e \in Events
      BY EventType DEF EventTypes
    <2> HIDE DEF e
    <2>4. queue' \in Seq(Events) /\ Len(queue') <= MaxEvents + Headroom
      BY <2>1, <2>2, <2>3, PushMandatoryProperty DEF TypeOK
    <2>5. TypeOK'
      BY <1>1, <2>1, <2>4 DEF TypeOK, Return, States
    <2>6. Phase' /\ Held' /\ StepsOnce' /\ Credit'
      BY <1>1, <2>1 DEF Return, Phase, FeedAllowed, Held, StepsOnce, Credit
    <2>7. Reserve'
      BY <2>1, <2>4 DEF Reserve, FeedAllowed, Bound
    <2> QED  BY <2>5, <2>6, <2>7
  <1> QED  BY <1>2, <1>3 DEF CallCancel

\* A fresh generation starts with the invariant, whatever came before.
LEMMA FreshStreamStep ==
    ASSUME IInv, gen < MaxGen, FreshStream, gen' = gen + 1, Return("ok")
    PROVE  IInv'
  <1> USE StreamConstants DEF IInv, FreshStream, FreshDecoder, Return
  <1>1. NoToken \in [valid : BOOLEAN, eos : BOOLEAN, row : Rows] /\ ~NoToken.valid
    <2>1. NoRow \in Rows
      BY DEF NoRow, Rows
    <2> QED  BY <2>1 DEF NoToken
  <1>2. TypeOK'
    <2>1. gen' \in 1 .. MaxGen
      BY DEF TypeOK
    <2>2. queue' \in Seq(Events) /\ delivered' \in Seq(Events)
          /\ tokens' \in Seq(Rows)
      OBVIOUS
    <2>3. state' \in States /\ pending' \in [valid : BOOLEAN, eos : BOOLEAN, row : Rows]
      BY <1>1 DEF States
    <2> QED  BY <2>1, <2>2, <2>3 DEF TypeOK
  <1>3. Phase' /\ Held' /\ StepsOnce' /\ Credit'
    BY <1>1 DEF Phase, FeedAllowed, Held, StepsOnce, Credit, Consumed
  <1>4. Reserve'
    BY DEF Reserve, FeedAllowed, Bound
  <1> QED  BY <1>2, <1>3, <1>4

LEMMA CallResetStep ==
    ASSUME IInv, CallReset \/ Recreate
    PROVE  IInv'
  <1>1. CASE FreshStream /\ gen' = gen + 1 /\ Return("ok")
    BY <1>1, FreshStreamStep DEF CallReset, Recreate
  <1>2. CASE /\ pc = "idle" /\ Return("invalid_state")
             /\ UNCHANGED <<state, eventVars, audioVars, decodeVars, clientVars>>
    <2>1. after = "none"
      BY <1>2 DEF IInv, Phase
    <2> QED  BY <1>2, <2>1, ReturnStep
  <1> QED  BY <1>1, <1>2 DEF CallReset, Recreate

LEMMA PollStep ==
    ASSUME IInv, Poll
    PROVE  IInv'
  <1> USE StreamConstants DEF IInv, audioVars, decodeVars, callVars
  <1>1. queue \in Seq(Events) /\ queue # <<>> /\ delivered \in Seq(Events)
    BY DEF Poll, TypeOK
  <1>2. Tail(queue) \in Seq(Events) /\ Len(Tail(queue)) = Len(queue) - 1
    BY <1>1, HeadTailProperties
  <1>3. Append(delivered, Head(queue)) \in Seq(Events)
    BY <1>1, HeadTailProperties, AppendProperties
  <1>4. TypeOK'
    BY <1>2, <1>3 DEF Poll, TypeOK
  <1>5. Phase' /\ Held' /\ StepsOnce' /\ Credit'
    BY DEF Poll, Phase, FeedAllowed, Held, StepsOnce, Credit, Consumed
  <1>6. Reserve'
    <2>1. Len(queue) \in Nat /\ Bound \in Int
      BY DEF Bound, TypeOK
    <2>2. Bound' = Bound /\ queue' = Tail(queue)
      BY DEF Poll, Bound
    <2> QED  BY <1>2, <2>1, <2>2 DEF Poll, Reserve, FeedAllowed
  <1> QED  BY <1>4, <1>5, <1>6

-----------------------------------------------------------------------------
(* The invariant is inductive.                                             *)

LEMMA NextIInv ==
    ASSUME IInv, [Next]_vars
    PROVE  IInv'
  <1>1. CASE UNCHANGED vars
    <2> USE <1>1 DEF IInv, vars, eventVars, audioVars, decodeVars, callVars,
                     clientVars
    <2>1. TypeOK'
      BY DEF TypeOK
    <2>2. Phase' /\ Reserve' /\ Held'
      BY DEF Phase, FeedAllowed, Reserve, Bound, Held
    <2>3. StepsOnce' /\ Credit'
      BY DEF StepsOnce, Credit, Consumed, FeedAllowed
    <2> QED  BY <2>1, <2>2, <2>3
  <1>2. CASE Runtime
    <2>1. CASE FeedResumed
      BY <2>1, FeedResumedStep
    <2>2. CASE FeedSlice \/ FeedSliceFails
      BY <2>2, FeedSliceStep, FeedSliceFailsStep
    <2>3. CASE FeedPumped \/ FeedReturns
      BY <2>3, FeedPumpedStep, FeedReturnsStep
    <2>4. CASE Pump
      BY <2>4, PumpCommitStep, PumpFlushStep, PumpStepStep, PumpReturnsStep
         DEF Pump
    <2>5. CASE FinishDrained \/ FinishReturns
      BY <2>5, FinishDrainedStep, FinishReturnsStep
    <2> QED  BY <1>2, <2>1, <2>2, <2>3, <2>4, <2>5 DEF Runtime
  <1>3. CASE Client
    <2>1. CASE \E n \in FeedSizes : CallFeed(n)
      BY <2>1, CallFeedStep, StreamConstants
    <2>2. CASE CallFinish \/ CallCancel
      BY <2>2, CallFinishStep, CallCancelStep
    <2>3. CASE CallReset \/ Recreate
      BY <2>3, CallResetStep
    <2>4. CASE Poll
      BY <2>4, PollStep
    <2> QED  BY <1>3, <2>1, <2>2, <2>3, <2>4 DEF Client
  <1> QED  BY <1>1, <1>2, <1>3 DEF Next

\* Every reachable state of the streaming runtime satisfies the inductive
\* invariant IInv, whatever its capacities, pads and rings.
THEOREM Inductive == Spec => []IInv
  BY InitIInv, NextIInv, PTL DEF Spec

\* Every variable keeps its type: in particular the rings are never written
\* outside their slots (copy_chunk_to_enc_out_ring, adapter_commit).
THEOREM TypeCorrect == Spec => []TypeOK
  <1>1. IInv => TypeOK
    BY DEF IInv
  <1> QED  BY <1>1, Inductive, PTL

\* A stream that still accepts audio keeps within event_queue_capacity, and
\* the terminal reserve is all a finishing or ended one may add (push_event,
\* push_event_coalesced, emit_final_and_completed).
THEOREM QueueStaysBounded == Spec => []QueueBounded
  <1>1. IInv => QueueBounded
    BY StreamConstants DEF IInv, Reserve, Bound, QueueBounded
  <1> QED  BY <1>1, Inductive, PTL

\* No decoder step is repeated after a stall and none is lost
\* (flush_pending_token, pump_incremental).
THEOREM EveryStepOnce == Spec => []StepsOnce
  <1>1. IInv => StepsOnce
    BY DEF IInv
  <1> QED  BY <1>1, Inductive, PTL

\* QUEUE_FULL is answered only by a stream that holds a token to deliver, and
\* such a stream always reports its backpressure (feed_common, finish).
THEOREM StalledStreamHoldsToken == Spec => []StallHoldsToken
  <1>1. IInv => StallHoldsToken
    BY DEF IInv, Held, StallHoldsToken
  <1> QED  BY <1>1, Inductive, PTL

\* The audio an open stream consumed between calls is the audio the client
\* was credited with, so a retry after any status is exact (feed_common).
THEOREM RetryStaysExact == Spec => []RetryIsExact
  <1>1. ASSUME IInv, pc = "idle", FeedAllowed
        PROVE  pushed = IF received = 0 THEN 0 ELSE LeftPad + received
    <2>1. Consumed = 0
      BY <1>1 DEF IInv, Phase, Consumed
    <2>2. received \in Nat /\ LeftPad \in Nat
      BY <1>1, StreamConstants DEF IInv, TypeOK
    <2>3. pushed = IF received + 0 = 0 THEN 0 ELSE LeftPad + received + 0
      BY <1>1, <2>1 DEF IInv, Credit
    <2> QED  BY <2>2, <2>3
  <1>2. IInv => RetryIsExact
    BY <1>1 DEF RetryIsExact
  <1> QED  BY <1>2, Inductive, PTL
-----------------------------------------------------------------------------
(* The order of the events.                                                *)

\* A log of n TOKEN events, and of snapshots of at most m tokens.
InOrder(s, n, m) ==
    /\ \A k \in 1 .. n : \E i \in DOMAIN s : s[i] = Event("token", k)
    /\ \A i \in DOMAIN s : s[i].type = "token" => s[i].n \in 1 .. n
    /\ Increasing(s, "token") /\ Increasing(s, "partial")
    /\ \A i \in DOMAIN s : s[i].type = "partial" => s[i].n <= m

\* What appending does.
LEMMA Appended ==
    ASSUME NEW E, NEW s \in Seq(E), NEW e \in E
    PROVE  /\ Append(s, e) \in Seq(E)
           /\ DOMAIN s = 1 .. Len(s) /\ DOMAIN Append(s, e) = 1 .. Len(s) + 1
           /\ Len(s) \in Nat /\ Len(Append(s, e)) = Len(s) + 1
           /\ Append(s, e)[Len(s) + 1] = e
           /\ \A i \in 1 .. Len(s) : Append(s, e)[i] = s[i]
  OBVIOUS

\* What removing does: the rest moves up.
LEMMA Removed ==
    ASSUME NEW E, NEW s \in Seq(E), NEW x \in 1 .. Len(s)
    PROVE  /\ RemoveAt(s, x) \in Seq(E)
           /\ DOMAIN s = 1 .. Len(s) /\ DOMAIN RemoveAt(s, x) = 1 .. Len(s) - 1
           /\ Len(s) \in Nat /\ Len(RemoveAt(s, x)) = Len(s) - 1
           /\ \A i \in 1 .. Len(s) - 1 :
                  RemoveAt(s, x)[i] = IF i < x THEN s[i] ELSE s[i + 1]
  <1> DEFINE a == SubSeq(s, 1, x - 1)
             b == SubSeq(s, x + 1, Len(s))
  <1>0. Len(s) \in Nat /\ \A j \in 1 .. Len(s) : s[j] \in E
    BY LenProperties, ElementOfSeq
  <1>1. a \in Seq(E) /\ Len(a) = x - 1 /\ \A i \in 1 .. x - 1 : a[i] = s[i]
    <2>1. \A i \in 1 .. x - 1 : s[i] \in E
      BY <1>0
    <2>2. /\ a \in Seq(E) /\ Len(a) = IF 1 <= x - 1 THEN x - 1 - 1 + 1 ELSE 0
          /\ \A i \in 1 .. x - 1 - 1 + 1 : a[i] = s[1 + i - 1]
      BY <2>1, SubSeqProperties
    <2> HIDE DEF a
    <2> QED  BY <1>0, <2>2
  <1>2. /\ b \in Seq(E) /\ Len(b) = Len(s) - x
        /\ \A i \in 1 .. Len(s) - x : b[i] = s[x + i]
    <2>1. \A i \in x + 1 .. Len(s) : s[i] \in E
      BY <1>0
    <2>2. /\ b \in Seq(E) /\ Len(b) = IF x + 1 <= Len(s) THEN Len(s) - (x + 1) + 1 ELSE 0
          /\ \A i \in 1 .. Len(s) - (x + 1) + 1 : b[i] = s[x + 1 + i - 1]
      BY <1>0, <2>1, SubSeqProperties
    <2> HIDE DEF b
    <2> QED  BY <1>0, <2>2
  <1>3. RemoveAt(s, x) = a \o b
    BY DEF RemoveAt
  <1> HIDE DEF a, b
  <1>4. /\ a \o b \in Seq(E) /\ Len(a \o b) = Len(a) + Len(b)
        /\ \A i \in 1 .. Len(a) + Len(b) :
               (a \o b)[i] = IF i <= Len(a) THEN a[i] ELSE b[i - Len(a)]
    BY <1>1, <1>2, ConcatProperties
  <1>5. Len(a) + Len(b) = Len(s) - 1
    BY <1>0, <1>1, <1>2
  <1>6. ASSUME NEW i \in 1 .. Len(s) - 1
        PROVE  (a \o b)[i] = IF i < x THEN s[i] ELSE s[i + 1]
    <2>1. (a \o b)[i] = IF i <= x - 1 THEN a[i] ELSE b[i - (x - 1)]
      BY <1>1, <1>4, <1>5
    <2>2. CASE i < x
      BY <1>0, <1>1, <2>1, <2>2
    <2>3. CASE ~(i < x)
      <3>1. i - (x - 1) \in 1 .. Len(s) - x /\ x + (i - (x - 1)) = i + 1
        BY <1>0, <2>3
      <3>2. b[i - (x - 1)] = s[i + 1]
        BY <1>2, <3>1
      <3> QED  BY <1>0, <2>1, <2>3, <3>2
    <2> QED  BY <2>2, <2>3
  <1> DEFINE r == RemoveAt(s, x)
  <1>7. r = a \o b
    BY <1>3
  <1> HIDE DEF r
  <1>8. r \in Seq(E) /\ Len(r) = Len(s) - 1
    BY <1>4, <1>5, <1>7
  <1>9. DOMAIN s = 1 .. Len(s) /\ DOMAIN r = 1 .. Len(s) - 1
    BY <1>8, LenProperties
  <1> QED  BY <1>0, <1>6, <1>7, <1>8, <1>9 DEF r

\* Appending keeps a log in order.
LEMMA OrderToken ==
    ASSUME NEW s \in Seq(Events), NEW n \in Nat, NEW m \in Nat, InOrder(s, n, m)
    PROVE  InOrder(Append(s, Event("token", n + 1)), n + 1, m)
  <1> DEFINE e == Event("token", n + 1)
             t == Append(s, e)
  <1>1. e \in Events /\ e.type = "token" /\ e.n = n + 1
    BY DEF Event, Events, EventTypes
  <1>2. /\ DOMAIN s = 1 .. Len(s) /\ DOMAIN t = 1 .. Len(s) + 1 /\ Len(s) \in Nat
        /\ t[Len(s) + 1] = e /\ \A i \in 1 .. Len(s) : t[i] = s[i]
    BY <1>1, Appended
  <1>3. \A i \in 1 .. Len(s) : s[i] \in Events
    BY ElementOfSeq
  <1> HIDE DEF t
  <1>4. \A k \in 1 .. n + 1 : \E i \in DOMAIN t : t[i] = Event("token", k)
    <2> TAKE k \in 1 .. n + 1
    <2>1. CASE k = n + 1
      BY <1>2, <2>1
    <2>2. CASE k # n + 1
      <3>1. PICK i \in DOMAIN s : s[i] = Event("token", k)
        BY <2>2 DEF InOrder
      <3> QED  BY <1>2, <3>1
    <2> QED  BY <2>1, <2>2
  <1> HIDE DEF e
  <1>5. \A i \in DOMAIN t : t[i].type = "token" => t[i].n \in 1 .. n + 1
    <2> TAKE i \in DOMAIN t
    <2>1. CASE i = Len(s) + 1
      BY <1>1, <1>2, <2>1
    <2>2. CASE i # Len(s) + 1
      <3>1. i \in DOMAIN s /\ t[i] = s[i]
        BY <1>2, <2>2
      <3> QED  BY <3>1 DEF InOrder
    <2> QED  BY <2>1, <2>2
  <1>6. Increasing(t, "token") /\ Increasing(t, "partial")
    <2> SUFFICES ASSUME NEW i \in DOMAIN t, NEW j \in DOMAIN t, i < j, t[i].type = t[j].type,
                        t[i].type \in {"token", "partial"}
                 PROVE  t[i].n < t[j].n
      BY DEF Increasing
    <2>1. i \in 1 .. Len(s) /\ t[i] = s[i] /\ i \in DOMAIN s
      BY <1>2
    <2>2. CASE j = Len(s) + 1
      <3>1. s[i].type = "token" /\ t[j].n = n + 1
        BY <1>1, <1>2, <2>1, <2>2
      <3>2. s[i].n \in 1 .. n
        BY <2>1, <3>1 DEF InOrder
      <3> QED  BY <2>1, <3>1, <3>2
    <2>3. CASE j # Len(s) + 1
      <3>1. j \in DOMAIN s /\ t[j] = s[j]
        BY <1>2, <2>3
      <3> QED  BY <2>1, <3>1 DEF InOrder, Increasing
    <2> QED  BY <2>2, <2>3
  <1>7. \A i \in DOMAIN t : t[i].type = "partial" => t[i].n <= m
    <2> TAKE i \in DOMAIN t
    <2>1. CASE i = Len(s) + 1
      BY <1>1, <1>2, <2>1
    <2>2. CASE i # Len(s) + 1
      <3>1. i \in DOMAIN s /\ t[i] = s[i]
        BY <1>2, <2>2
      <3> QED  BY <3>1 DEF InOrder
    <2> QED  BY <2>1, <2>2
  <1> QED  BY <1>4, <1>5, <1>6, <1>7 DEF InOrder, t, e

LEMMA OrderPartial ==
    ASSUME NEW s \in Seq(Events), NEW n \in Nat, NEW m \in Nat, InOrder(s, n, m)
    PROVE  InOrder(Append(s, Event("partial", m + 1)), n, m + 1)
  <1> DEFINE e == Event("partial", m + 1)
             t == Append(s, e)
  <1>1. e \in Events /\ e.type = "partial" /\ e.n = m + 1
    BY DEF Event, Events, EventTypes
  <1>2. /\ DOMAIN s = 1 .. Len(s) /\ DOMAIN t = 1 .. Len(s) + 1 /\ Len(s) \in Nat
        /\ t[Len(s) + 1] = e /\ \A i \in 1 .. Len(s) : t[i] = s[i]
    BY <1>1, Appended
  <1>3. \A i \in 1 .. Len(s) : s[i] \in Events /\ s[i].n \in Nat
    <2>1. \A i \in 1 .. Len(s) : s[i] \in Events
      BY ElementOfSeq
    <2> QED  BY <2>1 DEF Events
  <1> HIDE DEF t, e
  <1>4. \A k \in 1 .. n : \E i \in DOMAIN t : t[i] = Event("token", k)
    <2> TAKE k \in 1 .. n
    <2>1. PICK i \in DOMAIN s : s[i] = Event("token", k)
      BY DEF InOrder
    <2> QED  BY <1>2, <2>1
  <1>5. ASSUME NEW i \in DOMAIN t
        PROVE  /\ t[i].type = "token" => t[i].n \in 1 .. n
               /\ t[i].type = "partial" => t[i].n <= m + 1
    <2>1. CASE i = Len(s) + 1
      BY <1>1, <1>2, <2>1
    <2>2. CASE i # Len(s) + 1
      <3>1. i \in DOMAIN s /\ t[i] = s[i] /\ s[i].n \in Nat
        BY <1>2, <1>3, <2>2
      <3>2. s[i].type = "partial" => s[i].n <= m
        BY <3>1 DEF InOrder
      <3> QED  BY <3>1, <3>2 DEF InOrder
    <2> QED  BY <2>1, <2>2
  <1>6. Increasing(t, "token") /\ Increasing(t, "partial")
    <2> SUFFICES ASSUME NEW i \in DOMAIN t, NEW j \in DOMAIN t, i < j, t[i].type = t[j].type,
                        t[i].type \in {"token", "partial"}
                 PROVE  t[i].n < t[j].n
      BY DEF Increasing
    <2>1. i \in 1 .. Len(s) /\ t[i] = s[i] /\ i \in DOMAIN s
      BY <1>2
    <2>2. CASE j = Len(s) + 1
      <3>1. s[i].type = "partial" /\ t[j].n = m + 1 /\ s[i].n \in Nat
        BY <1>1, <1>2, <1>3, <2>1, <2>2
      <3>2. s[i].n <= m
        BY <2>1, <3>1 DEF InOrder
      <3> QED  BY <2>1, <3>1, <3>2
    <2>3. CASE j # Len(s) + 1
      <3>1. j \in DOMAIN s /\ t[j] = s[j]
        BY <1>2, <2>3
      <3> QED  BY <2>1, <3>1 DEF InOrder, Increasing
    <2> QED  BY <2>2, <2>3
  <1> QED  BY <1>4, <1>5, <1>6 DEF InOrder, t, e

LEMMA OrderOther ==
    ASSUME NEW s \in Seq(Events), NEW n \in Nat, NEW m \in Nat, InOrder(s, n, m),
           NEW e \in Events, e.type \notin {"token", "partial"}
    PROVE  InOrder(Append(s, e), n, m)
  <1> DEFINE t == Append(s, e)
  <1>2. /\ DOMAIN s = 1 .. Len(s) /\ DOMAIN t = 1 .. Len(s) + 1 /\ Len(s) \in Nat
        /\ t[Len(s) + 1] = e /\ \A i \in 1 .. Len(s) : t[i] = s[i]
    BY Appended
  <1> HIDE DEF t
  <1>3. \A i \in DOMAIN t : t[i].type \in {"token", "partial"} => i \in DOMAIN s /\ t[i] = s[i]
    BY <1>2
  <1>4. \A k \in 1 .. n : \E i \in DOMAIN t : t[i] = Event("token", k)
    <2> TAKE k \in 1 .. n
    <2>1. PICK i \in DOMAIN s : s[i] = Event("token", k)
      BY DEF InOrder
    <2> QED  BY <1>2, <2>1
  <1> QED  BY <1>3, <1>4 DEF InOrder, Increasing, t

\* So does dropping a snapshot, or putting a newer one in the last one's place.
LEMMA OrderRemove ==
    ASSUME NEW s \in Seq(Events), NEW n \in Nat, NEW m \in Nat, InOrder(s, n, m),
           NEW x \in 1 .. Len(s), s[x].type = "partial"
    PROVE  InOrder(RemoveAt(s, x), n, m)
  <1> DEFINE t == RemoveAt(s, x)
             old(i) == IF i < x THEN i ELSE i + 1
  <1>1. /\ DOMAIN s = 1 .. Len(s) /\ DOMAIN t = 1 .. Len(s) - 1 /\ Len(s) \in Nat
        /\ \A i \in 1 .. Len(s) - 1 : t[i] = IF i < x THEN s[i] ELSE s[i + 1]
    BY Removed
  <1> HIDE DEF t
  <1>2. \A i \in DOMAIN t : old(i) \in DOMAIN s /\ t[i] = s[old(i)]
    BY <1>1
  <1>3. \A i, j \in DOMAIN t : i < j => old(i) < old(j)
    BY <1>1
  <1>4. \A k \in 1 .. n : \E i \in DOMAIN t : t[i] = Event("token", k)
    <2> TAKE k \in 1 .. n
    <2>1. PICK i \in DOMAIN s : s[i] = Event("token", k)
      BY DEF InOrder
    <2>2. i # x
      BY <2>1 DEF Event
    <2>3. CASE i < x
      <3>1. i \in DOMAIN t /\ t[i] = s[i]
        BY <1>1, <2>3
      <3> QED  BY <2>1, <3>1
    <2>4. CASE i > x
      <3>1. i - 1 \in DOMAIN t /\ ~(i - 1 < x) /\ (i - 1) + 1 = i
        BY <1>1, <2>4
      <3>2. t[i - 1] = s[i]
        BY <1>1, <3>1
      <3> QED  BY <2>1, <3>1, <3>2
    <2> QED  BY <1>1, <2>2, <2>3, <2>4
  <1> HIDE DEF old
  <1>5. Increasing(t, "token") /\ Increasing(t, "partial")
    BY <1>2, <1>3 DEF InOrder, Increasing
  <1> QED  BY <1>2, <1>4, <1>5 DEF InOrder, t

LEMMA OrderReplace ==
    ASSUME NEW s \in Seq(Events), NEW n \in Nat, NEW m \in Nat, InOrder(s, n, m),
           NEW x \in 1 .. Len(s), s[x].type = "partial",
           \A j \in 1 .. Len(s) : s[j].type = "partial" => j <= x
    PROVE  InOrder(ReplaceAt(s, x, Event("partial", m + 1)), n, m + 1)
  <1> DEFINE e == Event("partial", m + 1)
             t == ReplaceAt(s, x, e)
  <1>1. e \in Events /\ e.type = "partial" /\ e.n = m + 1
    BY DEF Event, Events, EventTypes
  <1>2. /\ DOMAIN s = 1 .. Len(s) /\ DOMAIN t = 1 .. Len(s) /\ Len(s) \in Nat
        /\ \A i \in 1 .. Len(s) : t[i] = IF i = x THEN e ELSE s[i]
    BY <1>1, LenProperties, ExceptSeq DEF ReplaceAt
  <1>3. \A i \in 1 .. Len(s) : s[i] \in Events /\ s[i].n \in Nat
    <2>1. \A i \in 1 .. Len(s) : s[i] \in Events
      BY ElementOfSeq
    <2> QED  BY <2>1 DEF Events
  <1> HIDE DEF t, e
  <1>4. \A k \in 1 .. n : \E i \in DOMAIN t : t[i] = Event("token", k)
    <2> TAKE k \in 1 .. n
    <2>1. PICK i \in DOMAIN s : s[i] = Event("token", k)
      BY DEF InOrder
    <2>2. i # x
      BY <2>1 DEF Event
    <2> QED  BY <1>2, <2>1, <2>2
  <1>5. ASSUME NEW i \in DOMAIN t
        PROVE  /\ t[i].type = "token" => t[i].n \in 1 .. n
               /\ t[i].type = "partial" => t[i].n <= m + 1
    <2>1. CASE i = x
      BY <1>1, <1>2, <2>1
    <2>2. CASE i # x
      <3>1. i \in DOMAIN s /\ t[i] = s[i] /\ s[i].n \in Nat
        BY <1>2, <1>3, <2>2
      <3>2. s[i].type = "partial" => s[i].n <= m
        BY <3>1 DEF InOrder
      <3> QED  BY <3>1, <3>2 DEF InOrder
    <2> QED  BY <2>1, <2>2
  <1>6. Increasing(t, "token") /\ Increasing(t, "partial")
    <2> SUFFICES ASSUME NEW i \in DOMAIN t, NEW j \in DOMAIN t, i < j, t[i].type = t[j].type,
                        t[i].type \in {"token", "partial"}
                 PROVE  t[i].n < t[j].n
      BY DEF Increasing
    <2>0. i \in DOMAIN s /\ j \in DOMAIN s /\ i \in 1 .. Len(s) /\ j \in 1 .. Len(s)
      BY <1>2
    <2>1. CASE j = x
      <3>1. t[i] = s[i] /\ s[i].type = "partial" /\ t[j].n = m + 1 /\ s[i].n \in Nat
        BY <1>1, <1>2, <1>3, <2>0, <2>1
      <3>2. s[i].n <= m
        BY <2>0, <3>1 DEF InOrder
      <3> QED  BY <3>1, <3>2
    <2>2. CASE i = x
      <3>1. t[j] = s[j] /\ s[j].type = "partial"
        BY <1>1, <1>2, <2>0, <2>2
      <3> QED  BY <2>0, <2>2, <3>1
    <2>3. CASE i # x /\ j # x
      <3>1. t[i] = s[i] /\ t[j] = s[j]
        BY <1>2, <2>0, <2>3
      <3> QED  BY <2>0, <3>1 DEF InOrder, Increasing
    <2> QED  BY <2>1, <2>2, <2>3
  <1> QED  BY <1>4, <1>5, <1>6 DEF InOrder, t, e

\* The log is what was delivered, then the queue: a step on the queue is the
\* same step on the log.
LEMMA LogAppend ==
    ASSUME NEW E, NEW d \in Seq(E), NEW q \in Seq(E), NEW e \in E
    PROVE  d \o Append(q, e) = Append(d \o q, e)
  <1> DEFINE r == Append(q, e)
             a == d \o r
             b == Append(d \o q, e)
  <1>1. /\ d \o q \in Seq(E) /\ Len(d \o q) = Len(d) + Len(q)
        /\ \A i \in 1 .. Len(d) + Len(q) : (d \o q)[i] = IF i <= Len(d) THEN d[i] ELSE q[i - Len(d)]
    BY ConcatProperties
  <1>2. r \in Seq(E) /\ Len(r) = Len(q) + 1 /\ r[Len(q) + 1] = e
        /\ \A i \in 1 .. Len(q) : r[i] = q[i]
    BY Appended
  <1> HIDE DEF r
  <1>3. /\ a \in Seq(E) /\ Len(a) = Len(d) + (Len(q) + 1)
        /\ \A i \in 1 .. Len(d) + (Len(q) + 1) :
               a[i] = IF i <= Len(d) THEN d[i] ELSE r[i - Len(d)]
    <2>1. /\ a \in Seq(E) /\ Len(a) = Len(d) + Len(r)
          /\ \A i \in 1 .. Len(d) + Len(r) : a[i] = IF i <= Len(d) THEN d[i] ELSE r[i - Len(d)]
      BY <1>2, ConcatProperties
    <2> HIDE DEF a
    <2> QED  BY <1>2, <2>1
  <1>4. /\ b \in Seq(E) /\ Len(b) = Len(d) + Len(q) + 1 /\ b[Len(d) + Len(q) + 1] = e
        /\ \A i \in 1 .. Len(d) + Len(q) : b[i] = (d \o q)[i]
    BY <1>1, Appended
  <1>5. Len(d) \in Nat /\ Len(q) \in Nat
    BY LenProperties
  <1> HIDE DEF a, b
  <1>6. ASSUME NEW i \in 1 .. Len(a)
        PROVE  a[i] = b[i]
    <2>0. i \in 1 .. Len(d) + (Len(q) + 1)
      BY <1>3
    <2>1. CASE i = Len(d) + Len(q) + 1
      <3>1. i - Len(d) = Len(q) + 1 /\ ~(i <= Len(d)) /\ i \in 1 .. Len(d) + (Len(q) + 1)
        BY <1>5, <2>1
      <3>2. a[i] = r[Len(q) + 1]
        BY <1>3, <3>1
      <3> QED  BY <1>2, <1>4, <2>1, <3>2
    <2>2. CASE i # Len(d) + Len(q) + 1
      <3>1. i \in 1 .. Len(d) + Len(q)
        BY <1>5, <2>0, <2>2
      <3>2. b[i] = IF i <= Len(d) THEN d[i] ELSE q[i - Len(d)]
        BY <1>1, <1>4, <3>1
      <3>3. ~(i <= Len(d)) => r[i - Len(d)] = q[i - Len(d)]
        <4> SUFFICES ASSUME ~(i <= Len(d))
                     PROVE  r[i - Len(d)] = q[i - Len(d)]
          OBVIOUS
        <4>1. i - Len(d) \in 1 .. Len(q)
          BY <1>5, <3>1
        <4> QED  BY <1>2, <4>1
      <3> QED  BY <1>3, <2>0, <3>2, <3>3
    <2> QED  BY <2>1, <2>2
  <1>7. Len(a) = Len(b)
    BY <1>3, <1>4, <1>5
  <1> QED  BY <1>3, <1>4, <1>6, <1>7, SeqEqual DEF a, b, r

LEMMA LogReplace ==
    ASSUME NEW E, NEW d \in Seq(E), NEW q \in Seq(E), NEW e \in E, NEW x \in 1 .. Len(q)
    PROVE  d \o ReplaceAt(q, x, e) = ReplaceAt(d \o q, Len(d) + x, e)
  <1> DEFINE r == ReplaceAt(q, x, e)
             a == d \o r
             b == ReplaceAt(d \o q, Len(d) + x, e)
  <1>1. /\ d \o q \in Seq(E) /\ Len(d \o q) = Len(d) + Len(q)
        /\ \A i \in 1 .. Len(d) + Len(q) : (d \o q)[i] = IF i <= Len(d) THEN d[i] ELSE q[i - Len(d)]
    BY ConcatProperties
  <1>5. Len(d) \in Nat /\ Len(q) \in Nat
    BY LenProperties
  <1>0. Len(d) + x \in 1 .. Len(d \o q) /\ (d \o q)[Len(d) + x] = q[x]
    <2>1. Len(d) + x \in 1 .. Len(d) + Len(q) /\ Len(d) + x - Len(d) = x /\ ~(Len(d) + x <= Len(d))
      BY <1>5
    <2> QED  BY <1>1, <2>1
  <1>2. r \in Seq(E) /\ Len(r) = Len(q) /\ \A i \in 1 .. Len(q) : r[i] = IF i = x THEN e ELSE q[i]
    BY LenProperties, ExceptSeq DEF ReplaceAt
  <1> HIDE DEF r
  <1>3. /\ a \in Seq(E) /\ Len(a) = Len(d) + Len(q)
        /\ \A i \in 1 .. Len(d) + Len(q) : a[i] = IF i <= Len(d) THEN d[i] ELSE r[i - Len(d)]
    <2>1. /\ a \in Seq(E) /\ Len(a) = Len(d) + Len(r)
          /\ \A i \in 1 .. Len(d) + Len(r) : a[i] = IF i <= Len(d) THEN d[i] ELSE r[i - Len(d)]
      BY <1>2, ConcatProperties
    <2> HIDE DEF a
    <2> QED  BY <1>2, <2>1
  <1>4. /\ b \in Seq(E) /\ Len(b) = Len(d) + Len(q)
        /\ \A i \in 1 .. Len(d) + Len(q) : b[i] = IF i = Len(d) + x THEN e ELSE (d \o q)[i]
    <2> DEFINE s == d \o q
    <2>1. s \in Seq(E) /\ Len(s) = Len(d) + Len(q) /\ Len(d) + x \in 1 .. Len(s)
      BY <1>0, <1>1
    <2> HIDE DEF s
    <2>2. /\ ReplaceAt(s, Len(d) + x, e) \in Seq(E)
          /\ Len(ReplaceAt(s, Len(d) + x, e)) = Len(s)
          /\ \A i \in 1 .. Len(s) :
                 ReplaceAt(s, Len(d) + x, e)[i] = IF i = Len(d) + x THEN e ELSE s[i]
      BY <2>1, LenProperties, ExceptSeq DEF ReplaceAt
    <2>3. b = ReplaceAt(s, Len(d) + x, e)
      BY DEF s
    <2> HIDE DEF b
    <2> QED  BY <2>1, <2>2, <2>3 DEF s
  <1> HIDE DEF a, b
  <1>6. ASSUME NEW i \in 1 .. Len(a)
        PROVE  a[i] = b[i]
    <2>0. i \in 1 .. Len(d) + Len(q)
      BY <1>3
    <2>1. CASE i <= Len(d)
      <3>1. i # Len(d) + x
        BY <1>5, <2>1
      <3> QED  BY <1>1, <1>3, <1>4, <2>0, <2>1, <3>1
    <2>2. CASE ~(i <= Len(d))
      <3>1. i - Len(d) \in 1 .. Len(q) /\ (i = Len(d) + x <=> i - Len(d) = x)
        BY <1>5, <2>0, <2>2
      <3>2. a[i] = IF i = Len(d) + x THEN e ELSE q[i - Len(d)]
        BY <1>2, <1>3, <2>0, <2>2, <3>1
      <3> QED  BY <1>1, <1>4, <2>0, <2>2, <3>2
    <2> QED  BY <2>1, <2>2
  <1> QED  BY <1>0, <1>3, <1>4, <1>6, SeqEqual DEF a, b, r

LEMMA LogRemove ==
    ASSUME NEW E, NEW d \in Seq(E), NEW q \in Seq(E), NEW x \in 1 .. Len(q)
    PROVE  /\ Len(d) + x \in 1 .. Len(d \o q)
           /\ d \o RemoveAt(q, x) = RemoveAt(d \o q, Len(d) + x)
  <1> DEFINE r == RemoveAt(q, x)
             y == Len(d) + x
             a == d \o r
             b == RemoveAt(d \o q, y)
  <1>1. /\ d \o q \in Seq(E) /\ Len(d \o q) = Len(d) + Len(q)
        /\ \A i \in 1 .. Len(d) + Len(q) : (d \o q)[i] = IF i <= Len(d) THEN d[i] ELSE q[i - Len(d)]
    BY ConcatProperties
  <1>5. Len(d) \in Nat /\ Len(q) \in Nat
    BY LenProperties
  <1>0. y \in 1 .. Len(d \o q) /\ y \in Nat /\ y > Len(d)
    BY <1>1, <1>5
  <1>2. /\ r \in Seq(E) /\ Len(r) = Len(q) - 1
        /\ \A i \in 1 .. Len(q) - 1 : r[i] = IF i < x THEN q[i] ELSE q[i + 1]
    BY Removed
  <1> HIDE DEF r
  <1>3. /\ a \in Seq(E) /\ Len(a) = Len(d) + (Len(q) - 1)
        /\ \A i \in 1 .. Len(d) + (Len(q) - 1) : a[i] = IF i <= Len(d) THEN d[i] ELSE r[i - Len(d)]
    <2>1. /\ a \in Seq(E) /\ Len(a) = Len(d) + Len(r)
          /\ \A i \in 1 .. Len(d) + Len(r) : a[i] = IF i <= Len(d) THEN d[i] ELSE r[i - Len(d)]
      BY <1>2, ConcatProperties
    <2> HIDE DEF a
    <2> QED  BY <1>2, <2>1
  <1>4. /\ b \in Seq(E) /\ Len(b) = Len(d) + Len(q) - 1
        /\ \A i \in 1 .. Len(d) + Len(q) - 1 : b[i] = IF i < y THEN (d \o q)[i] ELSE (d \o q)[i + 1]
    <2> DEFINE s == d \o q
    <2>1. s \in Seq(E) /\ Len(s) = Len(d) + Len(q) /\ y \in 1 .. Len(s)
      BY <1>0, <1>1
    <2> HIDE DEF s, y
    <2>2. /\ RemoveAt(s, y) \in Seq(E) /\ Len(RemoveAt(s, y)) = Len(s) - 1
          /\ \A i \in 1 .. Len(s) - 1 : RemoveAt(s, y)[i] = IF i < y THEN s[i] ELSE s[i + 1]
      BY <2>1, Removed
    <2>3. b = RemoveAt(s, y)
      BY DEF s
    <2> HIDE DEF b
    <2> QED  BY <2>1, <2>2, <2>3 DEF s
  <1> HIDE DEF a, b
  <1>6. ASSUME NEW i \in 1 .. Len(a)
        PROVE  a[i] = b[i]
    <2>0. i \in 1 .. Len(d) + (Len(q) - 1) /\ i \in 1 .. Len(d) + Len(q) - 1
          /\ i \in 1 .. Len(d) + Len(q) /\ i + 1 \in 1 .. Len(d) + Len(q)
      BY <1>3, <1>5
    <2>1. CASE i <= Len(d)
      <3>1. i < y
        BY <1>5, <2>1
      <3> QED  BY <1>1, <1>3, <1>4, <2>0, <2>1, <3>1
    <2>2. CASE ~(i <= Len(d))
      <3>1. i - Len(d) \in 1 .. Len(q) - 1 /\ (i < y <=> i - Len(d) < x)
            /\ ~(i + 1 <= Len(d)) /\ i + 1 - Len(d) = i - Len(d) + 1
        BY <1>5, <2>0, <2>2
      <3> HIDE DEF y
      <3>2. a[i] = IF i < y THEN q[i - Len(d)] ELSE q[i - Len(d) + 1]
        BY <1>2, <1>3, <2>0, <2>2, <3>1
      <3> QED  BY <1>1, <1>4, <2>0, <2>2, <3>1, <3>2
    <2> QED  BY <2>1, <2>2
  <1>7. Len(a) = Len(b)
    BY <1>3, <1>4, <1>5
  <1> QED  BY <1>0, <1>3, <1>4, <1>6, <1>7, SeqEqual DEF a, b, r

\* Polling moves an event from the queue to the client, and leaves the log.
LEMMA LogPoll ==
    ASSUME NEW E, NEW d \in Seq(E), NEW q \in Seq(E), q # <<>>
    PROVE  Append(d, Head(q)) \o Tail(q) = d \o q
  <1> DEFINE u == Append(d, Head(q))
             v == Tail(q)
             a == u \o v
             b == d \o q
  <1>1. /\ b \in Seq(E) /\ Len(b) = Len(d) + Len(q)
        /\ \A i \in 1 .. Len(d) + Len(q) : b[i] = IF i <= Len(d) THEN d[i] ELSE q[i - Len(d)]
    BY ConcatProperties
  <1>2. /\ Head(q) \in E /\ Head(q) = q[1] /\ v \in Seq(E) /\ Len(v) = Len(q) - 1
        /\ \A i \in 1 .. Len(v) : v[i] = q[i + 1]
    BY HeadTailProperties
  <1>3. /\ u \in Seq(E) /\ Len(u) = Len(d) + 1 /\ u[Len(d) + 1] = q[1]
        /\ \A i \in 1 .. Len(d) : u[i] = d[i]
    BY <1>2, Appended
  <1>5. Len(d) \in Nat /\ Len(q) \in Nat
    BY LenProperties
  <1> HIDE DEF u, v
  <1>4. /\ a \in Seq(E) /\ Len(a) = Len(u) + Len(v)
        /\ \A i \in 1 .. Len(u) + Len(v) : a[i] = IF i <= Len(u) THEN u[i] ELSE v[i - Len(u)]
    BY <1>2, <1>3, ConcatProperties
  <1> HIDE DEF a, b
  <1>7. Len(a) = Len(b)
    BY <1>1, <1>2, <1>3, <1>4, <1>5
  <1>6. ASSUME NEW i \in 1 .. Len(a)
        PROVE  a[i] = b[i]
    <2>0. i \in 1 .. Len(u) + Len(v) /\ i \in 1 .. Len(d) + Len(q)
      BY <1>1, <1>4, <1>7
    <2>1. CASE i <= Len(d)
      <3>1. i <= Len(u) /\ i \in 1 .. Len(d)
        BY <1>3, <1>5, <2>0, <2>1
      <3> QED  BY <1>1, <1>3, <1>4, <2>0, <2>1, <3>1
    <2>2. CASE i = Len(d) + 1
      BY <1>1, <1>3, <1>4, <1>5, <2>0, <2>2
    <2>3. CASE i > Len(d) + 1
      <3>1. i - Len(u) \in 1 .. Len(v) /\ i - Len(u) + 1 = i - Len(d) /\ ~(i <= Len(u)) /\ ~(i <= Len(d))
        BY <1>2, <1>3, <1>5, <2>0, <2>3
      <3>2. a[i] = v[i - Len(u)] /\ b[i] = q[i - Len(d)]
        BY <1>1, <1>4, <2>0, <3>1
      <3> QED  BY <1>2, <3>1, <3>2
    <2> QED  BY <1>5, <2>0, <2>1, <2>2, <2>3
  <1> QED  BY <1>1, <1>4, <1>6, <1>7, SeqEqual DEF a, b, u, v

LEMMA OrderMore ==
    ASSUME NEW s \in Seq(Events), NEW n \in Nat, NEW m \in Nat, InOrder(s, n, m)
    PROVE  InOrder(s, n, m + 1)
  <1>1. ASSUME NEW i \in DOMAIN s, s[i].type = "partial"
        PROVE  s[i].n <= m + 1
    <2>1. s[i] \in Events
      BY LenProperties, ElementOfSeq
    <2>2. s[i].n \in Nat
      BY <2>1 DEF Events
    <2>3. s[i].n <= m
      BY <1>1 DEF InOrder
    <2> QED  BY <2>2, <2>3
  <1> QED  BY <1>1 DEF InOrder

\* push_event_coalesced keeps the log in order, whichever of its four ways it
\* takes: the oldest snapshot goes, or the newest is replaced, or none is added.
LEMMA OrderPush ==
    ASSUME NEW d \in Seq(Events), NEW q \in Seq(Events), NEW n \in Nat, NEW m \in Nat,
           NEW bound \in Int, InOrder(d \o q, n, m)
    PROVE  InOrder(d \o PushPartial(q, Event("partial", m + 1), bound), n, m + 1)
  <1> DEFINE e == Event("partial", m + 1)
             s == d \o q
             P == PartialsIn(q)
  <1>0. /\ s \in Seq(Events) /\ Len(d) \in Nat /\ Len(q) \in Nat /\ Len(s) = Len(d) + Len(q)
        /\ \A i \in 1 .. Len(d) + Len(q) : s[i] = IF i <= Len(d) THEN d[i] ELSE q[i - Len(d)]
    BY ConcatProperties, LenProperties
  <1>1. e \in Events
    BY EventType DEF EventTypes
  <1>2. P \subseteq 1 .. Len(q) /\ \A i \in P : q[i].type = "partial"
    BY LenProperties DEF PartialsIn
  <1>3. \A i \in 1 .. Len(q) : q[i].type = "partial" => i \in P
    BY LenProperties DEF PartialsIn
  <1>4. PushPartial(q, e, bound) =
          IF aggressive /\ P # {} THEN Append(RemoveAt(q, Min(P)), e)
          ELSE IF Len(q) < bound THEN Append(q, e)
          ELSE IF P # {} THEN ReplaceAt(q, Max(P), e) ELSE q
    BY DEF PushPartial
  <1>5. InOrder(s, n, m)
    OBVIOUS
  <1> HIDE DEF s, P
  <1>6. CASE aggressive /\ P # {}
    <2>0. P \subseteq Nat
      BY <1>0, <1>2
    <2>1. Min(P) \in P
      BY <2>0, <1>6, MinProperty
    <2> DEFINE x == Min(P)
               y == Len(d) + x
    <2>2. x \in 1 .. Len(q) /\ q[x].type = "partial"
      BY <1>2, <2>1
    <2> HIDE DEF x, e
    <2>3. /\ y \in 1 .. Len(s) /\ s[y] = q[x] /\ d \o RemoveAt(q, x) = RemoveAt(s, y)
          /\ RemoveAt(q, x) \in Seq(Events) /\ RemoveAt(s, y) \in Seq(Events)
      <3>1. y \in 1 .. Len(s) /\ d \o RemoveAt(q, x) = RemoveAt(s, y)
        BY <2>2, LogRemove DEF s
      <3>2. s[y] = q[x]
        <4>1. y \in 1 .. Len(d) + Len(q) /\ ~(y <= Len(d)) /\ y - Len(d) = x
          BY <1>0, <2>2
        <4> HIDE DEF y
        <4> QED  BY <1>0, <4>1
      <3> HIDE DEF y
      <3> QED  BY <1>0, <2>2, <3>1, <3>2, Removed
    <2> HIDE DEF y
    <2>4. InOrder(RemoveAt(s, y), n, m)
      BY <1>0, <1>5, <2>2, <2>3, OrderRemove
    <2>5. InOrder(Append(RemoveAt(s, y), e), n, m + 1)
      BY <2>3, <2>4, OrderPartial DEF e
    <2>6. d \o Append(RemoveAt(q, x), e) = Append(RemoveAt(s, y), e)
      BY <1>1, <2>3, LogAppend, SMTT(30)
    <2> QED  BY <1>4, <1>6, <2>5, <2>6 DEF e, x
  <1>7. CASE ~(aggressive /\ P # {}) /\ Len(q) < bound
    <2>1. d \o Append(q, e) = Append(s, e)
      BY <1>1, LogAppend DEF s
    <2>2. InOrder(Append(s, e), n, m + 1)
      BY <1>0, <1>5, OrderPartial
    <2> QED  BY <1>4, <1>7, <2>1, <2>2
  <1>8. CASE ~(aggressive /\ P # {}) /\ ~(Len(q) < bound) /\ P # {}
    <2>1. Max(P) \in P /\ \A i \in P : Max(P) >= i
      BY <1>0, <1>2, <1>8, MaxProperty
    <2> DEFINE x == Max(P)
               y == Len(d) + x
    <2>2. x \in 1 .. Len(q) /\ q[x].type = "partial" /\ \A i \in P : i <= x
      BY <1>0, <1>2, <2>1
    <2> HIDE DEF x, e
    <2>3. y \in 1 .. Len(s) /\ s[y] = q[x] /\ d \o ReplaceAt(q, x, e) = ReplaceAt(s, y, e)
      <3>1. y \in 1 .. Len(d) + Len(q) /\ ~(y <= Len(d)) /\ y - Len(d) = x
        BY <1>0, <2>2
      <3>2. d \o ReplaceAt(q, x, e) = ReplaceAt(d \o q, Len(d) + x, e)
        <4>1. x \in 1 .. Len(q) /\ e \in Events
          BY <1>1, <2>2
        <4> HIDE DEF y
        <4> QED  BY <4>1, LogReplace
      <3>3. d \o ReplaceAt(q, x, e) = ReplaceAt(s, y, e)
        BY <3>2 DEF s
      <3> HIDE DEF y
      <3> QED  BY <1>0, <3>1, <3>3
    <2>4. ASSUME NEW j \in 1 .. Len(s), s[j].type = "partial"
          PROVE  j <= y
      <3>1. CASE j <= Len(d)
        BY <1>0, <2>2, <3>1
      <3>2. CASE ~(j <= Len(d))
        <4>1. j - Len(d) \in 1 .. Len(q) /\ j \in 1 .. Len(d) + Len(q)
          BY <1>0, <3>2
        <4>2. s[j] = q[j - Len(d)]
          BY <1>0, <3>2, <4>1
        <4>3. j - Len(d) <= x
          BY <1>3, <2>2, <2>4, <4>1, <4>2
        <4> QED  BY <1>0, <2>2, <4>3
      <3> QED  BY <3>1, <3>2
    <2> HIDE DEF y
    <2>5. InOrder(ReplaceAt(s, y, e), n, m + 1)
      BY <1>0, <1>5, <2>2, <2>3, <2>4, OrderReplace DEF e
    <2> QED  BY <1>4, <1>8, <2>3, <2>5 DEF e, x
  <1>9. CASE ~(aggressive /\ P # {}) /\ ~(Len(q) < bound) /\ P = {}
    <2>1. InOrder(s, n, m + 1)
      BY <1>0, <1>5, OrderMore
    <2> QED  BY <1>4, <1>9, <2>1 DEF s
  <1> QED  BY <1>6, <1>7, <1>8, <1>9

\* The log is in order, the numbers are those of the history, and a token is
\* held only by a decoder that has not seen end-of-stream.
Ordered ==
    /\ InOrder(Log, seqno, Len(tokens))
    /\ seqno = Len(tokens) + (IF eos THEN 1 ELSE 0)
    /\ pending.valid => ~eos

LEMMA OrderKept ==
    ASSUME Ordered, UNCHANGED <<queue, delivered, seqno, tokens, eos, pending>>
    PROVE  Ordered'
  BY DEF Ordered, Log, InOrder, Increasing

LEMMA OrderMandatory ==
    ASSUME Ordered, TypeOK, NEW e \in Events, e.type \notin {"token", "partial"},
           NEW bound, queue' = PushMandatory(queue, e, bound),
           UNCHANGED <<delivered, seqno, tokens, eos, pending>>
    PROVE  Ordered'
  <1>1. /\ queue \in Seq(Events) /\ delivered \in Seq(Events) /\ Log \in Seq(Events)
        /\ seqno \in Nat /\ Len(tokens) \in Nat
    BY ConcatProperties DEF TypeOK, Log
  <1>2. CASE queue' = queue
    BY <1>2, OrderKept
  <1>3. CASE queue' = Append(queue, e)
    <2>1. Log' = Append(Log, e)
      BY <1>1, <1>3, LogAppend DEF Log
    <2>2. InOrder(Append(Log, e), seqno, Len(tokens))
      BY <1>1, OrderOther DEF Ordered
    <2> QED  BY <2>1, <2>2 DEF Ordered
  <1> QED  BY <1>2, <1>3 DEF PushMandatory

LEMMA OrderDeliver ==
    ASSUME Ordered, TypeOK, ~eos, UNCHANGED delivered,
           NEW t \in [valid : BOOLEAN, eos : BOOLEAN, row : Rows], Deliver(t)
    PROVE  Ordered'
  <1> DEFINE token == Event("token", seqno + 1)
             m == Len(tokens)
  <1>1. /\ queue \in Seq(Events) /\ delivered \in Seq(Events) /\ Log \in Seq(Events)
        /\ seqno \in Nat /\ m \in Nat /\ seqno = m
    BY ConcatProperties DEF TypeOK, Log, Ordered
  <1>2. token \in Events
    BY <1>1, EventType DEF EventTypes
  <1>3. /\ Append(queue, token) \in Seq(Events)
        /\ delivered \o Append(queue, token) = Append(Log, token)
    BY <1>1, <1>2, LogAppend, Appended DEF Log
  <1>4. InOrder(delivered \o Append(queue, token), seqno + 1, m)
    BY <1>1, <1>3, OrderToken DEF Ordered
  <1>5. seqno' = seqno + 1 /\ ~pending'.valid /\ Bound \in Int
    BY StreamConstants DEF Deliver, NoToken, Bound, TypeOK
  <1>6. CASE t.eos
    <2>1. eos' = TRUE /\ queue' = Append(queue, token) /\ tokens' = tokens
      BY <1>6 DEF Deliver
    <2>2. InOrder(Log', seqno', Len(tokens'))
      BY <1>4, <1>5, <2>1 DEF Log
    <2> QED  BY <1>1, <1>5, <2>1, <2>2 DEF Ordered
  <1>7. CASE ~t.eos
    <2>1. /\ eos' = eos /\ tokens' = Append(tokens, t.row)
          /\ queue' = PushPartial(Append(queue, token), Event("partial", m + 1), Bound)
      BY <1>7 DEF Deliver
    <2>2. Len(tokens') = m + 1
      BY <2>1, AppendProperties DEF TypeOK
    <2> DEFINE q == Append(queue, token)
    <2>5. q \in Seq(Events) /\ seqno + 1 \in Nat /\ InOrder(delivered \o q, seqno + 1, m)
      BY <1>1, <1>3, <1>4
    <2> HIDE DEF token, m, q
    <2>6. InOrder(delivered \o PushPartial(q, Event("partial", m + 1), Bound), seqno + 1, m + 1)
      BY <1>1, <1>5, <2>5, OrderPush, Zenon
    <2>3. InOrder(delivered \o PushPartial(Append(queue, token), Event("partial", m + 1), Bound),
                  seqno + 1, m + 1)
      BY <2>6 DEF q
    <2>4. InOrder(Log', seqno', Len(tokens'))
      BY <1>5, <2>1, <2>2, <2>3 DEF Log
    <2> QED  BY <1>1, <1>5, <2>1, <2>2, <2>4 DEF Ordered
  <1> QED  BY <1>6, <1>7

LEMMA OrderFinal ==
    ASSUME Ordered, TypeOK, NEW q \in Seq(Events), InOrder(delivered \o q, seqno, Len(tokens)),
           queue' = FinalAndCompleted(q), UNCHANGED <<delivered, seqno, tokens, eos, pending>>
    PROVE  Ordered'
  <1> DEFINE bound == MaxEvents + Headroom
             final == Event("final", Len(tokens))
             completed == Event("completed", 0)
             q1 == PushMandatory(q, final, bound)
             n == seqno
             m == Len(tokens)
  <1>1. /\ final \in Events /\ final.type \notin {"token", "partial"}
        /\ completed \in Events /\ completed.type \notin {"token", "partial"}
        /\ n \in Nat /\ m \in Nat /\ delivered \in Seq(Events)
    <2>1. Len(tokens) \in Nat /\ seqno \in Nat
      BY DEF TypeOK
    <2> QED  BY <2>1, EventType DEF EventTypes, TypeOK, Event
  <1>2. queue' = PushMandatory(q1, completed, bound)
    BY DEF FinalAndCompleted
  <1> HIDE DEF bound, final, completed, n, m
  <1>3. ASSUME NEW s \in Seq(Events), InOrder(delivered \o s, n, m), NEW e \in {final, completed}
        PROVE  PushMandatory(s, e, bound) \in Seq(Events)
               /\ InOrder(delivered \o PushMandatory(s, e, bound), n, m)
    <2>1. e \in Events /\ e.type \notin {"token", "partial"}
      BY <1>1
    <2>2. delivered \o Append(s, e) = Append(delivered \o s, e) /\ Append(s, e) \in Seq(Events)
      BY <1>1, <2>1, LogAppend, Appended
    <2>3. delivered \o s \in Seq(Events)
      BY <1>1, ConcatProperties
    <2>4. InOrder(Append(delivered \o s, e), n, m)
      BY <1>1, <1>3, <2>1, <2>3, OrderOther
    <2> QED  BY <1>3, <2>2, <2>4 DEF PushMandatory
  <1>4. q1 \in Seq(Events) /\ InOrder(delivered \o q1, n, m)
    BY <1>3 DEF n, m
  <1> HIDE DEF q1
  <1>5. InOrder(delivered \o queue', n, m)
    BY <1>2, <1>3, <1>4
  <1> QED  BY <1>5 DEF Ordered, Log, n, m

LEMMA OrderFail ==
    ASSUME Ordered, TypeOK, FailStream, UNCHANGED <<decodeVars, clientVars>>
    PROVE  Ordered'
  <1> DEFINE e == Event("error", 0)
  <1>1. e \in Events /\ e.type \notin {"token", "partial"}
    BY EventType DEF EventTypes, Event
  <1> HIDE DEF e
  <1>2. queue' = PushMandatory(queue, e, MaxEvents + Headroom)
    BY DEF FailStream, e
  <1> QED  BY <1>1, <1>2, OrderMandatory DEF decodeVars, clientVars

LEMMA OrderEnter ==
    ASSUME Ordered, TypeOK, EnterFinishing, UNCHANGED <<decodeVars, clientVars>>
    PROVE  Ordered'
  <1>1. queue \in Seq(Events) /\ InOrder(delivered \o queue, seqno, Len(tokens))
    BY DEF TypeOK, Ordered, Log
  <1>2. CASE queue' = FinalAndCompleted(queue)
    BY <1>1, <1>2, OrderFinal DEF decodeVars, clientVars
  <1>3. CASE queue' = queue
    BY <1>3, OrderKept DEF decodeVars, clientVars
  <1> QED  BY <1>2, <1>3 DEF EnterFinishing

LEMMA OrderStash ==
    ASSUME Ordered, ~eos, NEW t, Stash(t), UNCHANGED delivered
    PROVE  Ordered'
  <1>1. Log' = Log /\ UNCHANGED <<seqno, tokens, eos>>
    BY DEF Stash, Log
  <1>2. InOrder(Log, seqno, Len(tokens))'
    BY <1>1 DEF Ordered, InOrder, Increasing
  <1> QED  BY <1>1, <1>2 DEF Ordered

LEMMA RuntimeOrder ==
    ASSUME IInv, Ordered, Runtime
    PROVE  Ordered'
  <1> USE DEF IInv
  <1>0. queue \in Seq(Events) /\ InOrder(delivered \o queue, seqno, Len(tokens))
    BY DEF TypeOK, Ordered, Log
  <1>1. CASE FeedResumed \/ FeedPumped
    <2>1. UNCHANGED <<decodeVars, clientVars>> /\ (FailStream \/ queue' = queue)
      BY <1>1 DEF FeedResumed, FeedPumped, eventVars
    <2> QED  BY <2>1, OrderFail, OrderKept DEF decodeVars, clientVars
  <1>2. CASE FeedSliceFails
    BY <1>2, OrderFail DEF FeedSliceFails
  <1>3. CASE FeedSlice \/ FeedReturns \/ PumpCommit \/ PumpReturns \/ PumpFails
    <2>1. UNCHANGED <<queue, delivered, seqno, tokens, eos, pending>>
      BY <1>3 DEF FeedSlice, FeedReturns, PumpCommit, PumpReturns, PumpFails, eventVars,
                  decodeVars, clientVars
    <2> QED  BY <2>1, OrderKept
  <1>4. CASE PumpFlush
    <2>1. pending \in [valid : BOOLEAN, eos : BOOLEAN, row : Rows] /\ UNCHANGED delivered
      BY <1>4 DEF PumpFlush, TypeOK, clientVars
    <2>2. CASE prefilled /\ pending.valid
      <3>1. ~eos /\ (Deliver(pending) \/ Stash(pending))
        BY <1>4, <2>2 DEF PumpFlush, Ordered
      <3> QED  BY <2>1, <3>1, OrderDeliver, OrderStash
    <2>3. CASE ~(prefilled /\ pending.valid)
      BY <1>4, <2>1, <2>3, OrderKept DEF PumpFlush
    <2> QED  BY <2>2, <2>3
  <1>5. CASE PumpStep
    <2>1. ~eos /\ UNCHANGED delivered
      BY <1>5 DEF PumpStep, StepReady, clientVars
    <2>2. PICK e \in BOOLEAN :
            LET t == [valid |-> TRUE, eos |-> e, row |-> aemb[position % AembRing]]
            IN  Deliver(t) \/ Stash(t)
      BY <1>5 DEF PumpStep
    <2> DEFINE t == [valid |-> TRUE, eos |-> e, row |-> aemb[position % AembRing]]
    <2>3. t \in [valid : BOOLEAN, eos : BOOLEAN, row : Rows]
      <3>1. position % AembRing \in 0 .. AembRing - 1
        BY ModProperty, StreamConstants DEF TypeOK
      <3>2. aemb[position % AembRing] \in Rows
        BY <3>1 DEF TypeOK
      <3> QED  BY <3>2
    <2>4. Deliver(t) \/ Stash(t)
      BY <2>2
    <2> HIDE DEF t
    <2> QED  BY <2>1, <2>3, <2>4, OrderDeliver, OrderStash
  <1>6. CASE FinishDrained
    <2>1. UNCHANGED <<decodeVars, clientVars>> /\ (EnterFinishing \/ FailStream \/ queue' = queue)
      BY <1>6 DEF FinishDrained, eventVars
    <2> QED  BY <2>1, OrderEnter, OrderFail, OrderKept DEF decodeVars, clientVars
  <1>7. CASE FinishReturns
    <2>1. /\ UNCHANGED <<decodeVars, clientVars>>
          /\ queue' = FinalAndCompleted(queue) \/ FailStream
      BY <1>7 DEF FinishReturns
    <2> QED  BY <1>0, <2>1, OrderFinal, OrderFail DEF decodeVars, clientVars
  <1> QED  BY <1>1, <1>2, <1>3, <1>4, <1>5, <1>6, <1>7 DEF Runtime, Pump

LEMMA CallFeedOrder ==
    ASSUME Ordered, NEW n \in Nat, CallFeed(n)
    PROVE  Ordered'
  BY OrderKept DEF CallFeed, decodeVars, clientVars

LEMMA CallFinishOrder ==
    ASSUME IInv, Ordered, CallFinish
    PROVE  Ordered'
  <1>1. UNCHANGED <<decodeVars, clientVars>> /\ (EnterFinishing \/ queue' = queue)
    BY DEF CallFinish, eventVars
  <1> QED  BY <1>1, OrderEnter, OrderKept DEF IInv, decodeVars, clientVars

LEMMA CallCancelOrder ==
    ASSUME IInv, Ordered, CallCancel
    PROVE  Ordered'
  <1> DEFINE e == Event("cancelled", 0)
  <1>1. e \in Events /\ e.type \notin {"token", "partial"}
    BY EventType DEF EventTypes, Event
  <1> HIDE DEF e
  <1>2. /\ UNCHANGED <<decodeVars, clientVars>>
        /\ queue' = PushMandatory(queue, e, MaxEvents + Headroom) \/ queue' = queue
    BY DEF CallCancel, e
  <1> QED  BY <1>1, <1>2, OrderMandatory, OrderKept DEF IInv, decodeVars, clientVars

LEMMA PollOrder ==
    ASSUME IInv, Ordered, Poll
    PROVE  Ordered'
  <1>1. queue \in Seq(Events) /\ queue # <<>> /\ delivered \in Seq(Events)
    BY DEF Poll, IInv, TypeOK
  <1>2. Log' = Log
    BY <1>1, LogPoll DEF Poll, Log
  <1> QED  BY <1>2 DEF Poll, Ordered, decodeVars

\* An empty log is in order.
LEMMA FreshOrder ==
    /\ Init => Ordered
    /\ FreshStream => Ordered'
  <1>1. <<>> \o <<>> = <<>> /\ DOMAIN <<>> = {} /\ Len(<<>>) = 0
    OBVIOUS
  <1>2. InOrder(<<>>, 0, 0)
    BY DEF InOrder, Increasing
  <1>3. ASSUME Init
        PROVE  Ordered
    <2>1. Log = <<>> /\ seqno = 0 /\ Len(tokens) = 0 /\ eos = FALSE /\ pending = NoToken
      BY <1>1, <1>3 DEF Init, Log
    <2> QED  BY <1>2, <2>1 DEF Ordered, NoToken
  <1>4. ASSUME FreshStream
        PROVE  Ordered'
    <2>1. Log' = <<>> /\ seqno' = 0 /\ Len(tokens') = 0 /\ eos' = FALSE /\ pending' = NoToken
      BY <1>1, <1>4 DEF FreshStream, FreshDecoder, Log
    <2> QED  BY <1>2, <2>1 DEF Ordered, NoToken
  <1> QED  BY <1>3, <1>4

LEMMA NextOrdered ==
    ASSUME IInv, Ordered, [Next]_vars
    PROVE  Ordered'
  <1>1. CASE UNCHANGED vars
    BY <1>1, OrderKept DEF vars, eventVars, decodeVars, clientVars
  <1>2. CASE \E n \in FeedSizes : CallFeed(n)
    BY <1>2, CallFeedOrder, StreamConstants
  <1>3. CASE CallReset \/ Recreate
    <2>1. FreshStream \/ UNCHANGED <<queue, delivered, seqno, tokens, eos, pending>>
      BY <1>3 DEF CallReset, Recreate, eventVars, decodeVars, clientVars
    <2> QED  BY <2>1, FreshOrder, OrderKept
  <1> QED  BY <1>1, <1>2, <1>3, RuntimeOrder, CallFinishOrder, CallCancelOrder, PollOrder
           DEF Next, Client

\* What a client reads is in order, for every queue capacity: TOKEN numbers
\* without a gap and ever longer snapshots, whatever stalls and coalescing
\* happened in between (push_event, push_event_coalesced, commit_pending).
THEOREM EventsStayInOrder == Spec => []EventsInOrder
  <1>1. IInv /\ Ordered => EventsInOrder
    BY DEF Ordered, InOrder, EventsInOrder, TokensInOrder, PartialsMonotone
  <1>2. Init => IInv /\ Ordered
    BY InitIInv, FreshOrder
  <1>3. IInv /\ Ordered /\ [Next]_vars => IInv' /\ Ordered'
    BY NextIInv, NextOrdered
  <1> QED  BY <1>1, <1>2, <1>3, PTL DEF Spec
-----------------------------------------------------------------------------
(* The mandatory events of a log.                                          *)

\* Counting up to n.
LEMMA CountUp ==
    ASSUME NEW n \in Nat, NEW S, 0 \in S, \A i \in 1 .. n : i - 1 \in S => i \in S
    PROVE  0 .. n \subseteq S
  <1> DEFINE bad == {i \in 0 .. n : i \notin S}
  <1> SUFFICES ASSUME bad # {}
               PROVE  FALSE
    OBVIOUS
  <1>1. bad \subseteq Nat
    OBVIOUS
  <1>2. Min(bad) \in bad /\ \A i \in bad : Min(bad) =< i
    BY <1>1, MinProperty
  <1> DEFINE m == Min(bad)
  <1>3. m \in 0 .. n /\ m \notin S /\ \A i \in bad : m =< i
    BY <1>2
  <1> HIDE DEF m
  <1>4. m \in 1 .. n
    <2>1. m # 0
      BY <1>3
    <2> QED  BY <1>3, <2>1
  <1>5. m - 1 \notin S
    BY <1>3, <1>4
  <1>6. m - 1 \in bad
    BY <1>4, <1>5
  <1>7. m =< m - 1
    BY <1>3, <1>6
  <1> QED  BY <1>4, <1>7

\* What MandatoryIn counts: the mandatory events among the first i.
Next1(F, s, i) == IF i = 0 THEN <<>>
                  ELSE IF IsMandatory(s[i]) THEN Append(F[i - 1], s[i]) ELSE F[i - 1]
Counts(F, s, n) == F = [i \in 0 .. n |-> Next1(F, s, i)]
UpTo(s) == CHOOSE F : Counts(F, s, Len(s))

LEMMA UpToExists ==
    ASSUME NEW s, NEW n \in Nat
    PROVE  \E F : Counts(F, s, n)
  <1> DEFINE S == {i \in 0 .. n : \E F : Counts(F, s, i)}
  <1>1. 0 \in S
    <2> DEFINE F == [i \in 0 .. 0 |-> <<>>]
    <2>1. Counts(F, s, 0)
      BY DEF Counts, Next1
    <2> QED  BY <2>1
  <1>2. ASSUME NEW i \in 1 .. n, i - 1 \in S
        PROVE  i \in S
    <2>1. PICK F : Counts(F, s, i - 1)
      BY <1>2
    <2> DEFINE G == [j \in 0 .. i |-> IF j = i THEN Next1(F, s, i) ELSE F[j]]
    <2>2. \A j \in 0 .. i - 1 : G[j] = F[j] /\ F[j] = Next1(F, s, j)
      BY <2>1 DEF Counts
    <2>3. G[i] = Next1(F, s, i)
      OBVIOUS
    <2>4. \A j \in 0 .. i : Next1(G, s, j) = Next1(F, s, j)
      <3> TAKE j \in 0 .. i
      <3>1. j # 0 => j - 1 \in 0 .. i - 1
        OBVIOUS
      <3>2. j # 0 => G[j - 1] = F[j - 1]
        BY <2>2, <3>1
      <3> HIDE DEF G
      <3> QED  BY <3>2 DEF Next1
    <2>5. \A j \in 0 .. i : G[j] = Next1(G, s, j)
      <3> TAKE j \in 0 .. i
      <3>1. CASE j = i
        BY <2>3, <2>4, <3>1
      <3>2. CASE j # i
        <4>1. j \in 0 .. i - 1
          BY <3>2
        <4> HIDE DEF G
        <4> QED  BY <2>2, <2>4, <4>1
      <3> QED  BY <3>1, <3>2
    <2>6. G = [j \in 0 .. i |-> G[j]]
      OBVIOUS
    <2> HIDE DEF G
    <2>7. Counts(G, s, i)
      BY <2>5, <2>6 DEF Counts
    <2> QED  BY <2>7
  <1> HIDE DEF S
  <1>3. 0 .. n \subseteq S
    BY <1>1, <1>2, CountUp
  <1>4. n \in S
    BY <1>3
  <1> QED  BY <1>4 DEF S

LEMMA UpToProperty ==
    ASSUME NEW s \in Seq(Events)
    PROVE  /\ MandatoryIn(s) = UpTo(s)[Len(s)]
           /\ UpTo(s)[0] = <<>>
           /\ \A i \in 1 .. Len(s) :
                 UpTo(s)[i] = IF IsMandatory(s[i]) THEN Append(UpTo(s)[i - 1], s[i])
                                                   ELSE UpTo(s)[i - 1]
           /\ \A i \in 0 .. Len(s) : UpTo(s)[i] \in Seq(Events)
  <1>0. Len(s) \in Nat
    BY LenProperties
  <1> DEFINE F == UpTo(s)
  <1>1. Counts(F, s, Len(s))
    BY <1>0, UpToExists DEF UpTo
  <1>2. MandatoryIn(s) = F[Len(s)]
    BY DEF MandatoryIn, UpTo, Counts, Next1
  <1> HIDE DEF F
  <1>3. \A i \in 0 .. Len(s) : F[i] = Next1(F, s, i)
    BY <1>1 DEF Counts
  <1>4. F[0] = <<>>
    BY <1>0, <1>3 DEF Next1
  <1>5. \A i \in 1 .. Len(s) :
           F[i] = IF IsMandatory(s[i]) THEN Append(F[i - 1], s[i]) ELSE F[i - 1]
    BY <1>0, <1>3 DEF Next1
  <1> DEFINE S == {i \in 0 .. Len(s) : F[i] \in Seq(Events)}
  <1>6. 0 \in S
    <2>1. <<>> \in Seq(Events) /\ 0 \in 0 .. Len(s)
      BY <1>0
    <2> QED  BY <1>4, <2>1
  <1>7. ASSUME NEW i \in 1 .. Len(s), i - 1 \in S
        PROVE  i \in S
    <2>1. F[i - 1] \in Seq(Events) /\ s[i] \in Events
      BY <1>7, ElementOfSeq
    <2>2. Append(F[i - 1], s[i]) \in Seq(Events)
      BY <2>1, AppendProperties
    <2>3. F[i] = Append(F[i - 1], s[i]) \/ F[i] = F[i - 1]
      BY <1>5
    <2>4. F[i] \in Seq(Events)
      BY <2>1, <2>2, <2>3
    <2>5. i \in 0 .. Len(s)
      BY <1>0
    <2> QED  BY <2>4, <2>5
  <1> HIDE DEF S
  <1>8. 0 .. Len(s) \subseteq S
    BY <1>0, <1>6, <1>7, CountUp
  <1> QED  BY <1>2, <1>4, <1>5, <1>8 DEF S, F

\* A log that starts alike counts alike.
LEMMA UpToAgree ==
    ASSUME NEW s \in Seq(Events), NEW t \in Seq(Events), NEW n \in Nat, n <= Len(s), n <= Len(t),
           \A i \in 1 .. n : IsMandatory(s[i]) = IsMandatory(t[i]) /\ (IsMandatory(s[i]) => s[i] = t[i])
    PROVE  \A i \in 0 .. n : UpTo(s)[i] = UpTo(t)[i]
  <1> DEFINE F == UpTo(s)
             G == UpTo(t)
             S == {i \in 0 .. n : F[i] = G[i]}
  <1>0. Len(s) \in Nat /\ Len(t) \in Nat
    BY LenProperties
  <1>1. /\ F[0] = <<>>
        /\ \A i \in 1 .. Len(s) : F[i] = IF IsMandatory(s[i]) THEN Append(F[i - 1], s[i]) ELSE F[i - 1]
    BY UpToProperty
  <1>2. /\ G[0] = <<>>
        /\ \A i \in 1 .. Len(t) : G[i] = IF IsMandatory(t[i]) THEN Append(G[i - 1], t[i]) ELSE G[i - 1]
    BY UpToProperty
  <1> HIDE DEF F, G
  <1>3. 0 \in S
    BY <1>1, <1>2
  <1>4. ASSUME NEW i \in 1 .. n, i - 1 \in S
        PROVE  i \in S
    <2>1. i \in 1 .. Len(s) /\ i \in 1 .. Len(t) /\ i \in 0 .. n /\ F[i - 1] = G[i - 1]
      BY <1>0, <1>4
    <2>2. F[i] = G[i]
      BY <1>1, <1>2, <2>1
    <2> QED  BY <2>1, <2>2
  <1> HIDE DEF S
  <1>5. 0 .. n \subseteq S
    BY <1>3, <1>4, CountUp
  <1> QED  BY <1>5 DEF S, F, G

\* Appending an event.
LEMMA MandatoryAppend ==
    ASSUME NEW s \in Seq(Events), NEW e \in Events
    PROVE  /\ MandatoryIn(s) \in Seq(Events)
           /\ MandatoryIn(Append(s, e)) = IF IsMandatory(e) THEN Append(MandatoryIn(s), e)
                                                            ELSE MandatoryIn(s)
  <1> DEFINE t == Append(s, e)
             n == Len(s)
  <1>1. /\ t \in Seq(Events) /\ Len(t) = n + 1 /\ n \in Nat /\ t[n + 1] = e
        /\ \A i \in 1 .. n : t[i] = s[i]
    BY Appended
  <1> HIDE DEF t
  <1>2. UpTo(s)[n] = UpTo(t)[n]
    BY <1>1, UpToAgree
  <1>3. /\ MandatoryIn(s) = UpTo(s)[n] /\ UpTo(s)[n] \in Seq(Events)
    BY <1>1, UpToProperty
  <1>4. /\ MandatoryIn(t) = UpTo(t)[n + 1]
        /\ UpTo(t)[n + 1] = IF IsMandatory(t[n + 1]) THEN Append(UpTo(t)[n + 1 - 1], t[n + 1])
                                                     ELSE UpTo(t)[n + 1 - 1]
    BY <1>1, UpToProperty
  <1>5. n + 1 - 1 = n
    BY <1>1
  <1> QED  BY <1>1, <1>2, <1>3, <1>4, <1>5 DEF t

\* What precedes counts no more than the whole.
LEMMA MandatoryPrefix ==
    ASSUME NEW d \in Seq(Events), NEW q \in Seq(Events)
    PROVE  Len(MandatoryIn(d)) <= Len(MandatoryIn(d \o q))
  <1> DEFINE s == d \o q
             F == UpTo(s)
             n == Len(d)
             S == {i \in 0 .. Len(q) : Len(F[n]) <= Len(F[n + i])}
  <1>0. n \in Nat /\ Len(q) \in Nat
    BY LenProperties
  <1>1. s \in Seq(Events) /\ Len(s) = n + Len(q) /\ \A i \in 1 .. n : s[i] = d[i]
    <2>1. /\ s \in Seq(Events) /\ Len(s) = Len(d) + Len(q)
          /\ \A i \in 1 .. Len(d) + Len(q) : s[i] = IF i <= Len(d) THEN d[i] ELSE q[i - Len(d)]
      BY ConcatProperties
    <2> HIDE DEF s
    <2> QED  BY <1>0, <2>1
  <1> HIDE DEF s
  <1>2. /\ MandatoryIn(s) = F[Len(s)] /\ \A i \in 0 .. Len(s) : F[i] \in Seq(Events)
        /\ \A i \in 1 .. Len(s) : F[i] = IF IsMandatory(s[i]) THEN Append(F[i - 1], s[i]) ELSE F[i - 1]
    BY <1>1, UpToProperty
  <1>3. MandatoryIn(d) = F[n]
    <2>1. MandatoryIn(d) = UpTo(d)[n]
      BY UpToProperty
    <2>2. /\ n <= Len(d) /\ n <= Len(s)
          /\ \A i \in 1 .. n : /\ IsMandatory(d[i]) = IsMandatory(s[i])
                              /\ IsMandatory(d[i]) => d[i] = s[i]
      BY <1>0, <1>1
    <2>3. \A i \in 0 .. n : UpTo(d)[i] = UpTo(s)[i]
      <3> HIDE DEF n
      <3> QED  BY <1>0, <1>1, <2>2, UpToAgree
    <2>4. n \in 0 .. n
      BY <1>0
    <2> QED  BY <2>1, <2>3, <2>4
  <1> HIDE DEF F
  <1>4. 0 \in S
    <2>1. Len(F[n]) \in Nat
      BY <1>0, <1>1, <1>2, LenProperties
    <2> QED  BY <1>0, <2>1
  <1>5. ASSUME NEW i \in 1 .. Len(q), i - 1 \in S
        PROVE  i \in S
    <2>1. n + i \in 1 .. Len(s) /\ n + (i - 1) \in 0 .. Len(s) /\ n + i - 1 = n + (i - 1)
          /\ n \in 0 .. Len(s)
      BY <1>0, <1>1
    <2> DEFINE k == n + (i - 1)
    <2>2. /\ F[k] \in Seq(Events) /\ F[n] \in Seq(Events) /\ s[n + i] \in Events
          /\ F[n + i] = IF IsMandatory(s[n + i]) THEN Append(F[k], s[n + i]) ELSE F[k]
      <3>1. s[n + i] \in Events
        BY <1>1, <2>1, ElementOfSeq
      <3> QED  BY <1>2, <2>1, <3>1
    <2>3. Len(F[n]) <= Len(F[k])
      BY <1>5
    <2> HIDE DEF k
    <2>4. Len(F[n + i]) = Len(F[k]) \/ Len(F[n + i]) = Len(F[k]) + 1
      BY <2>2, AppendProperties
    <2>5. Len(F[k]) \in Nat /\ Len(F[n]) \in Nat
      BY <2>2, LenProperties
    <2>6. Len(F[n]) <= Len(F[n + i])
      BY <2>3, <2>4, <2>5
    <2> QED  BY <1>0, <2>6
  <1> HIDE DEF S
  <1>6. Len(q) \in S
    <2>1. 0 .. Len(q) \subseteq S
      BY <1>0, <1>4, <1>5, CountUp
    <2> QED  BY <1>0, <2>1
  <1> QED  BY <1>1, <1>2, <1>3, <1>6 DEF S, s

\* Replacing a snapshot by a snapshot.
LEMMA MandatoryReplace ==
    ASSUME NEW s \in Seq(Events), NEW x \in 1 .. Len(s), NEW e \in Events,
           ~IsMandatory(s[x]), ~IsMandatory(e)
    PROVE  MandatoryIn(ReplaceAt(s, x, e)) = MandatoryIn(s)
  <1> DEFINE t == ReplaceAt(s, x, e)
  <1>1. /\ t \in Seq(Events) /\ Len(t) = Len(s) /\ Len(s) \in Nat
        /\ \A i \in 1 .. Len(s) : t[i] = IF i = x THEN e ELSE s[i]
    BY LenProperties, ExceptSeq DEF ReplaceAt
  <1> HIDE DEF t
  <1>2. \A i \in 1 .. Len(s) : IsMandatory(t[i]) = IsMandatory(s[i])
                               /\ (IsMandatory(t[i]) => t[i] = s[i])
    <2> TAKE i \in 1 .. Len(s)
    <2>1. CASE i = x
      <3>1. IsMandatory(t[i]) = FALSE /\ IsMandatory(s[i]) = FALSE
        BY <1>1, <2>1 DEF IsMandatory
      <3> QED  BY <3>1
    <2>2. CASE i # x
      BY <1>1, <2>2
    <2> QED  BY <2>1, <2>2
  <1>3. UpTo(t)[Len(s)] = UpTo(s)[Len(s)]
    BY <1>1, <1>2, UpToAgree
  <1> QED  BY <1>1, <1>3, UpToProperty DEF t

\* Removing a snapshot.
LEMMA MandatoryRemove ==
    ASSUME NEW s \in Seq(Events), NEW x \in 1 .. Len(s), ~IsMandatory(s[x])
    PROVE  MandatoryIn(RemoveAt(s, x)) = MandatoryIn(s)
  <1> DEFINE t == RemoveAt(s, x)
             F == UpTo(s)
             G == UpTo(t)
             old(i) == IF i < x THEN i ELSE i + 1
             S == {i \in 0 .. Len(s) - 1 : G[i] = F[old(i)]}
  <1>1. /\ t \in Seq(Events) /\ Len(t) = Len(s) - 1 /\ Len(s) \in Nat /\ Len(t) \in Nat
        /\ \A i \in 1 .. Len(s) - 1 : t[i] = IF i < x THEN s[i] ELSE s[i + 1]
    BY Removed, LenProperties
  <1> HIDE DEF t
  <1>2. /\ MandatoryIn(s) = F[Len(s)] /\ F[0] = <<>>
        /\ \A i \in 1 .. Len(s) : F[i] = IF IsMandatory(s[i]) THEN Append(F[i - 1], s[i]) ELSE F[i - 1]
    BY UpToProperty
  <1>3. /\ MandatoryIn(t) = G[Len(t)] /\ G[0] = <<>>
        /\ \A i \in 1 .. Len(t) : G[i] = IF IsMandatory(t[i]) THEN Append(G[i - 1], t[i]) ELSE G[i - 1]
    BY <1>1, UpToProperty
  <1> HIDE DEF F, G
  <1>4. F[x] = F[x - 1]
    BY <1>2
  <1>5. 0 \in S
    BY <1>1, <1>2, <1>3
  <1>6. ASSUME NEW i \in 1 .. Len(s) - 1, i - 1 \in S
        PROVE  i \in S
    <2>1. i \in 1 .. Len(t) /\ old(i) \in 1 .. Len(s) /\ t[i] = s[old(i)] /\ i \in 0 .. Len(s) - 1
          /\ i \in Int /\ x \in Int
      BY <1>1
    <2>2. G[i - 1] = F[old(i) - 1]
      <3>1. G[i - 1] = F[old(i - 1)]
        BY <1>6
      <3>2. CASE i < x
        <4>1. old(i - 1) = i - 1 /\ old(i) - 1 = i - 1
          BY <2>1, <3>2
        <4> QED  BY <3>1, <4>1
      <3>3. CASE i = x
        <4>1. old(i - 1) = x - 1 /\ old(i) - 1 = x
          BY <2>1, <3>3
        <4> QED  BY <1>4, <3>1, <4>1
      <3>4. CASE i > x
        <4>1. old(i - 1) = i /\ old(i) - 1 = i
          BY <2>1, <3>4
        <4> QED  BY <3>1, <4>1
      <3> QED  BY <2>1, <3>2, <3>3, <3>4
    <2> HIDE DEF old
    <2>3. G[i] = F[old(i)]
      BY <1>2, <1>3, <2>1, <2>2
    <2> QED  BY <2>1, <2>3
  <1>7. Len(t) \in S
    <2> HIDE DEF S
    <2>1. 0 .. Len(s) - 1 \subseteq S
      BY <1>1, <1>5, <1>6, CountUp
    <2> QED  BY <1>1, <2>1
  <1>8. G[Len(t)] = F[old(Len(t))]
    BY <1>7
  <1>9. F[old(Len(t))] = F[Len(s)]
    <2>1. CASE Len(t) < x
      <3>1. x = Len(s) /\ old(Len(t)) = x - 1
        BY <1>1, <2>1
      <3> QED  BY <1>4, <3>1
    <2>2. CASE ~(Len(t) < x)
      <3>1. old(Len(t)) = Len(s)
        BY <1>1, <2>2
      <3> QED  BY <3>1
    <2> QED  BY <2>1, <2>2
  <1> QED  BY <1>2, <1>3, <1>8, <1>9 DEF t

\* push_event_coalesced adds and drops no mandatory event.
LEMMA MandatoryPush ==
    ASSUME NEW d \in Seq(Events), NEW q \in Seq(Events), NEW e \in Events, e.type = "partial",
           NEW bound \in Int
    PROVE  MandatoryIn(d \o PushPartial(q, e, bound)) = MandatoryIn(d \o q)
  <1> DEFINE P == PartialsIn(q)
             s == d \o q
  <1>0. /\ s \in Seq(Events) /\ Len(d) \in Nat /\ Len(q) \in Nat /\ Len(s) = Len(d) + Len(q)
        /\ \A i \in 1 .. Len(d) + Len(q) : s[i] = IF i <= Len(d) THEN d[i] ELSE q[i - Len(d)]
    BY ConcatProperties, LenProperties
  <1>1. /\ P \subseteq 1 .. Len(q) /\ P \subseteq Nat /\ \A i \in P : q[i].type = "partial"
        /\ ~IsMandatory(e)
    BY LenProperties DEF PartialsIn, IsMandatory
  <1>2. PushPartial(q, e, bound) =
          IF aggressive /\ P # {} THEN Append(RemoveAt(q, Min(P)), e)
          ELSE IF Len(q) < bound THEN Append(q, e)
          ELSE IF P # {} THEN ReplaceAt(q, Max(P), e) ELSE q
    BY DEF PushPartial
  <1> HIDE DEF P, s
  <1>3. ASSUME NEW x \in P
        PROVE  LET y == Len(d) + x
               IN  x \in 1 .. Len(q) /\ y \in 1 .. Len(s) /\ ~IsMandatory(s[y])
    <2> DEFINE y == Len(d) + x
    <2>1. /\ x \in 1 .. Len(q) /\ y \in 1 .. Len(d) + Len(q) /\ ~(y <= Len(d)) /\ y - Len(d) = x
          /\ q[x].type = "partial"
      BY <1>0, <1>1
    <2> HIDE DEF y
    <2>2. s[y] = q[x]
      BY <1>0, <2>1
    <2> QED  BY <1>0, <2>1, <2>2 DEF y, IsMandatory
  <1>4. ASSUME NEW r \in Seq(Events)
        PROVE  MandatoryIn(d \o Append(r, e)) = MandatoryIn(d \o r)
    <2>1. d \o Append(r, e) = Append(d \o r, e) /\ d \o r \in Seq(Events)
      BY LogAppend, ConcatProperties
    <2> QED  BY <1>1, <2>1, MandatoryAppend
  <1>5. CASE aggressive /\ P # {}
    <2> DEFINE x == Min(P)
               y == Len(d) + x
    <2>1. x \in P
      BY <1>1, <1>5, MinProperty
    <2> HIDE DEF x
    <2>2. x \in 1 .. Len(q) /\ y \in 1 .. Len(s) /\ ~IsMandatory(s[y])
      BY <1>3, <2>1
    <2>3. RemoveAt(q, x) \in Seq(Events) /\ d \o RemoveAt(q, x) = RemoveAt(s, y)
      BY <2>2, Removed, LogRemove DEF s
    <2> HIDE DEF y
    <2>4. MandatoryIn(RemoveAt(s, y)) = MandatoryIn(s)
      BY <1>0, <2>2, MandatoryRemove
    <2>5. MandatoryIn(d \o Append(RemoveAt(q, x), e)) = MandatoryIn(s)
      BY <1>4, <2>3, <2>4
    <2> QED  BY <1>2, <1>5, <2>5 DEF s, x
  <1>6. CASE ~(aggressive /\ P # {}) /\ Len(q) < bound
    BY <1>2, <1>4, <1>6
  <1>7. CASE ~(aggressive /\ P # {}) /\ ~(Len(q) < bound) /\ P # {}
    <2> DEFINE x == Max(P)
               y == Len(d) + x
    <2>1. x \in P
      BY <1>0, <1>1, <1>7, MaxProperty
    <2> HIDE DEF x
    <2>2. x \in 1 .. Len(q) /\ y \in 1 .. Len(s) /\ ~IsMandatory(s[y])
      BY <1>3, <2>1
    <2>3. d \o ReplaceAt(q, x, e) = ReplaceAt(s, y, e)
      BY <2>2, LogReplace DEF s
    <2> HIDE DEF y
    <2>4. MandatoryIn(ReplaceAt(s, y, e)) = MandatoryIn(s)
      BY <1>0, <1>1, <2>2, MandatoryReplace
    <2> QED  BY <1>2, <1>7, <2>3, <2>4 DEF s, x
  <1>8. CASE ~(aggressive /\ P # {}) /\ ~(Len(q) < bound) /\ P = {}
    BY <1>2, <1>8 DEF s
  <1> QED  BY <1>5, <1>6, <1>7, <1>8
-----------------------------------------------------------------------------
(***************************************************************************)
(* What a decoder step reads, what a completed stream has decoded, how a   *)
(* log ends, and that the stream keeps the contract of the public API:     *)
(* from here on for every stream whose feeds are no longer than one drain  *)
(* slice (ShortFeeds), as those of the server are.  Without ShortFeeds a   *)
(* ring is overwritten unread and the terminal reserve can be too small.   *)
(***************************************************************************)
-----------------------------------------------------------------------------
(* Slots of a ring.                                                        *)

\* A number is a multiple of the divisor and its remainder.
LEMMA DivMod ==
    ASSUME NEW a \in Int, NEW n \in Nat \ {0}
    PROVE  \E k \in Int, s \in 0 .. n - 1 : s = a % n /\ a = n * k + s
  <1>1. a = (a \div n) * n + (a % n)
    BY SMTT(60)
  <1>2. a \div n \in Int /\ a % n \in 0 .. n - 1
    OBVIOUS
  <1>3. PICK k \in Int, s \in 0 .. n - 1 : s = a % n /\ a = k * n + s
    BY <1>1, <1>2, Zenon
  <1>4. k * n = n * k
    OBVIOUS
  <1> QED  BY <1>3, <1>4, Zenon

\* Multiples of a positive number are at least that number apart.
LEMMA Times ==
    ASSUME NEW n \in Nat \ {0}, NEW k \in Int, NEW m \in Int, k < m
    PROVE  n * k + n <= n * m
  <1>1. PICK d \in Nat : m = k + 1 + d
    <2>1. m - k - 1 \in Nat /\ m = k + 1 + (m - k - 1)
      OBVIOUS
    <2> QED  BY <2>1
  <1>2. n * m = n * k + n + n * d
    BY <1>1
  <1>3. n * d \in Nat /\ n * k \in Int /\ n * m \in Int
    OBVIOUS
  <1> QED  BY <1>2, <1>3

\* Two numbers with one remainder that are less than the divisor apart are one.
LEMMA SlotInjective ==
    ASSUME NEW n \in Nat \ {0}, NEW a \in Int, NEW b \in Int,
           a % n = b % n, a < b + n, b < a + n
    PROVE  a = b
  <1>1. PICK k \in Int, s \in 0 .. n - 1 : s = a % n /\ a = n * k + s
    BY DivMod
  <1>2. PICK m \in Int, t \in 0 .. n - 1 : t = b % n /\ b = n * m + t
    BY DivMod
  <1> DEFINE x == n * k
             y == n * m
  <1>3. /\ x \in Int /\ y \in Int /\ s = t /\ a = x + s /\ b = y + t
        /\ s \in Int /\ t \in Int
    BY <1>1, <1>2
  <1>4. k < m => x + n <= y
    BY Times
  <1>5. m < k => y + n <= x
    BY Times
  <1>6. k = m => x = y
    OBVIOUS
  <1> HIDE DEF x, y
  <1>7. k = m
    BY <1>3, <1>4, <1>5
  <1> QED  BY <1>3, <1>6, <1>7

\* The last group before hi in the slot of a group less than one lap back is
\* that group.
LEMMA LastInItsSlot ==
    ASSUME NEW size \in Nat \ {0}, NEW hi \in Nat, NEW g \in Nat,
           g < hi, hi <= g + size
    PROVE  LastInSlot(g % size, size, hi) = g
  <1> DEFINE s == g % size
             d == hi - 1 - s
             r == d % size
  <1>0. s \in 0 .. size - 1 /\ d \in Int
    BY ModProperty
  <1> HIDE DEF d
  <1>1. s \in 0 .. size - 1 /\ d \in Int /\ r \in 0 .. size - 1
    BY <1>0, ModProperty
  <1>2. PICK k \in Int : g = size * k + s
    <2>1. PICK k \in Int, t \in 0 .. size - 1 : t = s /\ g = size * k + t
      BY DivMod
    <2> QED  BY <2>1
  <1>3. PICK m \in Int : d = size * m + r
    <2>1. PICK m \in Int, t \in 0 .. size - 1 : t = r /\ d = size * m + t
      BY <1>1, DivMod
    <2> QED  BY <2>1
  <1> DEFINE x == size * k
             y == size * m
  <1>4. /\ x \in Int /\ y \in Int /\ g = x + s /\ hi - 1 - s = y + r
        /\ LastInSlot(s, size, hi) = hi - 1 - r
    BY <1>2, <1>3 DEF LastInSlot, d
  <1>5. k < m => x + size <= y
    BY Times
  <1>6. m < k => y + size <= x
    BY Times
  <1>7. k = m => x = y
    OBVIOUS
  <1> HIDE DEF x, y, r, d, s
  <1>8. hi - 1 - r = y + s
    BY <1>1, <1>4
  <1>9. k = m
    BY <1>1, <1>4, <1>5, <1>6, <1>8
  <1> QED  BY <1>4, <1>7, <1>8, <1>9 DEF s

-----------------------------------------------------------------------------
(* The inductive invariant.                                                *)

\* The first group no decoder step has read, and how many are ahead of it.
Reads == IF prefilled THEN position ELSE PrefillLen
Ahead == IF emitted > Reads THEN emitted - Reads ELSE 0

\* What holds the adapter back.
Limit == (IF prefilled THEN position ELSE 0) + AembRing

\* A feed is one slice, which is taken before the pump runs; a slice that is
\* still to come meets no stall.
OneSlice ==
    /\ asked <= SliceGroups
    /\ full \/ after = "slice" => todo = 0
    /\ pc = "slice" => (full <=> pending.valid)
    /\ outcome # "ok" => pc = "pumped"

\* How far the encoder is.
Emission ==
    /\ FeedAllowed => emitted = Realizable(pushed)
    /\ state = "finishing" =>
          received > 0 /\ pushed = LeftPad + received + RightPad /\ emitted = pushed
    /\ committed <= emitted

\* Where the decoder is: one group behind its prompt for every token, and never
\* past what the adapter committed.
Place ==
    /\ position = IF prefilled THEN PrefillLen + Len(tokens) ELSE 0
    /\ prefilled <=> committed >= PrefillLen
    /\ ~prefilled => tokens = <<>> /\ ~eos
    /\ position <= committed /\ committed <= Limit
    /\ pending.valid => /\ ~eos /\ position < committed
                        /\ pending.row = <<gen, position>>

\* The rings hold what is still to be read.
EncRows ==
    \A g \in Nat : emitted <= g + EncRing /\ g < emitted =>
        encRing[g % EncRing] = <<gen, g>>

AembRows ==
    ~eos => \A g \in Nat : position <= g /\ g < committed =>
                aemb[g % AembRing] = <<gen, g>>

\* A pump commits everything that was emitted before it, and a call that does
\* not stall leaves nothing to the next one.
Alive == state \in {"created", "running", "finishing"} /\ outcome # "error"

CaughtUp ==
    Alive /\ ~eos =>
        /\ pc # "pump" => committed = emitted
        /\ pc = "pump" => emitted <= committed + EncRing /\ emitted <= Limit
        /\ pc \in {"idle", "slice", "pumped"} /\ ~pending.valid /\ prefilled =>
               position = committed

\* An eager feed has room for a TOKEN event of every group ahead, and for the
\* first snapshot.
Crowd(q) == Len(q) + (IF PartialsIn(q) = {} THEN 1 ELSE 0)

EagerRoom ==
    aggressive =>
        /\ pc # "idle" /\ FeedAllowed /\ after \in {"none", "slice"}
        /\ ~full /\ ~pending.valid /\ outcome # "queue_full"
        /\ ~eos => Crowd(queue) + todo + Ahead <= MaxEvents

\* The reserve holds what the tail still brings: a TOKEN and a snapshot for
\* every group ahead.
TailRoom ==
    state = "finishing" =>
        /\ Len(queue) + 2 * (IF eos THEN 0 ELSE Ahead)
              <= MaxEvents + 2 * (RightPad + 1)
        /\ ~pending.valid /\ outcome # "queue_full"

\* The counters of the pump.
CountInv == OneSlice /\ Emission /\ Place /\ CaughtUp /\ EagerRoom /\ TailRoom

\* The rows of the rings and of the tokens.
RowInv == EncRows /\ AembRows /\ DecodesOwnAudio

FlowInv == IInv /\ CountInv /\ RowInv /\ WholeAudioDecoded

\* A fresh stream satisfies the invariant.
LEMMA InitFlow == Init => FlowInv
  <1> USE StreamConstants, RingConstants DEF PrefillLen
  <1> SUFFICES ASSUME Init
               PROVE  FlowInv
    OBVIOUS
  <1>1. IInv
    BY InitIInv
  <1>2. OneSlice /\ Emission /\ EagerRoom /\ TailRoom
    BY DEF Init, OneSlice, Emission, EagerRoom, TailRoom, FeedAllowed, NoToken, Realizable
  <1>3. Place /\ CaughtUp
    BY DEF Init, Place, CaughtUp, Limit, NoToken
  <1>4. EncRows /\ AembRows
    BY DEF Init, EncRows, AembRows
  <1>5. DecodesOwnAudio /\ WholeAudioDecoded
    BY DEF Init, DecodesOwnAudio, WholeAudioDecoded
  <1> QED  BY <1>1, <1>2, <1>3, <1>4, <1>5 DEF FlowInv, CountInv, RowInv

-----------------------------------------------------------------------------
(* Steps that leave the decoder and the rings alone.                       *)

\* The rows of the rings stay what they are.
LEMMA RowsStay ==
    ASSUME RowInv, Place, UNCHANGED <<emitted, encRing, decodeVars, gen>>
    PROVE  RowInv' /\ Place'
  <1> USE DEF decodeVars
  <1>1. EncRows' /\ AembRows'
    BY DEF RowInv, EncRows, AembRows
  <1>2. DecodesOwnAudio'
    BY DEF RowInv, DecodesOwnAudio
  <1>3. Place'
    BY DEF Place, Limit
  <1> QED  BY <1>1, <1>2, <1>3 DEF RowInv

\* A stream that ends keeps the invariant.
LEMMA EndingStep ==
    ASSUME FlowInv, IInv', NEW r, Return(r), aggressive' = FALSE,
           state' \in {"completed", "failed", "cancelled"},
           UNCHANGED <<emitted, encRing, decodeVars, gen>>,
           WholeAudioDecoded'
    PROVE  FlowInv'
  <1> USE StreamConstants DEF FlowInv, CountInv
  <1>1. RowInv' /\ Place'
    BY RowsStay
  <1>2. OneSlice' /\ Emission'
    BY DEF Return, OneSlice, Emission, FeedAllowed, decodeVars
  <1>3. CaughtUp' /\ EagerRoom' /\ TailRoom'
    BY DEF CaughtUp, Alive, EagerRoom, TailRoom
  <1> QED  BY <1>1, <1>2, <1>3

\* A stream that fails keeps the invariant.
LEMMA FailingStep ==
    ASSUME FlowInv, FailStream, pushed' \in Nat,
           UNCHANGED <<emitted, encRing, received, decodeVars, clientVars>>
    PROVE  FlowInv'
  <1>1. IInv'
    BY FailStreamStep DEF FlowInv
  <1>2. WholeAudioDecoded'
    BY DEF FailStream, WholeAudioDecoded
  <1>3. aggressive' = FALSE /\ state' = "failed" /\ Return("error")
    BY DEF FailStream
  <1> QED  BY <1>1, <1>2, <1>3, EndingStep DEF clientVars

\* A call that returns without touching the stream.
LEMMA ReturningStep ==
    ASSUME FlowInv, IInv', NEW r, Return(r), pc \in {"idle", "pumped"}, ~aggressive,
           state = "finishing" => outcome = "ok", outcome # "error",
           UNCHANGED <<state, eventVars, audioVars, decodeVars, clientVars>>
    PROVE  FlowInv'
  <1> USE StreamConstants DEF FlowInv, CountInv, eventVars, audioVars, clientVars
  <1>1. RowInv' /\ Place'
    BY RowsStay
  <1>2. OneSlice' /\ Emission'
    BY DEF Return, OneSlice, Emission, FeedAllowed, decodeVars
  <1>3. CaughtUp' /\ EagerRoom' /\ TailRoom'
    BY DEF Return, CaughtUp, Alive, EagerRoom, TailRoom, decodeVars, Ahead, Reads
  <1>4. WholeAudioDecoded'
    BY DEF WholeAudioDecoded, decodeVars
  <1> QED  BY <1>1, <1>2, <1>3, <1>4

\* A stalled stream hands over to the pump.
LEMMA ResumingStep ==
    ASSUME FlowInv, IInv', NEW k \in {"resume", "drain"}, RunPump(k), pc = "idle", FeedAllowed,
           asked' <= SliceGroups, todo' = todo, full' = full,
           UNCHANGED <<state, eventVars, audioVars, decodeVars, clientVars>>
    PROVE  FlowInv'
  <1> USE StreamConstants DEF FlowInv, CountInv, eventVars, audioVars, clientVars
  <1>1. RowInv' /\ Place'
    BY RowsStay
  <1>0. ~aggressive /\ outcome = "ok" /\ (committed = emitted \/ eos)
    BY DEF OneSlice, EagerRoom, CaughtUp, Alive, FeedAllowed
  <1>2. OneSlice' /\ Emission'
    BY DEF RunPump, OneSlice, Emission, FeedAllowed, decodeVars
  <1>3. CaughtUp'
    BY DEF RunPump, OneSlice, CaughtUp, Alive, decodeVars, IInv, TypeOK, Place, Limit, FeedAllowed
  <1>4. EagerRoom' /\ TailRoom'
    BY DEF RunPump, EagerRoom, TailRoom, decodeVars, FeedAllowed
  <1>5. WholeAudioDecoded'
    BY DEF WholeAudioDecoded, decodeVars
  <1> QED  BY <1>1, <1>2, <1>3, <1>4, <1>5

\* Between pumps a stream that did not stall has nothing ahead.
LEMMA NothingAhead ==
    ASSUME IInv, Place, CaughtUp, state \in {"created", "running", "finishing"},
           outcome # "error", pc \in {"idle", "slice", "pumped"}, ~pending.valid, ~eos
    PROVE  Ahead = 0 /\ emitted <= Reads
  <1>1. /\ committed = emitted /\ committed \in Nat /\ PrefillLen \in Nat
        /\ position \in Nat /\ emitted \in Nat
    BY StreamConstants DEF CaughtUp, Alive, IInv, TypeOK, PrefillLen
  <1>2. CASE prefilled
    BY <1>1, <1>2 DEF CaughtUp, Alive, Ahead, Reads
  <1>3. CASE ~prefilled
    BY <1>1, <1>3 DEF Place, Ahead, Reads
  <1> QED  BY <1>2, <1>3

-----------------------------------------------------------------------------
(* feed                                                                    *)

\* A feed that is accepted, or answered at once.
LEMMA AcceptingStep ==
    ASSUME FlowInv, IInv', NEW n \in Nat, n <= SliceGroups, AcceptFeed(n), FeedAllowed,
           pc \in {"idle", "pumped"}, after \in {"none", "resume"}, outcome = "ok",
           ~pending.valid,
           UNCHANGED <<state, queue, finalizing, backpressured, audioVars,
                       decodeVars, clientVars>>
    PROVE  FlowInv'
  <1> USE StreamConstants DEF FlowInv, CountInv, audioVars, clientVars
  <1>0. ~aggressive
    <2>1. after = "none" => pc = "idle"
      BY DEF IInv, Phase
    <2> QED  BY <2>1 DEF EagerRoom, IInv, Phase
  <1>1. CASE /\ res' \in {"ok", "invalid_argument"} /\ Return(res')
             /\ UNCHANGED aggressive
    BY <1>0, <1>1, ReturningStep DEF eventVars
  <1>2. CASE /\ aggressive' = Eager(n)
             /\ pc' = "slice" /\ asked' = n /\ todo' = n /\ full' = FALSE
             /\ after' = "none" /\ outcome' = "ok"
             /\ UNCHANGED res
    <2>1. RowInv' /\ Place'
      BY RowsStay
    <2>2. OneSlice' /\ Emission'
      BY <1>2 DEF OneSlice, Emission, FeedAllowed, decodeVars
    <2>3. CaughtUp' /\ TailRoom' /\ WholeAudioDecoded'
      BY <1>2 DEF CaughtUp, Alive, TailRoom, WholeAudioDecoded, decodeVars, FeedAllowed
    <2>4. EagerRoom'
      <3>1. ~eos => Ahead = 0
        BY NothingAhead DEF FeedAllowed
      <3>2. Eager(n) => Crowd(queue) + n <= MaxEvents
        <4>1. Len(queue) \in Nat
          BY SMTT(30) DEF IInv, TypeOK
        <4>2. Crowd(queue) <= Len(queue) + 1 /\ Crowd(queue) \in Nat
          BY <4>1 DEF Crowd
        <4> QED  BY <4>1, <4>2 DEF Eager, TokenEstimate
      <3>3. ~eos => n + Ahead = n
        BY <3>1
      <3>4. ~eos' /\ aggressive' => Crowd(queue') + todo' + Ahead' <= MaxEvents
        BY <1>2, <3>1, <3>2 DEF decodeVars, Ahead, Reads, Crowd, IInv, TypeOK
      <3> QED  BY <1>2, <3>4 DEF EagerRoom, FeedAllowed, decodeVars
    <2> QED  BY <2>1, <2>2, <2>3, <2>4
  <1> QED  BY <1>1, <1>2 DEF AcceptFeed, Return

LEMMA CallFeedFlow ==
    ASSUME FlowInv, NEW n \in Nat, n <= SliceGroups, CallFeed(n)
    PROVE  FlowInv'
  <1>1. IInv'
    BY CallFeedStep DEF FlowInv
  <1>2. /\ pc = "idle" /\ after = "none" /\ ~aggressive /\ outcome = "ok"
        /\ backpressured <=> pending.valid
    BY DEF CallFeed, FlowInv, CountInv, OneSlice, EagerRoom, IInv, Phase, Held
  <1>3. CASE FeedAllowed /\ ~backpressured /\ AcceptFeed(n)
    BY <1>1, <1>2, <1>3, AcceptingStep DEF CallFeed
  <1>4. CASE /\ FeedAllowed /\ backpressured /\ RunPump("resume")
             /\ asked' = n /\ UNCHANGED <<todo, full, aggressive>>
    BY <1>1, <1>2, <1>4, ResumingStep DEF CallFeed, eventVars
  <1>5. CASE ~FeedAllowed /\ Return("invalid_state") /\ UNCHANGED aggressive
    BY <1>1, <1>2, <1>5, ReturningStep DEF CallFeed, eventVars
  <1> QED  BY <1>3, <1>4, <1>5 DEF CallFeed

LEMMA FeedResumedFlow ==
    ASSUME FlowInv, FeedResumed
    PROVE  FlowInv'
  <1>1. IInv'
    BY FeedResumedStep DEF FlowInv
  <1>2. /\ pc = "pumped" /\ after = "resume" /\ FeedAllowed /\ ~aggressive
        /\ asked \in Nat /\ asked <= SliceGroups
        /\ UNCHANGED <<audioVars, decodeVars, clientVars>>
        /\ outcome = "ok" => ~pending.valid
    BY DEF FeedResumed, FlowInv, CountInv, OneSlice, EagerRoom, IInv, TypeOK, Phase, Held
  <1>3. CASE outcome = "ok"
    BY <1>1, <1>2, <1>3, AcceptingStep DEF FeedResumed
  <1>4. CASE outcome = "queue_full"
    BY <1>1, <1>2, <1>4, ReturningStep DEF FeedResumed, FeedAllowed
  <1>5. CASE outcome = "error"
    BY <1>2, <1>5, FailingStep DEF FeedResumed, FlowInv, IInv, TypeOK, audioVars
  <1> QED  BY <1>3, <1>4, <1>5 DEF FeedResumed

\* The encoder moves on: no group of the last lap is lost.
LEMMA EmitRows ==
    ASSUME IInv, NEW e \in Nat, emitted <= e, EmitUpTo(e), EncRows, gen' = gen
    PROVE  EncRows'
  <1> DEFINE rows == [g \in emitted .. e - 1 |-> <<gen, g>>]
  <1>1. emitted' = e /\ encRing' = WriteRing(encRing, EncRing, emitted, e, rows)
    BY DEF EmitUpTo
  <1>2. emitted \in Nat /\ EncRing \in Nat \ {0}
    BY StreamConstants DEF IInv, TypeOK
  <1> HIDE DEF rows
  <1> SUFFICES ASSUME NEW g \in Nat, e <= g + EncRing, g < e
               PROVE  encRing'[g % EncRing] = <<gen, g>>
    BY <1>1 DEF EncRows
  <1>3. encRing'[g % EncRing] = IF g >= emitted THEN rows[g] ELSE encRing[g % EncRing]
    <2>1. WriteRing(encRing, EncRing, emitted, e, rows)[g % EncRing]
              = IF g >= emitted THEN rows[g] ELSE encRing[g % EncRing]
      <3>1. LastInSlot(g % EncRing, EncRing, e) = g
        BY <1>2, LastInItsSlot
      <3>2. g % EncRing \in 0 .. EncRing - 1
        BY <1>2, ModProperty
      <3> QED  BY <3>1, <3>2 DEF WriteRing
    <2> QED  BY <1>1, <2>1
  <1>4. CASE g >= emitted
    BY <1>2, <1>3, <1>4 DEF rows
  <1>5. CASE ~(g >= emitted)
    <2>1. emitted <= g + EncRing /\ g < emitted
      BY <1>2, <1>5
    <2> QED  BY <1>3, <1>5, <2>1 DEF EncRows
  <1> QED  BY <1>4, <1>5

LEMMA FeedSliceFlow ==
    ASSUME FlowInv, FeedSlice
    PROVE  FlowInv'
  <1> USE StreamConstants, RingConstants
          DEF FlowInv, CountInv, RowInv, eventVars, decodeVars, clientVars
  <1> DEFINE p == PushedAfter(todo)
             e == Realizable(p)
  <1>0. IInv'
    BY FeedSliceStep
  <1>1. /\ pc = "slice" /\ todo > 0 /\ todo \in Nat /\ asked \in Nat /\ todo <= SliceGroups
        /\ ~full /\ ~pending.valid /\ outcome = "ok" /\ FeedAllowed /\ after = "none"
        /\ pushed \in Nat /\ emitted \in Nat /\ committed \in Nat /\ position \in Nat
        /\ received \in Nat /\ Len(queue) \in Nat
    BY DEF FeedSlice, OneSlice, IInv, TypeOK, Phase
  <1>2. SliceSize = todo
    BY <1>1 DEF SliceSize
  <1>3. /\ pushed' = p /\ EmitUpTo(e) /\ emitted' = e /\ todo' = 0
        /\ pc' = "pump" /\ after' = "slice"
        /\ UNCHANGED <<state, eventVars, received, decodeVars, outcome, asked, full, res,
                       clientVars>>
    BY <1>1, <1>2 DEF FeedSlice, EmitUpTo
  <1>4. /\ emitted = Realizable(pushed)
        /\ pushed = 0 \/ pushed > LeftPad
    BY <1>1 DEF Emission, IInv, Credit, Consumed, Phase
  <1>5. /\ e \in Nat /\ emitted <= e
        /\ \/ emitted = 0 /\ e = LeftPad + todo - 1
           \/ e = emitted + todo
    BY <1>1, <1>4 DEF Realizable, PushedAfter
  <1> HIDE DEF p, e
  <1>6. EncRows'
    BY <1>1, <1>3, <1>5, EmitRows
  <1>7. AembRows' /\ DecodesOwnAudio' /\ WholeAudioDecoded'
    BY <1>1, <1>3 DEF AembRows, DecodesOwnAudio, WholeAudioDecoded, FeedAllowed
  <1>8. OneSlice'
    BY <1>1, <1>3 DEF OneSlice
  <1>9. Emission'
    BY <1>1, <1>3, <1>5 DEF Emission, FeedAllowed, e
  <1>10. Place'
    BY <1>3 DEF Place, Limit
  <1>11. CaughtUp'
    <2> SUFFICES ASSUME ~eos
                 PROVE  e <= committed + EncRing /\ e <= Limit
      BY <1>3 DEF CaughtUp, Limit
    <2>1. committed = emitted /\ (prefilled => position = committed)
      BY <1>1 DEF CaughtUp, Alive, FeedAllowed
    <2>2. e <= committed + EncRing
      BY <1>1, <1>5, <2>1
    <2>3. CASE prefilled
      <3>1. emitted >= LeftPad
        BY <1>1, <2>1, <2>3 DEF Place, PrefillLen
      <3> QED  BY <1>1, <1>5, <2>1, <2>3, <3>1 DEF Limit
    <2>4. CASE ~prefilled
      <3>1. committed < PrefillLen
        BY <1>1, <2>4 DEF Place, PrefillLen
      <3> QED  BY <1>1, <1>5, <2>1, <2>4, <3>1 DEF Limit, PrefillLen
    <2> QED  BY <2>2, <2>3, <2>4
  <1>12. EagerRoom'
    <2> SUFFICES ASSUME aggressive, ~eos
                 PROVE  Crowd(queue) + 0 + Ahead' <= MaxEvents
      BY <1>1, <1>3 DEF EagerRoom, FeedAllowed, Crowd
    <2>1. Crowd(queue) + todo + Ahead <= MaxEvents
      BY DEF EagerRoom
    <2>2. Ahead = 0 /\ emitted <= Reads /\ Reads \in Nat
      BY <1>1, NothingAhead DEF FeedAllowed, Reads, PrefillLen
    <2>3. Reads' = Reads
      BY <1>3 DEF Reads
    <2>4. e <= Reads + todo
      <3>1. CASE prefilled
        <4>1. committed >= PrefillLen /\ committed <= emitted
          BY <3>1 DEF Place, Emission
        <4>2. emitted >= LeftPad
          BY <1>1, <4>1 DEF PrefillLen
        <4> QED  BY <1>1, <1>5, <2>2, <4>2
      <3>2. CASE ~prefilled
        BY <1>1, <1>5, <2>2, <3>2 DEF Reads, PrefillLen
      <3> QED  BY <3>1, <3>2
    <2>5. Ahead' <= todo /\ Ahead' \in Nat
      BY <1>1, <1>3, <1>5, <2>2, <2>3, <2>4 DEF Ahead
    <2>6. Crowd(queue) \in Nat
      BY <1>1 DEF Crowd
    <2> QED  BY <1>1, <2>1, <2>2, <2>5, <2>6
  <1>13. TailRoom'
    BY <1>1, <1>3 DEF TailRoom, FeedAllowed
  <1> QED  BY <1>0, <1>6, <1>7, <1>8, <1>9, <1>10, <1>11, <1>12, <1>13

LEMMA FeedSliceFailsFlow ==
    ASSUME FlowInv, FeedSliceFails
    PROVE  FlowInv'
  <1>1. pushed' \in Nat
    BY StreamConstants DEF FlowInv, IInv, TypeOK, FeedSliceFails, SliceLost, SliceSize, PushedAfter
  <1> QED  BY <1>1, FailingStep DEF FeedSliceFails

LEMMA FeedPumpedFlow ==
    ASSUME FlowInv, FeedPumped
    PROVE  FlowInv'
  <1> USE DEF audioVars, clientVars
  <1>1. IInv'
    BY FeedPumpedStep DEF FlowInv
  <1>2. CASE outcome = "error"
    BY <1>2, FailingStep DEF FeedPumped, FlowInv, IInv, TypeOK
  <1>3. CASE outcome # "error"
    <2> USE DEF FlowInv, CountInv, eventVars
    <2>1. /\ pc = "pumped" /\ after = "slice" /\ FeedAllowed /\ todo = 0
          /\ outcome \in {"ok", "queue_full"} /\ full' = (outcome = "queue_full")
          /\ outcome = "queue_full" <=> pending.valid
          /\ pc' = "slice" /\ after' = "none" /\ outcome' = "ok"
          /\ UNCHANGED <<state, eventVars, asked, todo, res, audioVars, decodeVars, clientVars>>
      BY <1>3 DEF FeedPumped, OneSlice, IInv, TypeOK, Phase, Held
    <2>2. RowInv' /\ Place'
      BY <2>1, RowsStay
    <2>3. OneSlice' /\ Emission'
      BY <2>1 DEF OneSlice, Emission, FeedAllowed, decodeVars
    <2>4. CaughtUp' /\ TailRoom' /\ WholeAudioDecoded'
      BY <2>1 DEF CaughtUp, Alive, TailRoom, WholeAudioDecoded, decodeVars, FeedAllowed
    <2>5. EagerRoom'
      BY <2>1 DEF EagerRoom, decodeVars, FeedAllowed, Ahead, Reads, Crowd
    <2> QED  BY <1>1, <2>2, <2>3, <2>4, <2>5
  <1> QED  BY <1>2, <1>3

LEMMA FeedReturnsFlow ==
    ASSUME FlowInv, FeedReturns
    PROVE  FlowInv'
  <1> USE DEF FlowInv, CountInv, clientVars
  <1>1. IInv'
    BY FeedReturnsStep
  <1>2. /\ pc = "slice" /\ FeedAllowed /\ state' = "running" /\ aggressive' = FALSE
        /\ pc' = "idle" /\ after' = "none" /\ outcome' = "ok" /\ outcome = "ok"
        /\ asked' = 0 /\ todo' = 0 /\ full' = FALSE
        /\ UNCHANGED <<queue, pushed, emitted, encRing, decodeVars, clientVars>>
    BY DEF FeedReturns, Return, OneSlice, IInv, Phase
  <1>3. RowInv' /\ Place'
    BY <1>2, RowsStay
  <1>4. OneSlice' /\ Emission'
    BY <1>2, StreamConstants DEF OneSlice, Emission, FeedAllowed, decodeVars
  <1>5. CaughtUp' /\ TailRoom' /\ WholeAudioDecoded' /\ EagerRoom'
    BY <1>2 DEF CaughtUp, Alive, TailRoom, WholeAudioDecoded, EagerRoom, decodeVars, FeedAllowed
  <1> QED  BY <1>1, <1>3, <1>4, <1>5

-----------------------------------------------------------------------------
(* pump_incremental                                                        *)

LEMMA PumpCommitFlow ==
    ASSUME FlowInv, PumpCommit
    PROVE  FlowInv'
  <1> USE StreamConstants, RingConstants
          DEF FlowInv, CountInv, RowInv, eventVars, audioVars, callVars, clientVars
  <1> DEFINE c == IF Committable > committed THEN Committable ELSE committed
             rows == [g \in committed .. c - 1 |-> encRing[g % EncRing]]
  <1>0. IInv'
    BY PumpCommitStep
  <1>1. /\ emitted \in Nat /\ committed \in Nat /\ position \in Nat
        /\ PrefillLen \in Nat /\ AembRing \in Nat \ {0} /\ EncRing \in Nat \ {0}
        /\ pc = "pump" /\ outcome = "ok" /\ Alive /\ after # "none" /\ prefilled \in BOOLEAN
        /\ Limit \in Nat
    BY DEF PumpCommit, IInv, TypeOK, OneSlice, Alive, Phase, FeedAllowed, PrefillLen, Limit
  <1>2. Committable = IF emitted < Limit THEN emitted ELSE Limit
    BY DEF Committable, Limit
  <1>3. /\ c \in Nat /\ committed <= c /\ c <= emitted /\ c <= Limit
        /\ ~eos => c = emitted /\ emitted <= committed + EncRing
    BY <1>1, <1>2 DEF Emission, Place, CaughtUp
  <1>4. /\ committed' = c /\ aemb' = WriteRing(aemb, AembRing, committed, c, rows)
        /\ prefilled' = (prefilled \/ c >= PrefillLen)
        /\ position' = IF ~prefilled /\ c >= PrefillLen THEN PrefillLen ELSE position
        /\ pc' = "flush"
        /\ UNCHANGED <<state, eventVars, audioVars, pending, eos, tokens,
                       seqno, steps, callVars, res, clientVars>>
    BY DEF PumpCommit
  <1> HIDE DEF c, rows
  <1> DEFINE Same == prefilled /\ prefilled' /\ position' = position
             Now  == ~prefilled /\ prefilled' /\ c >= PrefillLen /\ position' = PrefillLen
             Not  == ~prefilled /\ ~prefilled' /\ ~(c >= PrefillLen) /\ position' = position
  <1>a. Same \/ Now \/ Not
    <2>1. prefilled => Same
      BY <1>4, Zenon
    <2>2. ~prefilled /\ c >= PrefillLen => Now
      BY <1>4, Zenon
    <2>3. ~prefilled /\ ~(c >= PrefillLen) => Not
      BY <1>4, Zenon
    <2> QED  BY <2>1, <2>2, <2>3
  <1>b. /\ ~prefilled => position = 0
        /\ prefilled <=> committed >= PrefillLen
    BY DEF Place
  <1>5. /\ position' \in Nat /\ position <= position'
        /\ Limit' >= Limit /\ Limit' = position' + AembRing /\ Limit' \in Nat
        /\ c <= position' + AembRing
    <2>1. CASE Same
      BY <1>1, <1>3, <2>1 DEF Limit
    <2>2. CASE Now
      BY <1>1, <1>3, <1>b, <2>2 DEF Limit
    <2>3. CASE Not
      BY <1>1, <1>3, <1>b, <2>3 DEF Limit
    <2> QED  BY <1>a, <2>1, <2>2, <2>3
  <1>6. Place'
    <2>2. prefilled' <=> c >= PrefillLen
      <3>1. prefilled => c >= PrefillLen
        BY <1>1, <1>3, <1>b
      <3> QED  BY <1>a, <3>1
    <2>3. pending.valid => prefilled /\ position' = position
      BY <1>4 DEF IInv, Held
    <2>4. position' = IF prefilled' THEN PrefillLen + Len(tokens) ELSE 0
      BY <1>1, <1>4, <1>a, <2>2 DEF Place
    <2>5. position' <= c /\ (pending.valid => position' < c)
      BY <1>1, <1>3, <1>4, <2>3 DEF Place
    <2>6. ~prefilled' => ~prefilled
      BY <1>a
    <2> QED  BY <1>1, <1>3, <1>4, <1>5, <2>2, <2>3, <2>4, <2>5, <2>6 DEF Place
  <1>7. AembRows'
    <2> SUFFICES ASSUME ~eos, NEW g \in Nat, position' <= g, g < c
                 PROVE  aemb'[g % AembRing] = <<gen, g>>
      BY <1>4 DEF AembRows
    <2>1. c <= g + AembRing
      <3> DEFINE p == position'
      <3>1. c <= p + AembRing /\ c \in Nat /\ p \in Nat /\ p <= g
        BY <1>3, <1>5
      <3> HIDE DEF p
      <3> QED  BY <1>1, <3>1
    <2>2. LastInSlot(g % AembRing, AembRing, c) = g
      BY <1>1, <1>3, <2>1, LastInItsSlot
    <2>3. g % AembRing \in 0 .. AembRing - 1
      BY <1>1, ModProperty
    <2>4. aemb'[g % AembRing] = IF g >= committed THEN rows[g] ELSE aemb[g % AembRing]
      BY <1>4, <2>2, <2>3 DEF WriteRing
    <2>5. CASE g >= committed
      <3>1. rows[g] = encRing[g % EncRing]
        BY <1>1, <1>3, <2>5 DEF rows
      <3>2. emitted <= g + EncRing /\ g < emitted
        BY <1>1, <1>3, <2>5
      <3> QED  BY <2>4, <2>5, <3>1, <3>2 DEF EncRows
    <2>6. CASE ~(g >= committed)
      <3>1. position <= g /\ g < committed
        BY <1>1, <1>5, <2>6
      <3> QED  BY <2>4, <2>6, <3>1 DEF AembRows
    <2> QED  BY <2>5, <2>6
  <1>8. EncRows' /\ DecodesOwnAudio' /\ WholeAudioDecoded'
    BY <1>4 DEF EncRows, DecodesOwnAudio, WholeAudioDecoded
  <1>9. OneSlice' /\ Emission'
    BY <1>1, <1>3, <1>4 DEF OneSlice, Emission, FeedAllowed
  <1>10. CaughtUp'
    BY <1>3, <1>4 DEF CaughtUp, Alive
  <1>11. Ahead' = Ahead
    <2>1. Reads' = Reads
      BY <1>a DEF Reads
    <2> QED  BY <1>4, <2>1 DEF Ahead
  <1>12. EagerRoom' /\ TailRoom'
    BY <1>1, <1>4, <1>11 DEF EagerRoom, TailRoom, FeedAllowed, Crowd
  <1> QED  BY <1>0, <1>6, <1>7, <1>8, <1>9, <1>10, <1>12

\* An eager delivery adds one to the crowd, whatever it coalesces.
LEMMA EagerCrowd ==
    ASSUME NEW q \in Seq(Events), NEW k \in Nat, NEW m \in Nat, NEW bound \in Int, aggressive
    PROVE  Crowd(PushPartial(Append(q, Event("token", k)), Event("partial", m), bound))
               <= Crowd(q) + 1
  <1> DEFINE p == Event("partial", m)
             w == Append(q, Event("token", k))
             r == RemoveAt(w, Min(PartialsIn(w)))
  <1>1. p \in Events /\ Event("token", k) \in Events /\ p.type = "partial"
    BY EventType DEF EventTypes, Event
  <1>2. w \in Seq(Events) /\ Len(w) = Len(q) + 1 /\ Len(q) \in Nat
    BY <1>1
  <1>3. PartialsIn(w) = PartialsIn(q)
    <2>1. \A i \in 1 .. Len(q) : w[i] = q[i]
      BY <1>1
    <2>2. w[Len(w)].type = "token"
      BY <1>1 DEF Event
    <2>3. DOMAIN w = 1 .. Len(q) + 1 /\ DOMAIN q = 1 .. Len(q)
      BY <1>2
    <2> HIDE DEF w
    <2> QED  BY <1>2, <2>1, <2>2, <2>3 DEF PartialsIn
  <1> HIDE DEF w
  <1>4. ASSUME NEW s \in Seq(Events)
        PROVE  /\ Len(s) + 1 \in PartialsIn(Append(s, p))
               /\ Len(Append(s, p)) = Len(s) + 1
    BY <1>1 DEF PartialsIn
  <1>5. CASE PartialsIn(w) # {}
    <2>1. Min(PartialsIn(w)) \in 1 .. Len(w)
      <3>1. PartialsIn(w) \subseteq 1 .. Len(w)
        BY <1>2 DEF PartialsIn
      <3> QED  BY <1>5, <3>1, MinProperty
    <2>2. r \in Seq(Events) /\ Len(r) = Len(q)
      BY <1>2, <2>1, RemoveAtProperty
    <2>3. PushPartial(w, p, bound) = Append(r, p)
      BY <1>5 DEF PushPartial
    <2> HIDE DEF r, p
    <2>4. PartialsIn(Append(r, p)) # {} /\ Len(Append(r, p)) = Len(q) + 1
      BY <1>4, <2>2
    <2>5. Crowd(PushPartial(w, p, bound)) = Len(q) + 1
      BY <1>2, <2>3, <2>4 DEF Crowd
    <2>6. Crowd(q) = Len(q)
      BY <1>2, <1>3, <1>5 DEF Crowd
    <2> QED  BY <1>2, <2>5, <2>6 DEF w, p
  <1>6. CASE PartialsIn(w) = {}
    <2>1. Crowd(q) = Len(q) + 1
      BY <1>3, <1>6 DEF Crowd
    <2>2. CASE Len(w) < bound
      <3>1. PushPartial(w, p, bound) = Append(w, p)
        BY <1>6, <2>2 DEF PushPartial
      <3>2. PartialsIn(Append(w, p)) # {} /\ Len(Append(w, p)) = Len(q) + 2
        BY <1>2, <1>4
      <3> HIDE DEF p
      <3>3. Crowd(PushPartial(w, p, bound)) = Len(q) + 2
        BY <1>2, <3>1, <3>2 DEF Crowd
      <3> QED  BY <1>2, <2>1, <3>3 DEF w, p
    <2>3. CASE ~(Len(w) < bound)
      <3>1. PushPartial(w, p, bound) = w
        BY <1>6, <2>3 DEF PushPartial
      <3>2. Crowd(PushPartial(w, p, bound)) = Len(q) + 2
        BY <1>2, <1>6, <3>1 DEF Crowd
      <3> QED  BY <1>2, <2>1, <3>2 DEF w
    <2> QED  BY <2>2, <2>3
  <1> QED  BY <1>5, <1>6

\* A snapshot adds at most one event.
LEMMA PushPartialGrows ==
    ASSUME NEW q \in Seq(Events), NEW e \in Events, NEW bound \in Int
    PROVE  Len(PushPartial(q, e, bound)) <= Len(q) + 1
  <1>1. PartialsIn(q) \subseteq 1 .. Len(q) /\ Len(q) \in Nat
    BY DEF PartialsIn
  <1>2. ASSUME PartialsIn(q) # {}
        PROVE  Len(Append(RemoveAt(q, Min(PartialsIn(q))), e)) = Len(q)
    <2>1. Min(PartialsIn(q)) \in 1 .. Len(q)
      BY <1>1, <1>2, MinProperty
    <2> QED  BY <2>1, RemoveAtProperty
  <1>3. ASSUME PartialsIn(q) # {}
        PROVE  Len(ReplaceAt(q, Max(PartialsIn(q)), e)) = Len(q)
    <2>1. Max(PartialsIn(q)) \in 1 .. Len(q)
      BY <1>1, <1>3, MaxProperty
    <2> QED  BY <2>1, ExceptSeq DEF ReplaceAt
  <1> QED  BY <1>1, <1>2, <1>3 DEF PushPartial

\* A token that is delivered: the decoder moves on one group, and the queue grows
\* by what is left for that group.
LEMMA DeliverFlow ==
    ASSUME FlowInv, IInv', Len(queue) < Bound, prefilled, ~eos, position < committed,
           NEW t \in [valid : BOOLEAN, eos : BOOLEAN, row : Rows],
           t.row = <<gen, position>>, Deliver(t),
           pc \in {"flush", "step"}, pc' = "step",
           UNCHANGED <<state, finalizing, aggressive, audioVars, committed,
                       aemb, prefilled, callVars, clientVars>>
    PROVE  FlowInv'
  <1> USE StreamConstants
          DEF FlowInv, CountInv, RowInv, audioVars, callVars, clientVars
  <1> DEFINE token == Event("token", seqno + 1)
             partial == Event("partial", Len(tokens) + 1)
  <1>0. /\ emitted \in Nat /\ committed \in Nat /\ position \in Nat /\ seqno \in Nat
        /\ PrefillLen \in Nat /\ tokens \in Seq(Rows) /\ queue \in Seq(Events)
    BY DEF IInv, TypeOK, PrefillLen
  <1>1. /\ emitted \in Nat /\ committed \in Nat /\ position \in Nat /\ seqno + 1 \in Nat
        /\ committed <= emitted /\ PrefillLen \in Nat /\ Len(queue) \in Nat
        /\ Len(tokens) \in Nat /\ Len(tokens) + 1 \in Nat /\ tokens \in Seq(Rows)
        /\ queue \in Seq(Events) /\ Bound \in Int
        /\ position = PrefillLen + Len(tokens) /\ outcome = "ok"
        /\ state # "completed"
    <2>1. Bound \in Int
      BY DEF Bound
    <2>2. committed <= emitted /\ position = PrefillLen + Len(tokens)
      BY DEF Emission, Place
    <2>3. outcome = "ok" /\ state # "completed"
      BY DEF OneSlice, IInv, TypeOK, Phase, FeedAllowed
    <2> QED  BY <1>0, <2>1, <2>2, <2>3
  <1>2. token \in Events /\ partial \in Events
    BY <1>1, EventType DEF EventTypes
  <1>3. /\ Append(queue, token) \in Seq(Events)
        /\ Len(Append(queue, token)) = Len(queue) + 1
    BY <1>1, <1>2
  <1>4. pending' = NoToken /\ ~pending'.valid
    BY DEF Deliver, NoToken
  <1>5. Ahead = emitted - position /\ Ahead >= 1 /\ Ahead \in Nat
    BY <1>1 DEF Ahead, Reads
  <1>6. EncRows' /\ OneSlice' /\ Emission' /\ WholeAudioDecoded'
    BY <1>1 DEF EncRows, OneSlice, Emission, FeedAllowed, WholeAudioDecoded
  <1>7. CASE t.eos
    <2>1. /\ eos' = TRUE /\ queue' = Append(queue, token)
          /\ UNCHANGED <<tokens, position>>
      BY <1>7 DEF Deliver
    <2>2. AembRows' /\ CaughtUp' /\ DecodesOwnAudio'
      BY <2>1 DEF AembRows, CaughtUp, DecodesOwnAudio
    <2>3. Place'
      BY <1>4, <2>1 DEF Place, Limit
    <2>4. EagerRoom'
      BY <1>1, <1>4, <2>1 DEF EagerRoom, FeedAllowed, OneSlice, IInv, Phase
    <2>5. TailRoom'
      <3> SUFFICES ASSUME state = "finishing"
                   PROVE  Len(queue') + 2 * 0 <= MaxEvents + 2 * (RightPad + 1)
        BY <1>1, <1>4, <2>1 DEF TailRoom
      <3>1. Len(queue) + 2 * Ahead <= MaxEvents + 2 * (RightPad + 1)
        BY DEF TailRoom
      <3> QED  BY <1>1, <1>3, <1>5, <2>1, <3>1
    <2> QED  BY <1>6, <2>2, <2>3, <2>4, <2>5
  <1>8. CASE ~t.eos
    <2>1. /\ tokens' = Append(tokens, t.row) /\ position' = position + 1 /\ eos' = eos
          /\ queue' = PushPartial(Append(queue, token), partial, Bound)
      BY <1>8 DEF Deliver
    <2>2. /\ Len(tokens') = Len(tokens) + 1 /\ DOMAIN tokens' = 1 .. Len(tokens) + 1
          /\ tokens'[Len(tokens) + 1] = t.row
          /\ \A i \in 1 .. Len(tokens) : tokens'[i] = tokens[i]
      <3>1. t.row \in Rows
        OBVIOUS
      <3> QED  BY <1>1, <2>1, <3>1
    <2>3. DecodesOwnAudio'
      <3> SUFFICES ASSUME NEW i \in 1 .. Len(tokens) + 1
                   PROVE  tokens'[i] = <<gen, PrefillLen + i - 1>>
        BY <2>2 DEF DecodesOwnAudio
      <3>1. CASE i = Len(tokens) + 1
        <4>1. position = PrefillLen + i - 1
          BY <1>1, <3>1
        <4> QED  BY <2>2, <3>1, <4>1
      <3>2. CASE i # Len(tokens) + 1
        <4>1. i \in 1 .. Len(tokens) /\ i \in DOMAIN tokens
          BY <1>1, <3>2
        <4> QED  BY <2>2, <4>1 DEF DecodesOwnAudio
      <3> QED  BY <3>1, <3>2
    <2>4. Place'
      <3>1. position + 1 <= committed
        BY <1>1
      <3>2. committed <= Limit /\ Limit = position + AembRing
        BY DEF Place, Limit
      <3>3. Limit' = position + 1 + AembRing
        BY <2>1 DEF Limit
      <3>4. committed <= Limit'
        BY <1>1, <3>2, <3>3
      <3>5. prefilled <=> committed >= PrefillLen
        BY DEF Place
      <3> QED  BY <1>1, <1>4, <2>1, <2>2, <3>1, <3>4, <3>5 DEF Place
    <2>5. AembRows'
      <3> SUFFICES ASSUME NEW g \in Nat, position + 1 <= g, g < committed
                   PROVE  aemb[g % AembRing] = <<gen, g>>
        BY <2>1 DEF AembRows
      <3>1. position <= g
        BY <1>1
      <3> QED  BY <3>1 DEF AembRows
    <2>6. CaughtUp'
      BY <2>1 DEF CaughtUp, Alive
    <2>7. Ahead' = Ahead - 1
      <3>1. Reads' = position + 1
        BY <2>1 DEF Reads
      <3> QED  BY <1>1, <1>5, <3>1, SMTT(30) DEF Ahead
    <2>8. EagerRoom'
      <3> SUFFICES ASSUME aggressive
                   PROVE  Crowd(queue') + todo + Ahead' <= MaxEvents
        BY <1>1, <1>4, <2>1 DEF EagerRoom, FeedAllowed
      <3>1. Crowd(queue') <= Crowd(queue) + 1
        BY <1>1, <2>1, EagerCrowd
      <3>2. Crowd(queue) + todo + Ahead <= MaxEvents
        BY DEF EagerRoom
      <3>3. Crowd(queue) \in Nat /\ todo \in Nat /\ Crowd(queue') \in Nat
        <4>1. Len(queue') \in Nat
          BY DEF IInv, TypeOK
        <4>2. todo \in Nat
          BY DEF IInv, TypeOK
        <4> QED  BY <1>1, <4>1, <4>2 DEF Crowd
      <3> HIDE DEF Crowd
      <3> QED  BY <1>5, <2>7, <3>1, <3>2, <3>3, SMTT(30)
    <2>9. TailRoom'
      <3> SUFFICES ASSUME state = "finishing"
                   PROVE  Len(queue') + 2 * Ahead' <= MaxEvents + 2 * (RightPad + 1)
        BY <1>1, <1>4, <2>1 DEF TailRoom
      <3>1. Len(queue) + 2 * Ahead <= MaxEvents + 2 * (RightPad + 1)
        BY DEF TailRoom
      <3>2. Len(queue') <= Len(queue) + 2 /\ Len(queue') \in Nat
        <4>1. Len(queue') <= Len(Append(queue, token)) + 1
          BY <1>1, <1>2, <1>3, <2>1, PushPartialGrows
        <4>2. Len(queue') \in Nat
          BY DEF IInv, TypeOK
        <4> QED  BY <1>1, <1>3, <4>1, <4>2
      <3> QED  BY <1>1, <1>5, <2>7, <3>1, <3>2
    <2> QED  BY <1>6, <2>3, <2>4, <2>5, <2>6, <2>8, <2>9
  <1> QED  BY <1>7, <1>8

\* A token that does not fit is stashed: the stream was not eager, and is not
\* taking its tail.
LEMMA StashFlow ==
    ASSUME FlowInv, IInv', ~(Len(queue) < Bound), prefilled, ~eos, position < committed,
           NEW t \in [valid : BOOLEAN, eos : BOOLEAN, row : Rows],
           t.row = <<gen, position>>, Stash(t),
           pc \in {"flush", "step"},
           UNCHANGED <<state, finalizing, aggressive, audioVars, committed,
                       aemb, prefilled, after, asked, todo, full, clientVars>>
    PROVE  FlowInv'
  <1> USE StreamConstants
          DEF FlowInv, CountInv, RowInv, audioVars, clientVars
  <1>1. /\ emitted \in Nat /\ committed \in Nat /\ position \in Nat
        /\ committed <= emitted /\ Len(queue) \in Nat /\ todo \in Nat
        /\ outcome = "ok" /\ state # "completed" /\ after # "none"
    <2>1. /\ emitted \in Nat /\ committed \in Nat /\ position \in Nat /\ committed <= emitted
          /\ Len(queue) \in Nat /\ todo \in Nat
      BY DEF IInv, TypeOK, Emission
    <2>2. outcome = "ok" /\ after # "none"
      BY DEF IInv, Phase, OneSlice
    <2>3. state # "completed"
      BY <2>2 DEF IInv, TypeOK, Phase, FeedAllowed
    <2> QED  BY <2>1, <2>2, <2>3
  <1>2. Ahead = emitted - position /\ Ahead >= 1 /\ Ahead \in Nat
    BY <1>1 DEF Ahead, Reads
  <1>3. ~aggressive
    <2> SUFFICES ASSUME aggressive
                 PROVE  FALSE
      OBVIOUS
    <2>1. Crowd(queue) + todo + Ahead <= MaxEvents /\ FeedAllowed
      BY DEF EagerRoom
    <2>2. Crowd(queue) >= Len(queue) /\ Crowd(queue) \in Nat
      BY <1>1 DEF Crowd
    <2>3. Len(queue) < MaxEvents
      BY <1>1, <1>2, <2>1, <2>2
    <2> QED  BY <1>1, <2>1, <2>3 DEF Bound, IInv, Reserve
  <1>4. state # "finishing"
    <2> SUFFICES ASSUME state = "finishing"
                 PROVE  FALSE
      OBVIOUS
    <2>1. Len(queue) + 2 * Ahead <= MaxEvents + 2 * (RightPad + 1)
      BY DEF TailRoom
    <2>2. Bound = MaxEvents + Headroom
      BY DEF Bound, IInv, Reserve, FeedAllowed
    <2> QED  BY <1>1, <1>2, <2>1, <2>2
  <1>5. /\ pending' = t /\ pc' = "pumped" /\ outcome' = "queue_full"
        /\ UNCHANGED <<queue, eos, tokens, position>>
    BY DEF Stash
  <1>6. EncRows' /\ AembRows' /\ DecodesOwnAudio' /\ WholeAudioDecoded'
    BY <1>5 DEF EncRows, AembRows, DecodesOwnAudio, WholeAudioDecoded
  <1>7. OneSlice' /\ Emission'
    BY <1>1, <1>5 DEF OneSlice, Emission, FeedAllowed
  <1>8. Place'
    BY <1>5 DEF Place, Limit
  <1>9. CaughtUp'
    <2>1. pending'.valid
      BY <1>5 DEF IInv, Held
    <2> QED  BY <1>1, <1>5, <2>1 DEF CaughtUp, Alive
  <1>10. EagerRoom' /\ TailRoom'
    BY <1>3, <1>4 DEF EagerRoom, TailRoom
  <1> QED  BY <1>6, <1>7, <1>8, <1>9, <1>10

LEMMA PumpFlushFlow ==
    ASSUME FlowInv, PumpFlush
    PROVE  FlowInv'
  <1> USE DEF audioVars, clientVars, callVars
  <1>1. IInv'
    BY PumpFlushStep DEF FlowInv
  <1>2. CASE prefilled /\ pending.valid
    <2>1. /\ pending \in [valid : BOOLEAN, eos : BOOLEAN, row : Rows]
          /\ ~eos /\ position < committed /\ pending.row = <<gen, position>> /\ pc = "flush"
      BY <1>2 DEF PumpFlush, FlowInv, CountInv, Place, IInv, TypeOK
    <2>2. CASE Len(queue) < Bound
      BY <1>1, <1>2, <2>1, <2>2, DeliverFlow DEF PumpFlush
    <2>3. CASE ~(Len(queue) < Bound)
      BY <1>1, <1>2, <2>1, <2>3, StashFlow DEF PumpFlush
    <2> QED  BY <2>2, <2>3
  <1>3. CASE ~(prefilled /\ pending.valid)
    <2> USE DEF FlowInv, CountInv
    <2>1. /\ pc = "flush" /\ pc' = "step"
          /\ UNCHANGED <<queue, pending, eos, tokens, position, seqno, outcome>>
          /\ UNCHANGED <<state, finalizing, aggressive, audioVars, committed, aemb,
                         prefilled, steps, after, asked, todo, full, res, clientVars>>
      BY <1>3 DEF PumpFlush
    <2>2. RowInv' /\ Place'
      BY <2>1, RowsStay DEF decodeVars
    <2>3. OneSlice' /\ Emission'
      BY <2>1 DEF OneSlice, Emission, FeedAllowed
    <2>4. CaughtUp' /\ WholeAudioDecoded'
      BY <2>1 DEF CaughtUp, Alive, WholeAudioDecoded
    <2>5. EagerRoom' /\ TailRoom'
      BY <2>1 DEF EagerRoom, TailRoom, FeedAllowed, Ahead, Reads, Crowd
    <2> QED  BY <1>1, <2>2, <2>3, <2>4, <2>5
  <1> QED  BY <1>2, <1>3

LEMMA PumpStepFlow ==
    ASSUME FlowInv, PumpStep
    PROVE  FlowInv'
  <1> USE StreamConstants DEF audioVars, clientVars, callVars
  <1>1. IInv'
    BY PumpStepStep DEF FlowInv
  <1>2. PICK e \in BOOLEAN :
          LET t == [valid |-> TRUE, eos |-> e, row |-> aemb[position % AembRing]]
          IN  IF Len(queue) < Bound
              THEN Deliver(t) /\ UNCHANGED <<backpressured, pc, outcome>>
              ELSE Stash(t)
    BY DEF PumpStep
  <1> DEFINE t == [valid |-> TRUE, eos |-> e, row |-> aemb[position % AembRing]]
  <1>3. /\ pc = "step" /\ prefilled /\ ~eos /\ position < committed /\ position \in Nat
    BY DEF PumpStep, StepReady, FlowInv, IInv, TypeOK
  <1>4. t.row = <<gen, position>>
    BY <1>3 DEF FlowInv, RowInv, AembRows
  <1>5. t \in [valid : BOOLEAN, eos : BOOLEAN, row : Rows]
    <2>1. position % AembRing \in 0 .. AembRing - 1
      BY <1>3, ModProperty
    <2>2. aemb[position % AembRing] \in Rows
      BY <2>1 DEF FlowInv, IInv, TypeOK
    <2> QED  BY <2>2
  <1>6. UNCHANGED <<state, finalizing, aggressive, audioVars, committed, aemb,
                    prefilled, after, asked, todo, full, clientVars>>
    BY DEF PumpStep
  <1> HIDE DEF t
  <1>7. CASE Len(queue) < Bound
    <2>1. Deliver(t) /\ UNCHANGED <<backpressured, pc, outcome>>
      BY <1>2, <1>7 DEF t
    <2> QED  BY <1>1, <1>3, <1>4, <1>5, <1>6, <1>7, <2>1, DeliverFlow
  <1>8. CASE ~(Len(queue) < Bound)
    <2>1. Stash(t)
      BY <1>2, <1>8 DEF t
    <2> QED  BY <1>1, <1>3, <1>4, <1>5, <1>6, <1>8, <2>1, StashFlow
  <1> QED  BY <1>7, <1>8

LEMMA PumpReturnsFlow ==
    ASSUME FlowInv, PumpReturns \/ PumpFails
    PROVE  FlowInv'
  <1> USE StreamConstants DEF FlowInv, CountInv, eventVars, audioVars, clientVars
  <1>1. IInv'
    BY PumpReturnsStep
  <1>2. /\ pc' = "pumped" /\ outcome = "ok" /\ pc \in {"pump", "step"}
        /\ \/ outcome' = "error"
           \/ outcome' = "ok" /\ pc = "step" /\ ~StepReady
        /\ UNCHANGED <<state, eventVars, audioVars, decodeVars, after, asked,
                       todo, full, res, clientVars>>
    BY DEF PumpReturns, PumpFails, OneSlice
  <1>3. RowInv' /\ Place'
    BY <1>2, RowsStay
  <1>4. OneSlice' /\ Emission'
    BY <1>2 DEF OneSlice, Emission, FeedAllowed, decodeVars
  <1>5. CaughtUp'
    <2>1. CASE outcome' = "error"
      BY <2>1 DEF CaughtUp, Alive
    <2>2. CASE outcome' = "ok" /\ pc = "step" /\ ~StepReady
      <3>1. Alive' /\ ~eos' => committed = emitted
        BY <1>2, <2>2 DEF CaughtUp, Alive, decodeVars
      <3>2. prefilled /\ ~eos => position = committed
        BY <2>2 DEF StepReady, Place, IInv, TypeOK
      <3> QED  BY <1>2, <3>1, <3>2 DEF CaughtUp, decodeVars
    <2> QED  BY <1>2, <2>1, <2>2
  <1>6. EagerRoom' /\ TailRoom'
    BY <1>2 DEF EagerRoom, TailRoom, FeedAllowed, Ahead, Reads, Crowd, decodeVars
  <1>7. WholeAudioDecoded'
    BY <1>2 DEF WholeAudioDecoded, decodeVars
  <1> QED  BY <1>1, <1>3, <1>4, <1>5, <1>6, <1>7

-----------------------------------------------------------------------------
(* finish, cancel, reset, poll                                             *)

LEMMA EnterFinishingFlow ==
    ASSUME FlowInv, EnterFinishing, FeedAllowed, pc \in {"idle", "pumped"},
           after \in {"none", "drain"}, ~pending.valid, ~full, todo = 0, outcome = "ok",
           UNCHANGED <<decodeVars, clientVars>>
    PROVE  FlowInv'
  <1> USE StreamConstants, RingConstants
          DEF FlowInv, CountInv, RowInv, decodeVars, clientVars
  <1>0. IInv'
    BY EnterFinishingStep
  <1>1. /\ emitted \in Nat /\ committed \in Nat /\ position \in Nat /\ pushed \in Nat
        /\ received \in Nat /\ Len(queue) \in Nat /\ asked \in Nat
    BY DEF IInv, TypeOK
  <1>2. ~aggressive /\ aggressive' = FALSE
    <2>1. ~aggressive
      BY DEF EagerRoom, IInv, Phase
    <2> QED  BY <2>1 DEF EnterFinishing, IInv, TypeOK
  <1>3. CASE received = 0
    <2>1. state' = "completed" /\ Return("ok") /\ UNCHANGED <<pushed, emitted, encRing, received>>
      BY <1>3 DEF EnterFinishing
    <2>2. WholeAudioDecoded'
      BY <1>3, <2>1 DEF WholeAudioDecoded
    <2> QED  BY <1>0, <1>2, <2>1, <2>2, EndingStep
  <1>4. CASE received # 0
    <2> DEFINE e == pushed + RightPad
    <2>1. /\ state' = "finishing" /\ pushed' = e /\ EmitUpTo(e) /\ emitted' = e
          /\ pc' = "pump" /\ after' = "tail"
          /\ UNCHANGED <<backpressured, aggressive, received, queue, asked,
                         todo, full, outcome, res>>
      BY <1>4 DEF EnterFinishing, RunPump, EmitUpTo
    <2>2. pushed = LeftPad + received
      <3>1. Consumed = 0
        BY DEF Consumed
      <3>2. pushed = IF received + 0 = 0 THEN 0 ELSE LeftPad + received + 0
        BY <3>1 DEF IInv, Credit
      <3> QED  BY <1>1, <1>4, <3>2
    <2>3. emitted = pushed - 1 /\ e = LeftPad + received + RightPad /\ e = emitted + RightPad + 1
          /\ e \in Nat /\ emitted <= e
      BY <1>1, <1>4, <2>2 DEF Emission, Realizable
    <2> HIDE DEF e
    <2>4. EncRows'
      BY <2>1, <2>3, EmitRows
    <2>5. AembRows' /\ DecodesOwnAudio' /\ WholeAudioDecoded'
      BY <2>1 DEF AembRows, DecodesOwnAudio, WholeAudioDecoded
    <2>6. OneSlice' /\ Place'
      BY <2>1 DEF OneSlice, Place, Limit
    <2>7. Emission'
      BY <1>1, <1>4, <2>1, <2>3 DEF Emission, FeedAllowed
    <2>8. ~eos => /\ committed = emitted /\ emitted <= Reads /\ Reads \in Nat
                  /\ prefilled => position = committed
                  /\ ~prefilled => committed < PrefillLen
      BY <1>1, NothingAhead DEF CaughtUp, Alive, FeedAllowed, Reads, PrefillLen, Place
    <2>9. CaughtUp'
      <3> SUFFICES ASSUME ~eos
                   PROVE  e <= committed + EncRing /\ e <= Limit
        BY <2>1 DEF CaughtUp, Limit
      <3>1. CASE prefilled
        BY <1>1, <2>3, <2>8, <3>1 DEF Limit
      <3>2. CASE ~prefilled
        BY <1>1, <2>3, <2>8, <3>2 DEF Limit, PrefillLen
      <3> QED  BY <3>1, <3>2
    <2>10. EagerRoom'
      BY <1>2 DEF EagerRoom
    <2>11. TailRoom'
      <3>1. Len(queue) <= MaxEvents
        BY DEF IInv, Reserve, Bound
      <3>2. ~eos => Ahead' \in Nat /\ Ahead' <= RightPad + 1
        <4>1. Reads' = Reads
          BY <2>1 DEF Reads
        <4> QED  BY <1>1, <2>1, <2>3, <2>8, <4>1 DEF Ahead
      <3>3. Len(queue) + 2 * (IF eos THEN 0 ELSE Ahead') <= MaxEvents + 2 * (RightPad + 1)
        BY <1>1, <3>1, <3>2
      <3> QED  BY <2>1, <3>3 DEF TailRoom
    <2> QED  BY <1>0, <2>4, <2>5, <2>6, <2>7, <2>9, <2>10, <2>11
  <1> QED  BY <1>3, <1>4

LEMMA CallFinishFlow ==
    ASSUME FlowInv, CallFinish
    PROVE  FlowInv'
  <1>1. IInv'
    BY CallFinishStep DEF FlowInv
  <1>2. /\ pc = "idle" /\ after = "none" /\ ~aggressive /\ outcome = "ok" /\ ~full /\ todo = 0
        /\ backpressured <=> pending.valid
        /\ asked \in Nat /\ asked <= SliceGroups
        /\ UNCHANGED <<decodeVars, clientVars>>
    BY DEF CallFinish, FlowInv, CountInv, OneSlice, EagerRoom, IInv, TypeOK, Phase, Held
  <1>3. CASE /\ state \notin {"created", "running"}
             /\ \/ Return("ok")
                \/ Return("invalid_state")
             /\ UNCHANGED <<state, eventVars, audioVars>>
    BY <1>1, <1>2, <1>3, ReturningStep
  <1>4. CASE FeedAllowed /\ ~backpressured /\ EnterFinishing
    BY <1>2, <1>4, EnterFinishingFlow
  <1>5. CASE /\ FeedAllowed /\ backpressured /\ RunPump("drain")
             /\ UNCHANGED <<state, eventVars, audioVars, asked, todo, full>>
    BY <1>1, <1>2, <1>5, ResumingStep
  <1> QED  BY <1>3, <1>4, <1>5 DEF CallFinish, FeedAllowed

LEMMA FinishDrainedFlow ==
    ASSUME FlowInv, FinishDrained
    PROVE  FlowInv'
  <1>1. IInv'
    BY FinishDrainedStep DEF FlowInv
  <1>2. /\ pc = "pumped" /\ after = "drain" /\ FeedAllowed /\ ~full /\ ~aggressive
        /\ todo = 0 /\ UNCHANGED clientVars
        /\ outcome = "ok" => ~pending.valid
    BY DEF FinishDrained, FlowInv, CountInv, EagerRoom, IInv, TypeOK, Phase, Held
  <1>3. CASE outcome = "ok"
    BY <1>2, <1>3, EnterFinishingFlow DEF FinishDrained
  <1>4. CASE outcome = "queue_full"
    BY <1>1, <1>2, <1>4, ReturningStep DEF FinishDrained, FeedAllowed
  <1>5. CASE outcome = "error"
    BY <1>2, <1>5, FailingStep DEF FinishDrained, FlowInv, IInv, TypeOK, audioVars
  <1> QED  BY <1>3, <1>4, <1>5 DEF FinishDrained

LEMMA FinishReturnsFlow ==
    ASSUME FlowInv, FinishReturns
    PROVE  FlowInv'
  <1> USE DEF FlowInv, CountInv
  <1>1. IInv'
    BY FinishReturnsStep
  <1>2. /\ pc = "pumped" /\ after = "tail" /\ state = "finishing" /\ ~aggressive
        /\ UNCHANGED <<audioVars, decodeVars, clientVars>>
    BY DEF FinishReturns, IInv, Phase, EagerRoom, FeedAllowed
  <1>3. CASE outcome # "ok"
    BY <1>2, <1>3, FailingStep DEF FinishReturns, IInv, TypeOK, audioVars
  <1>4. CASE outcome = "ok"
    <2>1. /\ state' = "completed" /\ Return("ok") /\ aggressive' = aggressive
          /\ aggressive \in BOOLEAN
      BY <1>4 DEF FinishReturns, IInv, TypeOK
    <2>2. WholeAudioDecoded'
      <3> SUFFICES ASSUME ~eos
                   PROVE  Len(tokens) = LeftPad + received + RightPad - PrefillLen
        BY <1>2 DEF WholeAudioDecoded, audioVars, decodeVars
      <3>1. /\ committed = LeftPad + received + RightPad /\ received > 0
            /\ prefilled => position = committed
        BY <1>2, <1>4 DEF CaughtUp, Alive, Emission, IInv, Held
      <3>2. /\ committed \in Nat /\ Len(tokens) \in Nat /\ received \in Nat
        BY DEF IInv, TypeOK
      <3>3. committed >= PrefillLen
        BY <3>1, <3>2, StreamConstants, RingConstants DEF PrefillLen
      <3>4. position = PrefillLen + Len(tokens) /\ prefilled
        BY <3>3 DEF Place
      <3>5. PrefillLen \in Nat
        BY StreamConstants DEF PrefillLen
      <3>6. position = committed
        BY <3>1, <3>4
      <3> QED  BY <3>1, <3>2, <3>4, <3>5, <3>6, StreamConstants
    <2> QED  BY <1>1, <1>2, <2>1, <2>2, EndingStep DEF audioVars, clientVars
  <1> QED  BY <1>3, <1>4

LEMMA CallCancelFlow ==
    ASSUME FlowInv, CallCancel
    PROVE  FlowInv'
  <1>1. IInv'
    BY CallCancelStep DEF FlowInv
  <1>2. /\ pc = "idle" /\ after = "none" /\ ~aggressive /\ outcome = "ok"
        /\ UNCHANGED <<backpressured, aggressive, audioVars, decodeVars, clientVars>>
        /\ aggressive \in BOOLEAN
    BY DEF CallCancel, FlowInv, CountInv, OneSlice, EagerRoom, IInv, TypeOK, Phase
  <1>3. CASE /\ Return("ok") \/ Return("invalid_state")
             /\ UNCHANGED <<state, queue, finalizing>>
    BY <1>1, <1>2, <1>3, ReturningStep DEF eventVars
  <1>4. CASE state' = "cancelled" /\ Return("ok")
    <2>1. WholeAudioDecoded'
      BY <1>4 DEF WholeAudioDecoded
    <2> QED  BY <1>1, <1>2, <1>4, <2>1, EndingStep DEF audioVars, clientVars
  <1> QED  BY <1>3, <1>4 DEF CallCancel

LEMMA FreshStreamFlow ==
    ASSUME FlowInv, gen < MaxGen, FreshStream, gen' = gen + 1, Return("ok")
    PROVE  FlowInv'
  <1> USE StreamConstants, RingConstants DEF FlowInv, FreshStream, FreshDecoder, Return, PrefillLen
  <1>1. IInv'
    BY FreshStreamStep
  <1>2. OneSlice' /\ Emission' /\ EagerRoom' /\ TailRoom'
    BY DEF OneSlice, Emission, EagerRoom, TailRoom, FeedAllowed, NoToken, Realizable
  <1>3. Place' /\ CaughtUp'
    BY DEF Place, CaughtUp, Limit, NoToken
  <1>4. EncRows' /\ AembRows'
    BY DEF EncRows, AembRows
  <1>5. DecodesOwnAudio' /\ WholeAudioDecoded'
    BY DEF DecodesOwnAudio, WholeAudioDecoded
  <1> QED  BY <1>1, <1>2, <1>3, <1>4, <1>5 DEF CountInv, RowInv

LEMMA CallResetFlow ==
    ASSUME FlowInv, CallReset \/ Recreate
    PROVE  FlowInv'
  <1>1. CASE gen < MaxGen /\ FreshStream /\ gen' = gen + 1 /\ Return("ok")
    BY <1>1, FreshStreamFlow
  <1>2. CASE /\ pc = "idle" /\ state = "running" /\ Return("invalid_state")
             /\ UNCHANGED <<state, eventVars, audioVars, decodeVars, clientVars>>
    <2>1. IInv'
      BY <1>2, ReturnStep DEF FlowInv, IInv, Phase
    <2>2. ~aggressive /\ outcome = "ok"
      BY <1>2 DEF FlowInv, CountInv, OneSlice, EagerRoom
    <2> QED  BY <1>2, <2>1, <2>2, ReturningStep
  <1> QED  BY <1>1, <1>2 DEF CallReset, Recreate

LEMMA PollFlow ==
    ASSUME FlowInv, Poll
    PROVE  FlowInv'
  <1> USE DEF FlowInv, CountInv, Poll, audioVars, callVars
  <1>1. IInv'
    BY PollStep
  <1>2. RowInv' /\ Place'
    BY RowsStay
  <1>3. OneSlice' /\ Emission' /\ CaughtUp' /\ WholeAudioDecoded'
    BY DEF OneSlice, Emission, FeedAllowed, CaughtUp, Alive, WholeAudioDecoded, decodeVars
  <1>4. EagerRoom' /\ TailRoom'
    BY DEF EagerRoom, TailRoom, IInv, Phase
  <1> QED  BY <1>1, <1>2, <1>3, <1>4

-----------------------------------------------------------------------------
(* The invariant is inductive.                                             *)

\* Stuttering.
LEMMA StutterFlow ==
    ASSUME FlowInv, UNCHANGED vars
    PROVE  FlowInv'
  <1> USE DEF FlowInv, CountInv, vars, eventVars, audioVars, decodeVars, callVars, clientVars
  <1>1. IInv'
    BY NextIInv
  <1>2. RowInv' /\ Place'
    BY RowsStay
  <1>3. OneSlice' /\ Emission' /\ CaughtUp' /\ WholeAudioDecoded'
    BY DEF OneSlice, Emission, FeedAllowed, CaughtUp, Alive, Limit, WholeAudioDecoded
  <1>4. EagerRoom' /\ TailRoom'
    BY DEF EagerRoom, TailRoom, FeedAllowed, Ahead, Reads, Crowd
  <1> QED  BY <1>1, <1>2, <1>3, <1>4

LEMMA RuntimeFlow ==
    ASSUME FlowInv, Runtime
    PROVE  FlowInv'
  <1>1. CASE FeedResumed \/ FeedSlice \/ FeedSliceFails
    BY <1>1, FeedResumedFlow, FeedSliceFlow, FeedSliceFailsFlow
  <1>2. CASE FeedPumped \/ FeedReturns
    BY <1>2, FeedPumpedFlow, FeedReturnsFlow
  <1>3. CASE Pump
    BY <1>3, PumpCommitFlow, PumpFlushFlow, PumpStepFlow, PumpReturnsFlow DEF Pump
  <1>4. CASE FinishDrained \/ FinishReturns
    BY <1>4, FinishDrainedFlow, FinishReturnsFlow
  <1> QED  BY <1>1, <1>2, <1>3, <1>4 DEF Runtime

LEMMA NextFlow ==
    ASSUME ShortFeeds, FlowInv, [Next]_vars
    PROVE  FlowInv'
  <1>1. CASE UNCHANGED vars
    BY <1>1, StutterFlow
  <1>2. CASE Runtime
    BY <1>2, RuntimeFlow
  <1>3. CASE \E n \in FeedSizes : CallFeed(n)
    BY <1>3, CallFeedFlow, StreamConstants DEF ShortFeeds
  <1>4. CASE CallFinish \/ CallCancel
    BY <1>4, CallFinishFlow, CallCancelFlow
  <1>5. CASE CallReset \/ Recreate \/ Poll
    BY <1>5, CallResetFlow, PollFlow
  <1> QED  BY <1>1, <1>2, <1>3, <1>4, <1>5 DEF Next, Client

\* With feeds of at most one slice every reachable state satisfies FlowInv: what
\* the pump, the rings and the queue's reserve have ahead of them always fits.
THEOREM FlowInductive ==
    ASSUME ShortFeeds
    PROVE  Spec => []FlowInv
  <1>1. FlowInv /\ [Next]_vars => FlowInv'
    BY NextFlow
  <1> QED  BY <1>1, InitFlow, PTL DEF Spec

\* Neither ring is overwritten before it is read: every token is decoded from the
\* group of audio that is its own (copy_chunk_to_enc_out_ring, adapter_commit,
\* pump_incremental).
THEOREM OwnAudioDecoded ==
    ASSUME ShortFeeds
    PROVE  Spec => []DecodesOwnAudio
  <1>1. FlowInv => DecodesOwnAudio
    BY DEF FlowInv, RowInv
  <1> QED  BY <1>1, FlowInductive, PTL

\* A stream that completes has decoded the last group of its audio and of its
\* pads (finish, pump_incremental).
THEOREM AudioDecodedWhole ==
    ASSUME ShortFeeds
    PROVE  Spec => []WholeAudioDecoded
  <1>1. FlowInv => WholeAudioDecoded
    BY DEF FlowInv
  <1> QED  BY <1>1, FlowInductive, PTL

\* The token estimate of feed_common is high enough: an eager feed meets no full
\* queue.
THEOREM EagerNeverStalls ==
    ASSUME ShortFeeds
    PROVE  Spec => []EagerFeedNeverStalls
  <1>1. FlowInv => EagerFeedNeverStalls
    BY DEF FlowInv, CountInv, EagerRoom, EagerFeedNeverStalls
  <1> QED  BY <1>1, FlowInductive, PTL
-----------------------------------------------------------------------------
(* How a log ends.                                                         *)

HasEnded == state \in {"completed", "failed", "cancelled"}

\* Events of a stream that goes on.
Texts(s) == \A i \in DOMAIN s : s[i].type \in {"token", "partial"}

Closed == TerminalDelivered /\ (~HasEnded => Texts(queue) /\ Texts(delivered))

\* An open or finishing stream has room for its last two events.
LEMMA RoomToEnd ==
    ASSUME FlowInv, ~HasEnded
    PROVE  Len(queue) + 2 <= MaxEvents + Headroom
  <1>1. Len(queue) \in Nat /\ state \in States
    BY DEF FlowInv, IInv, TypeOK
  <1>2. CASE FeedAllowed
    BY <1>1, <1>2, StreamConstants DEF FlowInv, IInv, Reserve, Bound
  <1>3. CASE state = "finishing"
    <2>1. Ahead \in Nat
      BY StreamConstants DEF Ahead, Reads, PrefillLen, FlowInv, IInv, TypeOK
    <2>2. Len(queue) + 2 * (IF eos THEN 0 ELSE Ahead) <= MaxEvents + 2 * (RightPad + 1)
      BY <1>3 DEF FlowInv, CountInv, TailRoom
    <2> HIDE DEF Ahead
    <2>3. Len(queue) <= MaxEvents + 2 * (RightPad + 1)
      BY <1>1, <2>1, <2>2, StreamConstants
    <2> QED  BY <1>1, <2>3, StreamConstants
  <1> QED  BY <1>1, <1>2, <1>3 DEF HasEnded, FeedAllowed, States

\* The log has only texts when its two parts have.
LEMMA TextLog ==
    ASSUME NEW d \in Seq(Events), NEW q \in Seq(Events)
    PROVE  /\ Texts(d \o q) <=> Texts(d) /\ Texts(q)
           /\ d \o q \in Seq(Events) /\ Len(d \o q) = Len(d) + Len(q)
  <1>1. /\ d \o q \in Seq(Events) /\ Len(d \o q) = Len(d) + Len(q)
        /\ \A i \in 1 .. Len(d) + Len(q) : (d \o q)[i] = IF i <= Len(d) THEN d[i] ELSE q[i - Len(d)]
    BY ConcatProperties
  <1>2. /\ DOMAIN d = 1 .. Len(d) /\ DOMAIN q = 1 .. Len(q) /\ Len(d) \in Nat /\ Len(q) \in Nat
        /\ DOMAIN (d \o q) = 1 .. Len(d) + Len(q)
    BY <1>1, LenProperties
  <1>3. ASSUME Texts(d \o q)
        PROVE  Texts(d) /\ Texts(q)
    <2>1. ASSUME NEW i \in DOMAIN d
          PROVE  d[i].type \in {"token", "partial"}
      <3>1. i \in DOMAIN (d \o q) /\ i \in 1 .. Len(d) + Len(q) /\ i <= Len(d)
        BY <1>2
      <3> QED  BY <1>1, <1>3, <3>1 DEF Texts
    <2>2. ASSUME NEW i \in DOMAIN q
          PROVE  q[i].type \in {"token", "partial"}
      <3>1. /\ Len(d) + i \in DOMAIN (d \o q) /\ Len(d) + i \in 1 .. Len(d) + Len(q)
            /\ ~(Len(d) + i <= Len(d)) /\ Len(d) + i - Len(d) = i
        BY <1>2
      <3>2. (d \o q)[Len(d) + i] = q[i]
        BY <1>1, <3>1
      <3>3. (d \o q)[Len(d) + i].type \in {"token", "partial"}
        BY <1>3, <3>1 DEF Texts
      <3> QED  BY <3>2, <3>3
    <2> QED  BY <2>1, <2>2 DEF Texts
  <1>4. ASSUME Texts(d), Texts(q), NEW i \in DOMAIN (d \o q)
        PROVE  (d \o q)[i].type \in {"token", "partial"}
    <2>0. i \in 1 .. Len(d) + Len(q)
      BY <1>2
    <2>1. CASE i <= Len(d)
      <3>1. i \in DOMAIN d
        BY <1>2, <2>0, <2>1
      <3> QED  BY <1>1, <1>4, <2>0, <2>1, <3>1 DEF Texts
    <2>2. CASE ~(i <= Len(d))
      <3>1. i - Len(d) \in DOMAIN q
        BY <1>2, <2>0, <2>2
      <3> QED  BY <1>1, <1>4, <2>0, <2>2, <3>1 DEF Texts
    <2> QED  BY <2>1, <2>2
  <1> QED  BY <1>1, <1>3, <1>4 DEF Texts

\* A push of a text adds nothing else.
LEMMA TextPush ==
    ASSUME NEW q \in Seq(Events), Texts(q), NEW e \in Events, e.type \in {"token", "partial"},
           NEW bound \in Int
    PROVE  Texts(Append(q, e)) /\ Texts(PushPartial(q, e, bound))
  <1> DEFINE P == PartialsIn(q)
  <1>1. ASSUME NEW s \in Seq(Events), Texts(s)
        PROVE  Texts(Append(s, e))
    <2>1. /\ DOMAIN s = 1 .. Len(s) /\ DOMAIN Append(s, e) = 1 .. Len(s) + 1
          /\ Append(s, e)[Len(s) + 1] = e /\ \A i \in 1 .. Len(s) : Append(s, e)[i] = s[i]
          /\ Len(s) \in Nat
      BY Appended
    <2>2. ASSUME NEW i \in 1 .. Len(s) + 1
          PROVE  Append(s, e)[i].type \in {"token", "partial"}
      <3>1. CASE i = Len(s) + 1
        BY <2>1, <3>1
      <3>2. CASE i # Len(s) + 1
        <4>1. i \in 1 .. Len(s)
          BY <2>1, <3>2
        <4> QED  BY <1>1, <2>1, <4>1 DEF Texts
      <3> QED  BY <3>1, <3>2
    <2> QED  BY <2>1, <2>2 DEF Texts
  <1>2. P \subseteq 1 .. Len(q) /\ P \subseteq Nat /\ Len(q) \in Nat
    BY LenProperties DEF PartialsIn
  <1>3. ASSUME P # {}
        PROVE  Texts(RemoveAt(q, Min(P))) /\ RemoveAt(q, Min(P)) \in Seq(Events)
    <2>1. Min(P) \in P
      BY <1>2, <1>3, MinProperty
    <2> DEFINE x == Min(P)
    <2>2. x \in 1 .. Len(q)
      BY <1>2, <2>1
    <2> HIDE DEF x
    <2> DEFINE r == RemoveAt(q, x)
    <2>3. /\ r \in Seq(Events) /\ DOMAIN q = 1 .. Len(q) /\ DOMAIN r = 1 .. Len(q) - 1
          /\ \A i \in 1 .. Len(q) - 1 : r[i] = IF i < x THEN q[i] ELSE q[i + 1]
      BY <2>2, Removed
    <2> HIDE DEF r
    <2>4. ASSUME NEW i \in 1 .. Len(q) - 1
          PROVE  r[i].type \in {"token", "partial"}
      <3>1. i \in DOMAIN q /\ i + 1 \in DOMAIN q
        BY <1>2, <2>3
      <3> QED  BY <2>3, <3>1 DEF Texts
    <2> QED  BY <2>3, <2>4 DEF Texts, r, x
  <1>4. ASSUME P # {}
        PROVE  Texts(ReplaceAt(q, Max(P), e))
    BY ExceptSeq, LenProperties DEF Texts, ReplaceAt
  <1>5. PushPartial(q, e, bound) =
          IF aggressive /\ P # {} THEN Append(RemoveAt(q, Min(P)), e)
          ELSE IF Len(q) < bound THEN Append(q, e)
          ELSE IF P # {} THEN ReplaceAt(q, Max(P), e) ELSE q
    BY DEF PushPartial
  <1> HIDE DEF P
  <1> QED  BY <1>1, <1>3, <1>4, <1>5

LEMMA ClosedKept ==
    ASSUME Closed, UNCHANGED <<state, queue, delivered, tokens>>
    PROVE  Closed'
  BY DEF Closed, TerminalDelivered, HasEnded, Texts, Log

\* A stream that goes on: nothing but texts.
LEMMA ClosedOpen ==
    ASSUME TypeOK', ~HasEnded', Texts(queue'), Texts(delivered')
    PROVE  Closed'
  <1>1. Texts(Log')
    BY TextLog DEF TypeOK, Log
  <1> QED  BY <1>1 DEF Closed, TerminalDelivered, Texts, HasEnded, Terminal

\* A failure or a cancellation appends its event.
LEMMA ClosedEnd ==
    ASSUME TypeOK, Closed, ~HasEnded, NEW e \in Events, queue' = Append(queue, e),
           UNCHANGED delivered,
           \/ state' = "failed" /\ e.type = "error"
           \/ state' = "cancelled" /\ e.type = "cancelled"
    PROVE  Closed'
  <1>1. queue \in Seq(Events) /\ delivered \in Seq(Events)
    BY DEF TypeOK
  <1>2. Log \in Seq(Events) /\ Texts(Log)
    BY <1>1, TextLog DEF Log, Closed
  <1>3. Log' = Append(Log, e)
    BY <1>1, LogAppend DEF Log
  <1> DEFINE L == Append(Log, e)
  <1>4. /\ DOMAIN Log = 1 .. Len(Log) /\ DOMAIN L = 1 .. Len(Log) + 1 /\ Len(Log) \in Nat
        /\ Len(L) = Len(Log) + 1 /\ L[Len(Log) + 1] = e
        /\ \A i \in 1 .. Len(Log) : L[i] = Log[i]
    BY <1>2, Appended
  <1> HIDE DEF L
  <1>5. \A i \in DOMAIN L : L[i].type \in Terminal => i = Len(L)
    <2> SUFFICES ASSUME NEW i \in DOMAIN L, i # Len(L)
                 PROVE  L[i].type \notin Terminal
      OBVIOUS
    <2>1. i \in DOMAIN Log /\ L[i] = Log[i]
      BY <1>4
    <2> QED  BY <1>2, <2>1 DEF Texts, Terminal
  <1>6. L # <<>> /\ L[Len(L)].type = e.type
    BY <1>4
  <1>7. TerminalDelivered'
    BY <1>3, <1>5, <1>6 DEF TerminalDelivered, L
  <1> QED  BY <1>7 DEF Closed, HasEnded

\* finish() appends the final text and COMPLETED.
LEMMA ClosedComplete ==
    ASSUME TypeOK, Closed, ~HasEnded, UNCHANGED <<delivered, tokens>>, state' = "completed",
           queue' = Append(Append(queue, Event("final", Len(tokens))), Event("completed", 0))
    PROVE  Closed'
  <1> DEFINE f == Event("final", Len(tokens))
             c == Event("completed", 0)
             M == Append(Log, f)
             L == Append(M, c)
  <1>1. queue \in Seq(Events) /\ delivered \in Seq(Events) /\ Len(tokens) \in Nat
    BY DEF TypeOK
  <1>2. /\ f \in Events /\ f.type = "final" /\ c \in Events /\ c.type = "completed"
        /\ Append(queue, f) \in Seq(Events)
    BY <1>1, Appended DEF Event, Events, EventTypes
  <1>3. Log \in Seq(Events) /\ Texts(Log)
    BY <1>1, TextLog DEF Log, Closed
  <1> HIDE DEF f, c
  <1>4. Log' = L
    <2>1. delivered \o Append(queue, f) = M
      BY <1>1, <1>2, LogAppend DEF Log
    <2>2. delivered \o Append(Append(queue, f), c) = Append(delivered \o Append(queue, f), c)
      BY <1>1, <1>2, LogAppend
    <2> QED  BY <2>1, <2>2 DEF Log, f, c
  <1>5. /\ M \in Seq(Events) /\ DOMAIN Log = 1 .. Len(Log) /\ Len(Log) \in Nat
        /\ Len(M) = Len(Log) + 1 /\ M[Len(Log) + 1] = f
        /\ \A i \in 1 .. Len(Log) : M[i] = Log[i]
    BY <1>2, <1>3, Appended
  <1> HIDE DEF M
  <1>6. /\ DOMAIN L = 1 .. Len(M) + 1 /\ Len(L) = Len(M) + 1 /\ L[Len(M) + 1] = c
        /\ \A i \in 1 .. Len(M) : L[i] = M[i]
    BY <1>2, <1>5, Appended
  <1> HIDE DEF L
  <1>7. \A i \in DOMAIN L : L[i].type \in Terminal => i = Len(L)
    <2> SUFFICES ASSUME NEW i \in DOMAIN L, i # Len(L)
                 PROVE  L[i].type \notin Terminal
      OBVIOUS
    <2>1. i \in 1 .. Len(M) /\ L[i] = M[i]
      BY <1>5, <1>6
    <2>2. CASE i = Len(Log) + 1
      BY <1>2, <1>5, <2>1, <2>2 DEF Terminal
    <2>3. CASE i # Len(Log) + 1
      <3>1. i \in DOMAIN Log /\ L[i] = Log[i]
        BY <1>5, <2>1, <2>3
      <3> QED  BY <1>3, <3>1 DEF Texts, Terminal
    <2> QED  BY <2>2, <2>3
  <1>8. /\ Len(L) >= 2 /\ L[Len(L)].type = "completed"
        /\ L[Len(L) - 1] = Event("final", Len(tokens))
    <2>1. Len(L) = Len(Log) + 2 /\ L[Len(Log) + 2] = c /\ L[Len(Log) + 1] = f
      BY <1>5, <1>6
    <2>2. Len(L) - 1 = Len(Log) + 1 /\ Len(L) >= 2
      BY <1>5, <2>1
    <2> QED  BY <1>2, <2>1, <2>2 DEF f
  <1>9. TerminalDelivered'
    BY <1>4, <1>7, <1>8 DEF TerminalDelivered
  <1> QED  BY <1>9 DEF Closed, HasEnded

LEMMA ClosedFail ==
    ASSUME FlowInv, Closed, ~HasEnded, FailStream, UNCHANGED clientVars
    PROVE  Closed'
  <1> DEFINE e == Event("error", 0)
  <1>1. e \in Events /\ e.type = "error"
    BY DEF Event, Events, EventTypes
  <1> HIDE DEF e
  <1>2. Len(queue) + 2 <= MaxEvents + Headroom /\ Len(queue) \in Nat
    BY RoomToEnd DEF FlowInv, IInv, TypeOK
  <1>3. queue' = Append(queue, e)
    BY <1>2, StreamConstants DEF FailStream, PushMandatory, e
  <1> QED  BY <1>1, <1>3, ClosedEnd DEF FailStream, FlowInv, IInv, clientVars

LEMMA FinalFits ==
    ASSUME FlowInv, ~HasEnded
    PROVE  FinalAndCompleted(queue) =
             Append(Append(queue, Event("final", Len(tokens))), Event("completed", 0))
  <1> DEFINE f == Event("final", Len(tokens))
             q == Append(queue, f)
  <1>1. Len(queue) + 2 <= MaxEvents + Headroom /\ Len(queue) \in Nat /\ queue \in Seq(Events)
    BY RoomToEnd DEF FlowInv, IInv, TypeOK
  <1>2. f \in Events
    <2>1. Len(tokens) \in Nat
      BY DEF FlowInv, IInv, TypeOK
    <2> QED  BY <2>1 DEF Event, Events, EventTypes
  <1>3. Len(q) = Len(queue) + 1
    BY <1>1, <1>2, Appended
  <1>4. PushMandatory(queue, f, MaxEvents + Headroom) = q
    BY <1>1, StreamConstants DEF PushMandatory
  <1> HIDE DEF q
  <1>5. PushMandatory(q, Event("completed", 0), MaxEvents + Headroom) = Append(q, Event("completed", 0))
    BY <1>1, <1>3, StreamConstants DEF PushMandatory
  <1> QED  BY <1>4, <1>5 DEF FinalAndCompleted, q

LEMMA ClosedEnter ==
    ASSUME FlowInv, Closed, ~HasEnded, EnterFinishing, UNCHANGED <<decodeVars, clientVars>>
    PROVE  Closed'
  <1>1. CASE received = 0
    BY <1>1, FinalFits, ClosedComplete DEF EnterFinishing, FlowInv, IInv, decodeVars, clientVars
  <1>2. CASE received # 0
    <2>1. state' = "finishing" /\ UNCHANGED <<queue, delivered, tokens>>
      BY <1>2 DEF EnterFinishing, decodeVars, clientVars
    <2> QED  BY <2>1 DEF Closed, TerminalDelivered, HasEnded, Texts, Log
  <1> QED  BY <1>1, <1>2

LEMMA ClosedDeliver ==
    ASSUME FlowInv, FlowInv', Closed, ~HasEnded, UNCHANGED <<state, delivered>>,
           NEW t \in [valid : BOOLEAN, eos : BOOLEAN, row : Rows], Deliver(t)
    PROVE  Closed'
  <1> DEFINE token == Event("token", seqno + 1)
             partial == Event("partial", Len(tokens) + 1)
             q == Append(queue, token)
  <1>1. /\ token \in Events /\ token.type = "token" /\ partial \in Events /\ partial.type = "partial"
        /\ queue \in Seq(Events) /\ Texts(queue) /\ Texts(delivered) /\ Bound \in Int
    <2>1. Len(tokens) \in Nat /\ seqno \in Nat /\ queue \in Seq(Events)
      BY DEF FlowInv, IInv, TypeOK
    <2>2. Bound \in Int
      BY StreamConstants DEF Bound, FlowInv, IInv, TypeOK
    <2> QED  BY <2>1, <2>2 DEF Event, Events, EventTypes, Closed
  <1>2. queue' = IF t.eos THEN q ELSE PushPartial(q, partial, Bound)
    BY DEF Deliver
  <1> HIDE DEF token, partial
  <1>3. q \in Seq(Events) /\ Texts(q)
    BY <1>1, Appended, TextPush
  <1> HIDE DEF q
  <1>4. Texts(PushPartial(q, partial, Bound))
    BY <1>1, <1>3, TextPush
  <1> QED  BY <1>1, <1>2, <1>3, <1>4, ClosedOpen DEF FlowInv, IInv, HasEnded

\* A running call has an open or finishing stream.
LEMMA RunningOpen ==
    ASSUME IInv, pc # "idle"
    PROVE  ~HasEnded
  BY DEF IInv, TypeOK, Phase, HasEnded, FeedAllowed

LEMMA RuntimeClosed ==
    ASSUME FlowInv, FlowInv', Closed, Runtime
    PROVE  Closed'
  <1>0. ~HasEnded
    <2>1. pc # "idle"
      BY DEF Runtime, Pump, FeedResumed, FeedSlice, FeedSliceFails, SliceLost, FeedPumped,
             FeedReturns, PumpCommit, PumpFlush, PumpStep, PumpReturns, PumpFails,
             FinishDrained, FinishReturns
    <2> QED  BY <2>1, RunningOpen DEF FlowInv
  <1>1. CASE FeedResumed \/ FeedPumped
    <2>1. /\ UNCHANGED <<decodeVars, clientVars>>
          /\ FailStream \/ UNCHANGED <<state, queue>>
      BY <1>1 DEF FeedResumed, FeedPumped, eventVars
    <2> QED  BY <1>0, <2>1, ClosedFail, ClosedKept DEF decodeVars, clientVars
  <1>2. CASE FeedSliceFails
    BY <1>0, <1>2, ClosedFail DEF FeedSliceFails
  <1>3. CASE FeedSlice \/ PumpCommit \/ PumpReturns \/ PumpFails
    <2>1. UNCHANGED <<state, queue, delivered, tokens>>
      BY <1>3 DEF FeedSlice, PumpCommit, PumpReturns, PumpFails, eventVars, decodeVars, clientVars
    <2> QED  BY <2>1, ClosedKept
  <1>4. CASE FeedReturns
    <2>1. state' = "running" /\ UNCHANGED <<queue, delivered>>
      BY <1>4 DEF FeedReturns, clientVars
    <2> QED  BY <1>0, <2>1, ClosedOpen DEF Closed, HasEnded, Texts, FlowInv, IInv
  <1>5. CASE PumpFlush
    <2>1. pending \in [valid : BOOLEAN, eos : BOOLEAN, row : Rows] /\ UNCHANGED <<state, delivered>>
      BY <1>5 DEF PumpFlush, FlowInv, IInv, TypeOK, clientVars
    <2>2. Deliver(pending) \/ UNCHANGED <<queue, tokens>>
      BY <1>5 DEF PumpFlush, Stash
    <2> QED  BY <1>0, <2>1, <2>2, ClosedDeliver, ClosedKept
  <1>6. CASE PumpStep
    <2>1. UNCHANGED <<state, delivered>>
      BY <1>6 DEF PumpStep, clientVars
    <2>2. PICK e \in BOOLEAN :
            LET t == [valid |-> TRUE, eos |-> e, row |-> aemb[position % AembRing]]
            IN  Deliver(t) \/ UNCHANGED <<queue, tokens>>
      BY <1>6 DEF PumpStep, Stash
    <2> DEFINE t == [valid |-> TRUE, eos |-> e, row |-> aemb[position % AembRing]]
    <2>3. t \in [valid : BOOLEAN, eos : BOOLEAN, row : Rows]
      <3>0. position \in Int /\ AembRing \in Nat \ {0}
        BY StreamConstants DEF FlowInv, IInv, TypeOK
      <3>1. position % AembRing \in 0 .. AembRing - 1
        BY <3>0, ModProperty
      <3>2. aemb[position % AembRing] \in Rows
        BY <3>1 DEF FlowInv, IInv, TypeOK
      <3> QED  BY <3>2
    <2>4. Deliver(t) \/ UNCHANGED <<queue, tokens>>
      BY <2>2
    <2> HIDE DEF t
    <2> QED  BY <1>0, <2>1, <2>3, <2>4, ClosedDeliver, ClosedKept
  <1>7. CASE FinishDrained
    <2>1. /\ UNCHANGED <<decodeVars, clientVars>>
          /\ EnterFinishing \/ FailStream \/ UNCHANGED <<state, queue>>
      BY <1>7 DEF FinishDrained, eventVars
    <2> QED  BY <1>0, <2>1, ClosedEnter, ClosedFail, ClosedKept DEF decodeVars, clientVars
  <1>8. CASE FinishReturns
    <2>1. /\ UNCHANGED <<decodeVars, clientVars>>
          /\ \/ queue' = FinalAndCompleted(queue) /\ state' = "completed"
             \/ FailStream
      BY <1>8 DEF FinishReturns
    <2> QED  BY <1>0, <2>1, FinalFits, ClosedComplete, ClosedFail
             DEF FlowInv, IInv, decodeVars, clientVars
  <1> QED  BY <1>1, <1>2, <1>3, <1>4, <1>5, <1>6, <1>7, <1>8 DEF Runtime, Pump

LEMMA CallFeedClosed ==
    ASSUME Closed, NEW n \in Nat, CallFeed(n)
    PROVE  Closed'
  BY ClosedKept DEF CallFeed, decodeVars, clientVars

LEMMA CallFinishClosed ==
    ASSUME FlowInv, Closed, CallFinish
    PROVE  Closed'
  <1>1. /\ UNCHANGED <<decodeVars, clientVars>>
        /\ \/ UNCHANGED <<state, queue>>
           \/ FeedAllowed /\ EnterFinishing
    BY DEF CallFinish, eventVars
  <1>2. FeedAllowed => ~HasEnded
    BY DEF FeedAllowed, HasEnded
  <1> QED  BY <1>1, <1>2, ClosedEnter, ClosedKept DEF decodeVars, clientVars

LEMMA CallCancelClosed ==
    ASSUME FlowInv, Closed, CallCancel
    PROVE  Closed'
  <1> DEFINE e == Event("cancelled", 0)
  <1>1. e \in Events /\ e.type = "cancelled"
    BY DEF Event, Events, EventTypes
  <1> HIDE DEF e
  <1>2. UNCHANGED <<delivered, tokens>>
    BY DEF CallCancel, decodeVars, clientVars
  <1>3. CASE UNCHANGED <<state, queue>>
    BY <1>2, <1>3, ClosedKept
  <1>4. CASE /\ FeedAllowed /\ state' = "cancelled"
             /\ queue' = PushMandatory(queue, e, MaxEvents + Headroom)
    <2>1. ~HasEnded
      BY <1>4 DEF FeedAllowed, HasEnded
    <2>2. Len(queue) + 2 <= MaxEvents + Headroom /\ Len(queue) \in Nat
      BY <2>1, RoomToEnd DEF FlowInv, IInv, TypeOK
    <2>3. queue' = Append(queue, e)
      BY <1>4, <2>2, StreamConstants DEF PushMandatory
    <2> QED  BY <1>1, <1>2, <1>4, <2>1, <2>3, ClosedEnd DEF FlowInv, IInv
  <1> QED  BY <1>3, <1>4 DEF CallCancel, e

LEMMA PollClosed ==
    ASSUME FlowInv, FlowInv', Closed, Poll
    PROVE  Closed'
  <1>1. queue \in Seq(Events) /\ queue # <<>> /\ delivered \in Seq(Events)
    BY DEF Poll, FlowInv, IInv, TypeOK
  <1>2. Log' = Log /\ UNCHANGED <<state, tokens>>
    BY <1>1, LogPoll DEF Poll, Log, decodeVars
  <1>3. TerminalDelivered'
    BY <1>2 DEF TerminalDelivered, Closed
  <1>4. ~HasEnded => Texts(Log)
    BY <1>1, TextLog DEF Closed, Log
  <1>5. ~HasEnded' => Texts(queue') /\ Texts(delivered')
    <2>1. ~HasEnded' => Texts(Log')
      BY <1>2, <1>4 DEF HasEnded
    <2>2. queue' \in Seq(Events) /\ delivered' \in Seq(Events)
      BY DEF FlowInv, IInv, TypeOK
    <2> QED  BY <2>1, <2>2, TextLog DEF Log
  <1> QED  BY <1>3, <1>5 DEF Closed

LEMMA FreshClosed ==
    /\ Init => Closed
    /\ FreshStream => Closed'
  <1>1. <<>> \o <<>> = <<>> /\ DOMAIN <<>> = {}
    OBVIOUS
  <1>2. Texts(<<>>)
    BY DEF Texts
  <1>3. ASSUME Init
        PROVE  Closed
    <2>1. Log = <<>> /\ queue = <<>> /\ delivered = <<>> /\ state = "created"
      BY <1>1, <1>3 DEF Init, Log
    <2> QED  BY <1>1, <1>2, <2>1 DEF Closed, TerminalDelivered, HasEnded
  <1>4. ASSUME FreshStream
        PROVE  Closed'
    <2>1. Log' = <<>> /\ queue' = <<>> /\ delivered' = <<>> /\ state' = "created"
      BY <1>1, <1>4 DEF FreshStream, Log
    <2> QED  BY <1>1, <1>2, <2>1 DEF Closed, TerminalDelivered, HasEnded
  <1> QED  BY <1>3, <1>4

LEMMA NextClosed ==
    ASSUME FlowInv, FlowInv', Closed, [Next]_vars
    PROVE  Closed'
  <1>1. CASE UNCHANGED vars
    BY <1>1, ClosedKept DEF vars, eventVars, decodeVars, clientVars
  <1>2. CASE \E n \in FeedSizes : CallFeed(n)
    BY <1>2, CallFeedClosed, StreamConstants
  <1>3. CASE CallReset \/ Recreate
    <2>1. FreshStream \/ UNCHANGED <<state, queue, delivered, tokens>>
      BY <1>3 DEF CallReset, Recreate, eventVars, decodeVars, clientVars
    <2> QED  BY <2>1, FreshClosed, ClosedKept
  <1> QED  BY <1>1, <1>2, <1>3, RuntimeClosed, CallFinishClosed, CallCancelClosed, PollClosed
           DEF Next, Client

\* With feeds of at most one slice the reserved headroom always holds the terminal
\* events: an ended stream has its one terminal event in the log, last, behind the
\* final text if it completed (emit_final_and_completed, emit_error, voxtral_stream_cancel).
THEOREM TerminalAlwaysDelivered ==
    ASSUME ShortFeeds
    PROVE  Spec => []TerminalDelivered
  <1>1. FlowInv /\ Closed => TerminalDelivered
    BY DEF Closed
  <1>2. Init => FlowInv /\ Closed
    BY InitFlow, FreshClosed
  <1>3. FlowInv /\ Closed /\ [Next]_vars => FlowInv' /\ Closed'
    BY NextFlow, NextClosed
  <1> QED  BY <1>1, <1>2, <1>3, PTL DEF Spec
-----------------------------------------------------------------------------
(* The stream keeps the contract of the public API.                        *)

\* The contract's view of the stream.
Outcome   == IF HasEnded THEN state ELSE "open"
Promised  == MandatoryIn(Log)
ReadSoFar == Len(MandatoryIn(delivered))

\* While the stream goes on its TOKEN events are all the log promises.
Counted == ~HasEnded => Len(Promised) = seqno

LEMMA PromisedTypes ==
    ASSUME TypeOK
    PROVE  /\ Log \in Seq(Events) /\ Promised \in Seq(Events) /\ Len(Promised) \in Nat
           /\ ReadSoFar \in Nat
           /\ queue \in Seq(Events) /\ delivered \in Seq(Events)
  <1>1. queue \in Seq(Events) /\ delivered \in Seq(Events)
    BY DEF TypeOK
  <1>2. Log \in Seq(Events)
    BY <1>1, ConcatProperties DEF Log
  <1>3. Event("error", 0) \in Events
    BY DEF Event, Events, EventTypes
  <1>4. MandatoryIn(Log) \in Seq(Events) /\ MandatoryIn(delivered) \in Seq(Events)
    BY <1>1, <1>2, <1>3, MandatoryAppend
  <1> QED  BY <1>1, <1>2, <1>4, LenProperties DEF Promised, ReadSoFar

\* An event pushed to the queue is an event appended to the log.
LEMMA PromisedAppend ==
    ASSUME TypeOK, NEW q \in Seq(Events), NEW e \in Events
    PROVE  MandatoryIn(delivered \o Append(q, e)) =
             IF IsMandatory(e) THEN Append(MandatoryIn(delivered \o q), e)
                               ELSE MandatoryIn(delivered \o q)
  <1>1. delivered \in Seq(Events)
    BY DEF TypeOK
  <1>2. delivered \o Append(q, e) = Append(delivered \o q, e) /\ delivered \o q \in Seq(Events)
    BY <1>1, LogAppend, ConcatProperties
  <1> QED  BY <1>2, MandatoryAppend

LEMMA AppendTwo ==
    ASSUME NEW E, NEW s \in Seq(E), NEW f \in E, NEW c \in E
    PROVE  Append(Append(s, f), c) = s \o <<f, c>>
  <1>1. /\ Append(s, f) \in Seq(E) /\ Len(Append(s, f)) = Len(s) + 1
        /\ Append(s, f)[Len(s) + 1] = f
        /\ \A i \in 1 .. Len(s) : Append(s, f)[i] = s[i]
    BY Appended
  <1> DEFINE m == Append(s, f)
  <1> HIDE DEF m
  <1>2. /\ m \in Seq(E) /\ Len(m) = Len(s) + 1 /\ m[Len(s) + 1] = f
        /\ \A i \in 1 .. Len(s) : m[i] = s[i]
    BY <1>1 DEF m
  <1>3. /\ Append(m, c) \in Seq(E) /\ Len(Append(m, c)) = Len(m) + 1
        /\ Append(m, c)[Len(m) + 1] = c /\ \A i \in 1 .. Len(m) : Append(m, c)[i] = m[i]
    BY <1>2, Appended
  <1>4. <<f, c>> \in Seq(E) /\ Len(<<f, c>>) = 2 /\ <<f, c>>[1] = f /\ <<f, c>>[2] = c
    OBVIOUS
  <1> DEFINE w == <<f, c>>
  <1> HIDE DEF w
  <1>5. w \in Seq(E) /\ Len(w) = 2 /\ w[1] = f /\ w[2] = c
    BY <1>4 DEF w
  <1>6. /\ s \o w \in Seq(E) /\ Len(s \o w) = Len(s) + Len(w)
        /\ \A i \in 1 .. Len(s) + Len(w) :
             (s \o w)[i] = IF i <= Len(s) THEN s[i] ELSE w[i - Len(s)]
    BY <1>5, ConcatProperties
  <1> DEFINE n == Len(s)
             u == s \o w
             v == Append(m, c)
  <1>7. /\ u \in Seq(E) /\ Len(u) = n + 2 /\ n \in Nat
        /\ \A i \in 1 .. n + 2 : u[i] = IF i <= n THEN s[i] ELSE w[i - n]
    BY <1>5, <1>6, LenProperties
  <1>8. /\ v \in Seq(E) /\ Len(v) = n + 2 /\ v[n + 2] = c /\ v[n + 1] = f
        /\ \A i \in 1 .. n : v[i] = s[i]
    <2>1. n + 1 + 1 = n + 2 /\ n + 1 \in 1 .. Len(m) /\ \A i \in 1 .. n : i \in 1 .. Len(m)
      BY <1>2, LenProperties
    <2> HIDE DEF v
    <2>2. /\ v \in Seq(E) /\ Len(v) = Len(m) + 1 /\ v[Len(m) + 1] = c
          /\ \A i \in 1 .. Len(m) : v[i] = m[i]
      BY <1>3 DEF v
    <2> QED  BY <1>2, <2>1, <2>2
  <1> HIDE DEF u, v, n
  <1>9. ASSUME NEW i \in 1 .. n + 2
        PROVE  v[i] = u[i]
    <2>1. CASE i <= n
      <3>1. i \in 1 .. n
        BY <1>7, <2>1
      <3> QED  BY <1>7, <1>8, <2>1, <3>1
    <2>2. CASE i = n + 1
      <3>1. ~(i <= n) /\ i - n = 1
        BY <1>7, <2>2
      <3> QED  BY <1>5, <1>7, <1>8, <2>2, <3>1
    <2>3. CASE i = n + 2
      <3>1. ~(i <= n) /\ i - n = 2
        BY <1>7, <2>3
      <3> QED  BY <1>5, <1>7, <1>8, <2>3, <3>1
    <2> QED  BY <1>7, <2>1, <2>2, <2>3
  <1>10. v = u
    BY <1>7, <1>8, <1>9, SeqEqual
  <1> QED  BY <1>10 DEF u, v, w, m

\* Steps the contract does not see.
LEMMA ContractStutter ==
    ASSUME Counted, UNCHANGED <<queue, delivered, seqno>>, HasEnded' = HasEnded, HasEnded => state' = state
    PROVE  UNCHANGED <<Outcome, Promised, ReadSoFar>> /\ Counted'
  <1>1. Log' = Log
    BY DEF Log
  <1>2. UNCHANGED <<Promised, ReadSoFar>>
    BY <1>1 DEF Promised, ReadSoFar
  <1>3. Outcome' = Outcome
    BY DEF Outcome
  <1> QED  BY <1>2, <1>3 DEF Counted

LEMMA ContractFail ==
    ASSUME FlowInv, Counted, ~HasEnded, FailStream, UNCHANGED clientVars
    PROVE  Contract!Abort("failed", "error") /\ Counted'
  <1> DEFINE e == Event("error", 0)
  <1>1. e \in Events /\ IsMandatory(e) /\ TypeOK
    BY DEF Event, Events, EventTypes, IsMandatory, FlowInv, IInv
  <1> HIDE DEF e
  <1>2. Len(queue) + 2 <= MaxEvents + Headroom /\ Len(queue) \in Nat /\ queue \in Seq(Events)
    BY RoomToEnd DEF FlowInv, IInv, TypeOK
  <1>3. queue' = Append(queue, e) /\ delivered' = delivered /\ state' = "failed"
    BY <1>2, StreamConstants DEF FailStream, PushMandatory, clientVars, e
  <1>4. Promised' = Append(Promised, e) /\ ReadSoFar' = ReadSoFar
    BY <1>1, <1>2, <1>3, PromisedAppend DEF Promised, ReadSoFar, Log
  <1>5. HasEnded'
    BY <1>3 DEF HasEnded
  <1>6. Counted'
    BY <1>5 DEF Counted
  <1>7. Contract!Abort("failed", "error")
    BY <1>3, <1>4 DEF Contract!Abort, Contract!Mandatory, Promised, ReadSoFar, HasEnded, Event, e
  <1> QED  BY <1>6, <1>7

LEMMA ContractDeliver ==
    ASSUME FlowInv, FlowInv', Counted, ~HasEnded, UNCHANGED <<state, delivered>>,
           NEW t \in [valid : BOOLEAN, eos : BOOLEAN, row : Rows], Deliver(t)
    PROVE  Contract!ProduceToken /\ Counted'
  <1> DEFINE token == Event("token", seqno + 1)
             partial == Event("partial", Len(tokens) + 1)
             q == Append(queue, token)
  <1>0. TypeOK /\ TypeOK' /\ seqno \in Nat /\ Len(tokens) \in Nat
    <2>1. TypeOK /\ TypeOK'
      BY DEF FlowInv, IInv
    <2>2. TypeOK => seqno \in Nat /\ Len(tokens) \in Nat
      BY LenProperties DEF TypeOK
    <2> QED  BY <2>1, <2>2
  <1>1. /\ token \in Events /\ IsMandatory(token) /\ partial \in Events /\ partial.type = "partial"
        /\ queue \in Seq(Events) /\ delivered \in Seq(Events) /\ Bound \in Int
    <2>1. queue \in Seq(Events) /\ delivered \in Seq(Events)
      BY <1>0 DEF TypeOK
    <2>2. Bound \in Int
      BY <1>0, StreamConstants DEF Bound, TypeOK
    <2> QED  BY <1>0, <2>1, <2>2 DEF Event, Events, EventTypes, IsMandatory
  <1>2. queue' = (IF t.eos THEN q ELSE PushPartial(q, partial, Bound)) /\ seqno' = seqno + 1
    BY DEF Deliver
  <1> HIDE DEF partial
  <1>3. q \in Seq(Events) /\ MandatoryIn(delivered \o q) = Append(Promised, token)
    <2> HIDE DEF token
    <2>1. q \in Seq(Events)
      BY <1>1, Appended
    <2>2. MandatoryIn(delivered \o Append(queue, token)) = Append(MandatoryIn(delivered \o queue), token)
      BY <1>0, <1>1, PromisedAppend
    <2> QED  BY <2>1, <2>2 DEF Promised, Log
  <1> HIDE DEF q
  <1>4. MandatoryIn(delivered \o queue') = Append(Promised, token)
    <2>1. MandatoryIn(delivered \o PushPartial(q, partial, Bound)) = MandatoryIn(delivered \o q)
      BY <1>1, <1>3, MandatoryPush
    <2> QED  BY <1>2, <1>3, <2>1
  <1>5. Promised' = Append(Promised, token)
    BY <1>4 DEF Promised, Log
  <1>6. Promised \in Seq(Events) /\ Len(Promised) = seqno
    BY <1>0, PromisedTypes DEF Counted
  <1>7. Counted'
    <2>1. Len(Append(Promised, token)) = seqno + 1
      BY <1>1, <1>6, AppendProperties
    <2> QED  BY <1>2, <1>5, <2>1 DEF Counted
  <1>8. Contract!ProduceToken
    <2>1. token = Contract!Mandatory("token", Len(Promised) + 1)
      BY <1>6 DEF Contract!Mandatory, Event
    <2> HIDE DEF token
    <2> QED  BY <1>5, <2>1 DEF Contract!ProduceToken, Promised, HasEnded
  <1> QED  BY <1>7, <1>8

LEMMA ContractComplete ==
    ASSUME FlowInv, Ordered, Counted, ~HasEnded, state' = "completed",
           queue' = FinalAndCompleted(queue), UNCHANGED delivered
    PROVE  Contract!Complete /\ Counted'
  <1> DEFINE f == Event("final", Len(tokens))
             c == Event("completed", 0)
             q == Append(queue, f)
  <1>0. TypeOK /\ Len(tokens) \in Nat /\ queue \in Seq(Events)
    BY DEF FlowInv, IInv, TypeOK
  <1>1. f \in Events /\ IsMandatory(f) /\ c \in Events /\ IsMandatory(c)
    BY <1>0 DEF Event, Events, EventTypes, IsMandatory
  <1>2. queue' = Append(q, c)
    BY FinalFits
  <1>3. Promised' = Append(Append(Promised, f), c)
    <2> HIDE DEF f, c
    <2>1. MandatoryIn(delivered \o q) = Append(MandatoryIn(delivered \o queue), f) /\ q \in Seq(Events)
      BY <1>0, <1>1, PromisedAppend, Appended
    <2> HIDE DEF q
    <2>2. MandatoryIn(delivered \o Append(q, c)) = Append(MandatoryIn(delivered \o q), c)
      BY <1>0, <1>1, <2>1, PromisedAppend
    <2> QED  BY <1>2, <2>1, <2>2 DEF Promised, Log
  <1>4. Promised \in Seq(Events) /\ Len(Promised) = seqno /\ seqno \in Nat
    BY <1>0, PromisedTypes DEF Counted, TypeOK
  <1>5. Len(tokens) \in {Len(Promised), Len(Promised) - 1}
    BY <1>0, <1>4 DEF Ordered
  <1>6. Append(Append(Promised, f), c) = Promised \o <<f, c>>
    BY <1>1, <1>4, AppendTwo
  <1>7. Counted'
    BY DEF Counted, HasEnded
  <1>8. Contract!Complete
    <2>1. f = Contract!Mandatory("final", Len(tokens)) /\ c = Contract!Mandatory("completed", 0)
      BY DEF Contract!Mandatory, Event
    <2> HIDE DEF f, c
    <2> QED  BY <1>3, <1>5, <1>6, <2>1 DEF Contract!Complete, Promised, HasEnded
  <1> QED  BY <1>7, <1>8

LEMMA ContractEnter ==
    ASSUME FlowInv, Ordered, Counted, ~HasEnded, EnterFinishing, UNCHANGED <<decodeVars, clientVars>>
    PROVE  /\ Contract!Complete \/ UNCHANGED <<Outcome, Promised, ReadSoFar>>
           /\ Counted'
  <1>1. CASE received = 0
    <2>1. state' = "completed" /\ queue' = FinalAndCompleted(queue) /\ delivered' = delivered
      BY <1>1 DEF EnterFinishing, clientVars
    <2> QED  BY <2>1, ContractComplete
  <1>2. CASE received # 0
    <2>1. state' = "finishing" /\ UNCHANGED <<queue, delivered, seqno>>
      BY <1>2 DEF EnterFinishing, decodeVars, clientVars
    <2>2. HasEnded' = HasEnded
      BY <2>1 DEF HasEnded
    <2> QED  BY <2>1, <2>2, ContractStutter
  <1> QED  BY <1>1, <1>2

\* Every step of a running call is a step of the contract, or invisible to it.
LEMMA RuntimeContract ==
    ASSUME FlowInv, FlowInv', Ordered, Counted, Runtime
    PROVE  /\ Contract!ContractNext \/ UNCHANGED <<Outcome, Promised, ReadSoFar>>
           /\ Counted'
  <1> USE DEF Contract!ContractNext
  <1>0. ~HasEnded
    <2>1. pc # "idle"
      BY DEF Runtime, Pump, FeedResumed, FeedSlice, FeedSliceFails, SliceLost, FeedPumped,
             FeedReturns, PumpCommit, PumpFlush, PumpStep, PumpReturns, PumpFails,
             FinishDrained, FinishReturns
    <2> QED  BY <2>1, RunningOpen DEF FlowInv
  <1>1. ASSUME UNCHANGED <<state, queue, delivered, seqno>>
        PROVE  UNCHANGED <<Outcome, Promised, ReadSoFar>> /\ Counted'
    <2>1. HasEnded' = HasEnded
      BY <1>1 DEF HasEnded
    <2> QED  BY <1>1, <2>1, ContractStutter
  <1>2. CASE FeedResumed \/ FeedPumped
    <2>1. /\ UNCHANGED <<decodeVars, clientVars>>
          /\ FailStream \/ UNCHANGED <<state, queue>>
      BY <1>2 DEF FeedResumed, FeedPumped, eventVars
    <2> QED  BY <1>0, <1>1, <2>1, ContractFail DEF decodeVars, clientVars
  <1>3. CASE FeedSliceFails
    BY <1>0, <1>3, ContractFail DEF FeedSliceFails
  <1>4. CASE FeedSlice \/ PumpCommit \/ PumpReturns \/ PumpFails
    <2>1. UNCHANGED <<state, queue, delivered, seqno>>
      BY <1>4 DEF FeedSlice, PumpCommit, PumpReturns, PumpFails, eventVars, decodeVars, clientVars
    <2> QED  BY <1>1, <2>1
  <1>5. CASE FeedReturns
    <2>1. state' = "running" /\ UNCHANGED <<queue, delivered, seqno>>
      BY <1>5 DEF FeedReturns, decodeVars, clientVars
    <2>2. HasEnded' = HasEnded
      BY <1>0, <2>1 DEF HasEnded
    <2> QED  BY <1>0, <2>1, <2>2, ContractStutter
  <1>6. CASE PumpFlush
    <2>1. pending \in [valid : BOOLEAN, eos : BOOLEAN, row : Rows] /\ UNCHANGED <<state, delivered>>
      BY <1>6 DEF PumpFlush, FlowInv, IInv, TypeOK, clientVars
    <2>2. Deliver(pending) \/ UNCHANGED <<queue, seqno>>
      BY <1>6 DEF PumpFlush, Stash
    <2> QED  BY <1>0, <1>1, <2>1, <2>2, ContractDeliver
  <1>7. CASE PumpStep
    <2>1. UNCHANGED <<state, delivered>>
      BY <1>7 DEF PumpStep, clientVars
    <2>2. PICK e \in BOOLEAN :
            LET t == [valid |-> TRUE, eos |-> e, row |-> aemb[position % AembRing]]
            IN  Deliver(t) \/ UNCHANGED <<queue, seqno>>
      BY <1>7 DEF PumpStep, Stash
    <2> DEFINE t == [valid |-> TRUE, eos |-> e, row |-> aemb[position % AembRing]]
    <2>3. t \in [valid : BOOLEAN, eos : BOOLEAN, row : Rows]
      <3>0. position \in Int /\ AembRing \in Nat \ {0}
        BY StreamConstants DEF FlowInv, IInv, TypeOK
      <3>1. position % AembRing \in 0 .. AembRing - 1
        BY <3>0, ModProperty
      <3>2. aemb[position % AembRing] \in Rows
        BY <3>1 DEF FlowInv, IInv, TypeOK
      <3> QED  BY <3>2
    <2>4. Deliver(t) \/ UNCHANGED <<queue, seqno>>
      BY <2>2
    <2> HIDE DEF t
    <2> QED  BY <1>0, <1>1, <2>1, <2>3, <2>4, ContractDeliver
  <1>8. CASE FinishDrained
    <2>1. /\ UNCHANGED <<decodeVars, clientVars>>
          /\ EnterFinishing \/ FailStream \/ UNCHANGED <<state, queue>>
      BY <1>8 DEF FinishDrained, eventVars
    <2>2. CASE EnterFinishing
      BY <1>0, <2>1, <2>2, ContractEnter
    <2>3. CASE FailStream
      BY <1>0, <2>1, <2>3, ContractFail
    <2>4. CASE UNCHANGED <<state, queue>>
      BY <1>1, <2>1, <2>4 DEF decodeVars, clientVars
    <2> QED  BY <2>1, <2>2, <2>3, <2>4
  <1>9. CASE FinishReturns
    <2>1. /\ UNCHANGED <<decodeVars, clientVars>>
          /\ \/ queue' = FinalAndCompleted(queue) /\ state' = "completed"
             \/ FailStream
      BY <1>9 DEF FinishReturns
    <2> QED  BY <1>0, <2>1, ContractComplete, ContractFail DEF clientVars
  <1> QED  BY <1>2, <1>3, <1>4, <1>5, <1>6, <1>7, <1>8, <1>9 DEF Runtime, Pump

LEMMA CancelContract ==
    ASSUME FlowInv, Counted, CallCancel
    PROVE  /\ Contract!ContractNext \/ UNCHANGED <<Outcome, Promised, ReadSoFar>>
           /\ Counted'
  <1> DEFINE e == Event("cancelled", 0)
  <1>1. e \in Events /\ IsMandatory(e) /\ TypeOK
    BY DEF Event, Events, EventTypes, IsMandatory, FlowInv, IInv
  <1> HIDE DEF e
  <1>2. UNCHANGED <<delivered, seqno>>
    BY DEF CallCancel, decodeVars, clientVars
  <1>3. CASE UNCHANGED <<state, queue>>
    <2>1. HasEnded' = HasEnded
      BY <1>3 DEF HasEnded
    <2> QED  BY <1>2, <1>3, <2>1, ContractStutter
  <1>4. CASE /\ FeedAllowed /\ state' = "cancelled"
             /\ queue' = PushMandatory(queue, e, MaxEvents + Headroom)
    <2>1. ~HasEnded /\ HasEnded'
      BY <1>4 DEF FeedAllowed, HasEnded
    <2>2. Len(queue) + 2 <= MaxEvents + Headroom /\ Len(queue) \in Nat /\ queue \in Seq(Events)
      BY <2>1, RoomToEnd DEF FlowInv, IInv, TypeOK
    <2>3. queue' = Append(queue, e)
      BY <1>4, <2>2, StreamConstants DEF PushMandatory
    <2>4. Promised' = Append(Promised, e) /\ ReadSoFar' = ReadSoFar
      BY <1>1, <1>2, <2>2, <2>3, PromisedAppend DEF Promised, ReadSoFar, Log
    <2>5. Contract!Abort("cancelled", "cancelled")
      BY <1>4, <2>1, <2>4
         DEF Contract!Abort, Contract!Mandatory, Promised, ReadSoFar, HasEnded, Event, e
    <2> QED  BY <2>1, <2>5 DEF Contract!ContractNext, Counted
  <1> QED  BY <1>3, <1>4 DEF CallCancel, e

\* A poll reads the next mandatory event, or passes a snapshot on.
LEMMA PollContract ==
    ASSUME FlowInv, FlowInv', Counted, Poll
    PROVE  /\ Contract!ContractNext \/ UNCHANGED <<Outcome, Promised, ReadSoFar>>
           /\ Counted'
  <1>1. /\ queue \in Seq(Events) /\ queue # <<>> /\ delivered \in Seq(Events)
        /\ Head(queue) \in Events /\ queue' = Tail(queue) /\ Tail(queue) \in Seq(Events)
        /\ delivered' = Append(delivered, Head(queue)) /\ delivered' \in Seq(Events)
    BY HeadTailProperties, AppendProperties DEF Poll, FlowInv, IInv, TypeOK
  <1>2. Log' = Log /\ UNCHANGED <<state, seqno>>
    BY <1>1, LogPoll DEF Log, Poll, decodeVars
  <1>3. Promised' = Promised /\ Outcome' = Outcome /\ Counted'
    BY <1>2 DEF Promised, Outcome, HasEnded, Counted
  <1> DEFINE h == Head(queue)
             d == delivered'
  <1> HIDE DEF h, d
  <1>4. /\ IsMandatory(h) => MandatoryIn(d) = Append(MandatoryIn(delivered), h)
        /\ ~IsMandatory(h) => MandatoryIn(d) = MandatoryIn(delivered)
        /\ MandatoryIn(delivered) \in Seq(Events) /\ h \in Events
    <2>1. h \in Events /\ d = Append(delivered, h)
      BY <1>1 DEF h, d
    <2> QED  BY <1>1, <2>1, MandatoryAppend
  <1>5. CASE ~IsMandatory(h)
    <2>1. MandatoryIn(delivered') = MandatoryIn(delivered)
      BY <1>4, <1>5 DEF d
    <2> QED  BY <1>3, <2>1 DEF ReadSoFar
  <1>6. CASE IsMandatory(h)
    <2>1. ReadSoFar' = ReadSoFar + 1 /\ ReadSoFar \in Nat
      <3>1. Len(MandatoryIn(d)) = Len(MandatoryIn(delivered)) + 1
            /\ Len(MandatoryIn(delivered)) \in Nat
        BY <1>4, <1>6, AppendProperties, LenProperties
      <3> QED  BY <3>1 DEF ReadSoFar, d
    <2>2. ReadSoFar' <= Len(Promised)
      <3>1. Len(MandatoryIn(delivered')) <= Len(MandatoryIn(delivered' \o queue'))
        BY <1>1, MandatoryPrefix
      <3> QED  BY <1>2, <3>1 DEF ReadSoFar, Promised, Log
    <2>3. Len(Promised) \in Nat
      BY PromisedTypes DEF FlowInv, IInv
    <2>4. ReadSoFar < Len(Promised)
      BY <2>1, <2>2, <2>3
    <2>5. Contract!Read
      BY <1>3, <2>1, <2>4 DEF Contract!Read, Promised, ReadSoFar, Outcome, HasEnded
    <2> QED  BY <1>3, <2>5 DEF Contract!ContractNext
  <1> QED  BY <1>5, <1>6

LEMMA NextContract ==
    ASSUME FlowInv, FlowInv', Ordered, Counted, [Next]_vars
    PROVE  /\ Contract!ContractNext \/ UNCHANGED <<Outcome, Promised, ReadSoFar>>
           /\ Counted'
  <1>1. ASSUME UNCHANGED <<state, queue, delivered, seqno>>
        PROVE  UNCHANGED <<Outcome, Promised, ReadSoFar>> /\ Counted'
    <2>1. HasEnded' = HasEnded
      BY <1>1 DEF HasEnded
    <2> QED  BY <1>1, <2>1, ContractStutter
  <1>2. CASE UNCHANGED vars
    BY <1>1, <1>2 DEF vars, eventVars, decodeVars, clientVars
  <1>3. CASE \E n \in FeedSizes : CallFeed(n)
    BY <1>1, <1>3 DEF CallFeed, decodeVars, clientVars
  <1>4. CASE CallFinish
    <2>1. /\ UNCHANGED <<decodeVars, clientVars>>
          /\ UNCHANGED <<state, queue>> \/ (FeedAllowed /\ EnterFinishing)
      BY <1>4 DEF CallFinish, eventVars
    <2>2. CASE UNCHANGED <<state, queue>>
      BY <1>1, <2>1, <2>2 DEF decodeVars, clientVars
    <2>3. CASE FeedAllowed /\ EnterFinishing
      <3>1. ~HasEnded
        BY <2>3 DEF FeedAllowed, HasEnded
      <3> QED  BY <2>1, <2>3, <3>1, ContractEnter DEF Contract!ContractNext
    <2> QED  BY <2>1, <2>2, <2>3
  <1>5. CASE CallReset \/ Recreate
    <2>1. CASE UNCHANGED <<state, queue, delivered, seqno>>
      BY <1>1, <2>1
    <2>2. CASE FreshStream
      <3>1. /\ state' = "created" /\ queue' = <<>> /\ delivered' = <<>> /\ seqno' = 0
        BY <2>2 DEF FreshStream, FreshDecoder
      <3>2. Log' = <<>> /\ MandatoryIn(<<>>) = <<>>
        <4>1. <<>> \o <<>> = <<>> /\ <<>> \in Seq(Events) /\ Len(<<>>) = 0
          OBVIOUS
        <4>2. MandatoryIn(<<>>) = UpTo(<<>>)[Len(<<>>)] /\ UpTo(<<>>)[0] = <<>>
          BY <4>1, UpToProperty
        <4> QED  BY <3>1, <4>1, <4>2 DEF Log
      <3>3. Promised' = <<>> /\ ReadSoFar' = 0 /\ Outcome' = "open"
        BY <3>1, <3>2 DEF Promised, ReadSoFar, Outcome, HasEnded
      <3>4. Contract!Restart
        BY <3>3 DEF Contract!Restart, Promised, ReadSoFar, Outcome, HasEnded
      <3>5. Counted'
        BY <3>1, <3>3 DEF Counted
      <3> QED  BY <3>4, <3>5 DEF Contract!ContractNext
    <2> QED  BY <1>5, <2>1, <2>2
             DEF CallReset, Recreate, eventVars, decodeVars, clientVars
  <1> QED  BY <1>2, <1>3, <1>4, <1>5, RuntimeContract, CancelContract, PollContract
           DEF Next, Client

LEMMA InitContract ==
    ASSUME Init
    PROVE  Contract!Start /\ Counted
  <1>1. <<>> \o <<>> = <<>> /\ <<>> \in Seq(Events) /\ Len(<<>>) = 0
    OBVIOUS
  <1>2. MandatoryIn(<<>>) = UpTo(<<>>)[Len(<<>>)] /\ UpTo(<<>>)[0] = <<>>
    BY <1>1, UpToProperty
  <1>3. Log = <<>> /\ delivered = <<>> /\ state = "created" /\ seqno = 0
    BY <1>1 DEF Init, Log
  <1>4. MandatoryIn(Log) = <<>> /\ Len(MandatoryIn(delivered)) = 0
    BY <1>1, <1>2, <1>3
  <1> QED  BY <1>3, <1>4 DEF Contract!Start, Counted, Promised, HasEnded

\* With feeds of at most one slice the detailed stream implements the promise of
\* the public API: its mandatory events form one append-only log, numbered without
\* gaps, that ends with one terminal outcome and is read from the front.
THEOREM KeepsItsContract ==
    ASSUME ShortFeeds
    PROVE  Spec => KeepsContract
  <1>1. Init => FlowInv /\ Ordered /\ Counted /\ Contract!Start
    BY InitFlow, FreshOrder, InitContract
  <1>2. FlowInv /\ Ordered /\ Counted /\ [Next]_vars =>
          FlowInv' /\ Ordered' /\ Counted' /\ [Contract!ContractNext]_Contract!contractVars
    <2> SUFFICES ASSUME FlowInv, Ordered, Counted, [Next]_vars
                 PROVE  /\ FlowInv' /\ Ordered' /\ Counted'
                        /\ [Contract!ContractNext]_Contract!contractVars
      OBVIOUS
    <2>1. FlowInv'
      BY NextFlow
    <2>2. Ordered'
      BY NextOrdered DEF FlowInv
    <2>3. /\ Contract!ContractNext \/ UNCHANGED <<Outcome, Promised, ReadSoFar>>
          /\ Counted'
      BY <2>1, NextContract
    <2> QED  BY <2>1, <2>2, <2>3 DEF Contract!contractVars, Outcome, Promised, ReadSoFar, HasEnded
  <1> QED  BY <1>1, <1>2, PTL DEF Spec, KeepsContract, Contract!ContractSpec

=============================================================================
