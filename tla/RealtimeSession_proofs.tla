----------------------- MODULE RealtimeSession_proofs -----------------------
(***************************************************************************)
(* Proofs about the realtime session, for every capacity, every bound of   *)
(* the outbound queue from three messages on, and every configuration.     *)
(***************************************************************************)
EXTENDS RealtimeSession, SequenceTheorems, NaturalsInduction,
        WellFoundedInduction, TLAPS

-----------------------------------------------------------------------------
(* The inductive invariant. *)

\* The flags are truth values.
Flags ==
    /\ accepted \in BOOLEAN /\ configured \in BOOLEAN /\ tokenEvents \in BOOLEAN
    /\ partialEvents \in BOOLEAN /\ inputEnded \in BOOLEAN /\ reading \in BOOLEAN
    /\ configTimer \in BOOLEAN /\ idleTimer \in BOOLEAN /\ idleDue \in BOOLEAN
    /\ closed \in BOOLEAN /\ closeStarted \in BOOLEAN /\ closeAfterDrain \in BOOLEAN
    /\ pcmFinishing \in BOOLEAN /\ pcmCancelled \in BOOLEAN
    /\ outboundClosed \in BOOLEAN /\ postedWrite \in BOOLEAN
    /\ postedSpace \in BOOLEAN /\ postedDone \in BOOLEAN /\ asleep \in BOOLEAN
    /\ stalled \in BOOLEAN /\ clientCancelled \in BOOLEAN /\ broken \in BOOLEAN
    /\ destroyed \in BOOLEAN

\* Where the worker is, who holds the lease, why it is cancelled.
Control ==
    /\ server \in {"up", "stopping", "stopped"}
    /\ lease \in {"session", "worker", "free"} /\ reason \in Reasons
    /\ wpc \in {"none", "create", "pop", "feed", "resume", "drain", "back",
                "finish", "lag", "enqueue", "close", "cancel", "fail", "exit"}
    /\ wphase \in {"feed", "tail"}
    /\ wfrom \in {"drain", "warning", "lag", "final", "completed", "cancelled",
                  "error"}
    /\ pings \in 0 .. MaxPings /\ warnings \in 0 .. MaxWarnings

\* The lease is with the session until its worker starts or it ends, with the
\* worker as long as that needs it, and free after both; what ends a session
\* closes its queues.
LeaseHeld ==
    /\ LeaseNotLeaked
    /\ lease = "session" => ~Gone
    /\ destroyed => accepted /\ ~reading /\ ~Running /\ ~postedSpace
    /\ closed <=> outboundClosed
    /\ reason = "disconnect" => closed
    /\ closed => pcmCancelled
    /\ ~configured => /\ ~Running /\ lease # "worker" /\ ~postedSpace
                      /\ ~pcmFinishing /\ ~clientCancelled
    /\ ~accepted => ~reading /\ ~configured

\* Audio is never invented, and what was read is accounted for until something
\* is cancelled; the end of input comes behind all of it.
AudioKept ==
    /\ received \in 0 .. MaxAudio /\ {fed, pending} \subseteq Nat
    /\ queued \in 0 .. Capacity
    /\ fed + queued + pending <= received
    /\ FramesNotDropped
    /\ reading => pending = 0
    /\ pcmFinishing => ~reading /\ inputEnded /\ pending = 0
    /\ clientCancelled => Cancelling /\ wphase = "feed"
    /\ wpc = "finish" \/ wphase = "tail" => pcmFinishing /\ fed = received

\* What the worker is about: before the tail it feeds, with the stream's queue
\* drained before each call; in the tail it never feeds again.
WorkerFlow ==
    /\ ~configured => wpc = "none" /\ wphase = "feed" /\ ~stalled
    /\ wphase = "tail" =>
           /\ wpc \notin {"create", "pop", "feed", "resume", "finish", "lag"}
           /\ wpc \in {"enqueue", "close"} => wfrom \notin {"warning", "lag"}
           /\ ~stalled
    /\ wphase = "feed" /\ wpc = "enqueue" => wfrom \notin {"final", "completed"}
    /\ wpc \in {"create", "pop", "feed", "finish", "lag"} => ~stalled
    /\ wpc = "enqueue" /\ wfrom = "warning" => ~stalled
    /\ wpc \in {"enqueue", "close"} /\ wfrom = "lag" => Cancelling

\* The stream's events in the session's hands: snapshots and tokens within the
\* bound of the public stream, then nothing, a failure, or the last two.
EventsQueued ==
    /\ events \in Seq({"token", "partial", "error", "final", "completed"})
    /\ seq \in Nat /\ tokenCount \in 0 .. MaxSeq /\ tokenCount <= seq
    /\ \A i \in 1 .. Len(events) :
           IF wphase = "tail" /\ i > Len(events) - 2
           THEN events[i] \in {"final", "completed"}
           ELSE \/ events[i] \in {"token", "partial"} /\ seq + i <= MaxSeq
                \/ /\ events[i] = "error" /\ wphase = "feed"
                   /\ i = Len(events) /\ seq + i <= MaxSeq + 1
    /\ wphase = "tail" =>
           2 <= seq + Len(events) /\ seq + Len(events) <= MaxSeq + 2
    /\ wphase = "feed" => seq <= MaxSeq + 1
    /\ wphase = "tail" /\ wpc = "enqueue" /\ wfrom = "drain" => Len(events) >= 2
    /\ wpc \in {"create", "pop", "feed", "resume", "finish", "lag"} => events = <<>>
    /\ wpc = "enqueue" /\ wfrom \in {"warning", "final", "completed"} => events = <<>>
    /\ ~configured => events = <<>> /\ seq = 0 /\ tokenCount = 0
    /\ wphase = "feed" =>
           \/ wpc \in {"none", "back", "close", "cancel", "fail", "exit"}
           \/ wpc = "enqueue" /\ wfrom \notin {"drain", "warning"}
           \/ seq <= MaxSeq

\* What the transcript is made of.
Transcript == {"token", "partial", "final", "completed"}

\* Types of the messages in the queue, on their way, and taken.
MessagesTyped ==
    /\ outbound \in Seq(Messages) /\ writing \in Seq(Messages)
    /\ sent \in Seq(Messages) /\ wmsg \in Messages \cup {NoMessage}
    /\ Len(writing) <= 1 /\ Len(outbound) + Len(writing) <= MaxOut
    /\ closed => outbound = <<>>

\* A session that is not configured has no transcript yet.
Unconfigured == ~configured => Positions(Outgoing, Transcript) = {}

\* The message the worker is about to queue, by what it is enqueued from.
HeldMessage ==
    wpc = "enqueue" =>
        /\ wmsg \in Messages
        /\ wfrom = "drain" =>
               /\ wmsg.kind \in {"token", "partial"}
               /\ wmsg.n = seq /\ wmsg.k = tokenCount
               /\ wmsg.kind = "token" => tokenEvents /\ tokenCount >= 1
        /\ wfrom = "final" => wmsg = FinalMessage
        /\ wfrom = "completed" => wmsg = CompletedMessage
        /\ wfrom = "warning" => wmsg = Plain("warning")
        /\ wfrom = "cancelled" => wmsg = Plain("cancelled")
        /\ wfrom \in {"lag", "error"} => wmsg = Plain("error")

\* Where message i of a queue was before the message at p was given up, and
\* where message j is after it; p past the end gives up nothing.
Before(p, i) == IF i < p THEN i ELSE i + 1
After(p, j) == IF j < p THEN j ELSE j - 1

\* r has nothing of the transcript that q has not, in the order it has there, and
\* nothing before it is missing but a snapshot at p.
Carries(q, r, p) ==
    /\ p \in DOMAIN q => q[p].kind = "partial"
    /\ \A i \in Positions(r, Transcript) :
           /\ Before(p, i) \in DOMAIN q /\ r[i] = q[Before(p, i)]
           /\ \A j \in DOMAIN q : j <= Before(p, i) /\ j # p =>
                  After(p, j) \in DOMAIN r /\ r[After(p, j)] = q[j]

\* r has all that q has, but for a snapshot at p.
CarriesAll(q, r, p) ==
    \A j \in DOMAIN q : j # p => After(p, j) \in DOMAIN r /\ r[After(p, j)] = q[j]

\* The tokens among the messages of a queue, by their number.
TokenNumbers(q) == {q[i].k : i \in Positions(q, {"token"})}

\* How many tokens have left the worker's hands.
TokensQueued == IF HoldsToken THEN tokenCount - 1 ELSE tokenCount

\* A transcript message with number n came before what the worker polls or holds.
CameBefore(n) ==
    /\ n <= seq
    /\ wpc = "enqueue" /\ wfrom \in {"drain", "final", "completed"} => n < wmsg.n
    /\ wphase = "tail" /\ wpc \in {"drain", "enqueue"}
         /\ (wpc = "enqueue" => wfrom \in {"drain", "final"}) =>
             n <= seq + Len(events) - 2

\* The messages accepted for the client follow the order of the stream's events,
\* and every token the worker has polled is among them or in its hands.
Numbered ==
    /\ wphase = "feed" => Positions(Outgoing, {"final", "completed"}) = {}
    /\ OrderKept /\ TokensCount(Outgoing)
    /\ tokenEvents /\ ~closed => TokenNumbers(Outgoing) = 1 .. TokensQueued
    /\ \A i \in Positions(Outgoing, Transcript) : CameBefore(Outgoing[i].n)

\* What tells the client how its session ended.
Terminal == {"completed", "cancelled", "error"}

\* The session is to close, or the worker gave up on a stream that lags.
Ending ==
    \/ closeAfterDrain \/ wpc = "close"
    \/ reason = "capacity" /\ ~(wpc = "enqueue" /\ wfrom = "lag")

\* Before the server stops, a session that is to close has something terminal for
\* the client, and one that closes has sent it.
EndTold ==
    server = "up" =>
        /\ closeStarted => Has(sent, Terminal)
        /\ ~closed /\ Ending => Has(Outgoing, Terminal)

-----------------------------------------------------------------------------
(* Facts about queues of messages. *)

\* A set of positions of a finite sequence has a greatest one, and Max picks it.
LEMMA MaxProperty ==
    ASSUME NEW n \in Nat, NEW S, S \subseteq 1 .. n, S # {}
    PROVE  Max(S) \in S /\ \A y \in S : Max(S) >= y
  <1> DEFINE R == {ss \in Nat \X Nat : ss[1] < ss[2]}
             T == {k \in Nat : \E x \in S : k = n - x}
  <1>1. T \subseteq Nat /\ T # {}
    <2>1. PICK s \in S : TRUE
      OBVIOUS
    <2>2. n - s \in T
      OBVIOUS
    <2> QED  BY <2>2
  <1>2. PICK k \in T : \A y \in T : ~(<<y, k>> \in R)
    <2>1. IsWellFoundedOn(R, Nat)
      BY NatLessThanWellFounded DEF OpToRel
    <2> QED  BY <1>1, <2>1, WFMin
  <1>3. PICK x \in S : k = n - x
    BY <1>2
  <1>4. \A y \in S : x >= y
    <2> SUFFICES ASSUME NEW y \in S, y > x  PROVE FALSE
      OBVIOUS
    <2>1. n - y \in T /\ n - y < k
      BY <1>3
    <2>2. <<n - y, k>> \in R
      BY <2>1, <1>2
    <2> QED  BY <1>2, <2>1, <2>2
  <1> QED  BY <1>3, <1>4 DEF Max

\* Removing a position moves what follows it one place up.
LEMMA RemoveAtProperty ==
    ASSUME NEW E, NEW q \in Seq(E), NEW p \in 1 .. Len(q)
    PROVE  /\ RemoveAt(q, p) \in Seq(E) /\ Len(RemoveAt(q, p)) = Len(q) - 1
           /\ \A i \in 1 .. Len(q) - 1 : RemoveAt(q, p)[i] = q[Before(p, i)]
  <1> DEFINE a == SubSeq(q, 1, p - 1)
             b == SubSeq(q, p + 1, Len(q))
  <1>1. /\ a \in Seq(E) /\ Len(a) = p - 1
        /\ \A i \in 1 .. p - 1 : a[i] = q[i]
    OBVIOUS
  <1>2. /\ b \in Seq(E) /\ Len(b) = Len(q) - p
        /\ \A i \in 1 .. Len(q) - p : b[i] = q[p + i]
    OBVIOUS
  <1>3. RemoveAt(q, p) = a \o b
    BY DEF RemoveAt
  <1> HIDE DEF a, b
  <1>4. /\ a \o b \in Seq(E) /\ Len(a \o b) = Len(q) - 1
        /\ \A i \in 1 .. Len(q) - 1 :
               (a \o b)[i] = IF i < p THEN a[i] ELSE b[i - (p - 1)]
    <2>1. Len(q) \in Nat /\ Len(a) + Len(b) = Len(q) - 1
      BY <1>1, <1>2, LenProperties
    <2>2. /\ a \o b \in Seq(E) /\ Len(a \o b) = Len(a) + Len(b)
          /\ \A i \in 1 .. Len(a) + Len(b) :
                 (a \o b)[i] = IF i <= Len(a) THEN a[i] ELSE b[i - Len(a)]
      BY <1>1, <1>2, ConcatProperties
    <2> QED  BY <1>1, <2>1, <2>2
  <1>5. ASSUME NEW i \in 1 .. Len(q) - 1  PROVE (a \o b)[i] = q[Before(p, i)]
    BY <1>1, <1>2, <1>4, <1>5 DEF Before
  <1> QED  BY <1>3, <1>4, <1>5

\* What Trimmed gives up is a snapshot, and it makes room.
LEMMA TrimmedProperty ==
    ASSUME MessagesTyped
    PROVE  /\ Trimmed(outbound) \in Seq(Messages)
           /\ \E p \in Nat \ {0} :
                  /\ p \in DOMAIN outbound => outbound[p].kind = "partial"
                  /\ p \notin DOMAIN outbound => Trimmed(outbound) = outbound
                  /\ p \in DOMAIN outbound =>
                         Len(Trimmed(outbound)) = Len(outbound) - 1
                  /\ \A i \in DOMAIN Trimmed(outbound) :
                         Trimmed(outbound)[i] = outbound[Before(p, i)]
  <1>0. outbound \in Seq(Messages) /\ Len(outbound) \in Nat
        /\ DOMAIN outbound = 1 .. Len(outbound)
    BY DEF MessagesTyped
  <1>1. CASE HasRoom(outbound) \/ Partials(outbound) = {}
    <2>1. Trimmed(outbound) = outbound
      BY <1>1 DEF Trimmed
    <2>2. Len(outbound) + 1 \in Nat \ {0} /\ Len(outbound) + 1 \notin DOMAIN outbound
      BY <1>0
    <2>3. \A i \in DOMAIN outbound : Before(Len(outbound) + 1, i) = i
      BY <1>0 DEF Before
    <2> QED  BY <1>0, <2>1, <2>2, <2>3
  <1>2. CASE ~(HasRoom(outbound) \/ Partials(outbound) = {})
    <2> DEFINE p == Max(Partials(outbound))
    <2>1. Partials(outbound) \subseteq 1 .. Len(outbound)
      BY <1>0 DEF Partials
    <2>2. p \in Partials(outbound)
      BY <1>0, <1>2, <2>1, MaxProperty
    <2>3. p \in 1 .. Len(outbound) /\ outbound[p].kind = "partial"
      BY <2>1, <2>2 DEF Partials
    <2>4. Trimmed(outbound) = RemoveAt(outbound, p)
      BY <1>2 DEF Trimmed
    <2> HIDE DEF p
    <2>5. /\ Trimmed(outbound) \in Seq(Messages)
          /\ Len(Trimmed(outbound)) = Len(outbound) - 1
          /\ \A i \in 1 .. Len(outbound) - 1 :
                 Trimmed(outbound)[i] = outbound[Before(p, i)]
      BY <1>0, <2>3, <2>4, RemoveAtProperty
    <2>6. DOMAIN Trimmed(outbound) = 1 .. Len(outbound) - 1
      BY <2>5
    <2> QED  BY <1>0, <2>3, <2>5, <2>6
  <1> QED  BY <1>1, <1>2

\* Messages without a number are messages, whatever the bounds are.
LEMMA PlainTyped ==
    ASSUME SessionConstants, NEW kind \in MessageKinds
    PROVE  Plain(kind) \in Messages
  BY DEF SessionConstants, Plain, Message, Messages

\* A message the I/O thread queues fits.
LEMMA IoQueues ==
    ASSUME SessionConstants, MessagesTyped, IoAccepts, NEW m \in Messages
    PROVE  /\ Append(Trimmed(outbound), m) \in Seq(Messages)
           /\ Len(Append(Trimmed(outbound), m)) + Len(writing) <= MaxOut
  <1>1. Trimmed(outbound) \in Seq(Messages) /\ Len(Trimmed(outbound)) \in Nat
    BY TrimmedProperty
  <1>2. Len(Trimmed(outbound)) + Len(writing) < MaxOut /\ Len(writing) \in Nat
    BY DEF IoAccepts, HasRoom, MessagesTyped
  <1>3. /\ Append(Trimmed(outbound), m) \in Seq(Messages)
        /\ Len(Append(Trimmed(outbound), m)) = Len(Trimmed(outbound)) + 1
    BY <1>1, AppendProperties
  <1> QED  BY <1>1, <1>2, <1>3 DEF SessionConstants

\* The end of a session leaves nothing queued.
LEMMA FinishKeeps ==
    ASSUME MessagesTyped, NEW r, FinishSession(r)
    PROVE  closed' /\ outbound' = <<>>
  BY DEF FinishSession, MessagesTyped

\* A protocol failure queues its error, or ends the session.
LEMMA FailureKeeps ==
    ASSUME MessagesTyped, NEW r, ProtocolFailure(r)
    PROVE  \/ ~closed /\ ~closed' /\ IoAccepts
              /\ outbound' = Append(Trimmed(outbound), Plain("error"))
           \/ closed' /\ outbound' = <<>>
  <1>1. CASE closed
    BY <1>1 DEF ProtocolFailure, endVars, MessagesTyped
  <1>2. CASE ~closed /\ IoAccepts
    BY <1>2 DEF ProtocolFailure
  <1>3. CASE ~closed /\ ~IoAccepts
    BY <1>3, FinishKeeps DEF ProtocolFailure
  <1> QED  BY <1>1, <1>2, <1>3

\* The next write takes the head of the queue, or there is none.
LEMMA WriteKeeps ==
    ASSUME MessagesTyped, WriteNext
    PROVE  \/ /\ writing' = <<>> /\ outbound' = <<>>
              /\ outbound = <<>> \/ closed'
           \/ /\ ~closed' /\ outbound # <<>>
              /\ writing' = <<Head(outbound)>> /\ outbound' = Tail(outbound)
  <1>1. CASE closed
    BY <1>1 DEF WriteNext, endVars, MessagesTyped
  <1>2. CASE ~closed /\ outbound = <<>>
    <2>1. CASE UNCHANGED endVars
      BY <1>2, <2>1 DEF WriteNext, endVars
    <2>2. CASE FinishSession(reason)
      BY <1>2, <2>2, FinishKeeps DEF WriteNext
    <2> QED  BY <1>2, <2>1, <2>2 DEF WriteNext, CloseTransport, endVars
  <1>3. CASE ~closed /\ outbound # <<>>
    BY <1>3 DEF WriteNext
  <1> QED  BY <1>1, <1>2, <1>3

\* Shutting down queues an error while there is room for it.
LEMMA ShutdownKeeps ==
    ASSUME MessagesTyped, InitiateShutdown
    PROVE  \/ outbound' = outbound
           \/ /\ ~Gone /\ IoAccepts
              /\ outbound' = Append(Trimmed(outbound), Plain("error"))
  BY DEF InitiateShutdown

\* The three ways a handler leaves the queue: empty, longer by one, as it was.
LEMMA MessagesEmptied ==
    ASSUME SessionConstants, MessagesTyped, outbound' = <<>>,
           writing' \in {writing, <<>>}, sent' = sent, wmsg' = wmsg
    PROVE  MessagesTyped'
  <1>1. writing' \in Seq(Messages) /\ Len(writing') <= 1
    <2>1. writing \in Seq(Messages) /\ Len(writing) <= 1
      BY DEF MessagesTyped
    <2>2. <<>> \in Seq(Messages) /\ Len(<<>>) <= 1
      OBVIOUS
    <2>3. writing' = writing \/ writing' = <<>>
      OBVIOUS
    <2> QED  BY <2>1, <2>2, <2>3
  <1>2. Len(<<>>) + Len(writing') <= MaxOut
    BY <1>1 DEF SessionConstants
  <1>3. <<>> \in Seq(Messages)
    OBVIOUS
  <1> QED  BY <1>1, <1>2, <1>3 DEF MessagesTyped

LEMMA MessagesGrown ==
    ASSUME SessionConstants, MessagesTyped, IoAccepts, ~closed',
           NEW m \in Messages, outbound' = Append(Trimmed(outbound), m),
           writing' = writing, sent' = sent, wmsg' = wmsg
    PROVE  MessagesTyped'
  BY IoQueues DEF MessagesTyped

LEMMA MessagesSame ==
    ASSUME MessagesTyped, closed' = closed,
           UNCHANGED <<outbound, writing, sent, wmsg>>
    PROVE  MessagesTyped'
  BY DEF MessagesTyped

LEMMA MessagesWritten ==
    ASSUME SessionConstants, MessagesTyped, WriteNext,
           sent' \in Seq(Messages), wmsg' = wmsg
    PROVE  MessagesTyped'
  <1>0. outbound \in Seq(Messages)
    BY DEF MessagesTyped
  <1>1. CASE writing' = <<>> /\ outbound' = <<>>
    BY <1>1 DEF MessagesTyped, SessionConstants
  <1>2. CASE /\ ~closed' /\ outbound # <<>>
             /\ writing' = <<Head(outbound)>> /\ outbound' = Tail(outbound)
    <2>1. Head(outbound) \in Messages /\ Tail(outbound) \in Seq(Messages)
          /\ Len(Tail(outbound)) = Len(outbound) - 1
      BY <1>0, <1>2, HeadTailProperties
    <2>2. writing' \in Seq(Messages) /\ Len(writing') = 1
      BY <1>2, <2>1
    <2>3. Len(outbound) <= MaxOut /\ Len(outbound) \in Nat
      BY <1>0 DEF MessagesTyped, SessionConstants
    <2> QED  BY <1>2, <2>1, <2>2, <2>3 DEF MessagesTyped, SessionConstants
  <1> QED  BY <1>1, <1>2, WriteKeeps

\* A coalesced snapshot takes the place of the last one.
LEMMA CoalescedProperty ==
    ASSUME NEW q \in Seq(Messages), NEW m \in Messages, Partials(q) # {}
    PROVE  /\ Coalesced(q, m) \in Seq(Messages) /\ Len(Coalesced(q, m)) = Len(q)
           /\ \E p \in Partials(q) :
                  /\ \A j \in Partials(q) : j <= p
                  /\ \A i \in 1 .. Len(q) : Coalesced(q, m)[i] = IF i = p THEN m ELSE q[i]
  <1>1. Partials(q) \subseteq 1 .. Len(q) /\ Len(q) \in Nat
    BY DEF Partials
  <1>2. Max(Partials(q)) \in Partials(q) /\ \A j \in Partials(q) : Max(Partials(q)) >= j
    BY <1>1, MaxProperty
  <1> QED  BY <1>1, <1>2, ExceptSeq DEF Coalesced

\* The three parts of Outgoing, and where their messages are.
LEMMA OutgoingParts ==
    ASSUME MessagesTyped
    PROVE  /\ sent \o writing \in Seq(Messages) /\ Outgoing \in Seq(Messages)
           /\ Len(sent \o writing) = Len(sent) + Len(writing)
           /\ Len(Outgoing) = Len(sent \o writing) + Len(outbound)
           /\ \A i \in 1 .. Len(sent) : (sent \o writing)[i] = sent[i]
           /\ \A i \in 1 .. Len(sent \o writing) : Outgoing[i] = (sent \o writing)[i]
           /\ \A i \in 1 .. Len(outbound) :
                  Outgoing[Len(sent \o writing) + i] = outbound[i]
  <1>1. /\ sent \in Seq(Messages) /\ writing \in Seq(Messages)
        /\ outbound \in Seq(Messages)
    BY DEF MessagesTyped
  <1>2. /\ sent \o writing \in Seq(Messages)
        /\ Len(sent \o writing) = Len(sent) + Len(writing)
        /\ \A i \in 1 .. Len(sent) : (sent \o writing)[i] = sent[i]
    BY <1>1
  <1>3. Outgoing = (sent \o writing) \o outbound
    BY DEF Outgoing
  <1> DEFINE past == sent \o writing
  <1>4. past \in Seq(Messages)
    BY <1>2
  <1> HIDE DEF past
  <1>5. /\ past \o outbound \in Seq(Messages)
        /\ Len(past \o outbound) = Len(past) + Len(outbound)
        /\ \A i \in 1 .. Len(past) : (past \o outbound)[i] = past[i]
        /\ \A i \in 1 .. Len(outbound) : (past \o outbound)[Len(past) + i] = outbound[i]
    BY <1>1, <1>4
  <1> QED  BY <1>2, <1>3, <1>5 DEF past

\* No snapshot waits in a session that is not configured.
LEMMA NothingToTrim ==
    ASSUME MessagesTyped, Unconfigured, ~configured
    PROVE  Partials(outbound) = {}
  <1> SUFFICES ASSUME NEW i \in 1 .. Len(outbound), outbound[i].kind = "partial"
               PROVE  FALSE
    BY DEF Partials, MessagesTyped
  <1>1. Len(outbound) \in Nat /\ Len(sent \o writing) \in Nat
    BY OutgoingParts, LenProperties DEF MessagesTyped
  <1>2. /\ Len(sent \o writing) + i \in DOMAIN Outgoing
        /\ Outgoing[Len(sent \o writing) + i].kind = "partial"
    BY <1>1, OutgoingParts
  <1> QED  BY <1>2 DEF Unconfigured, Positions, Transcript

-----------------------------------------------------------------------------
(* One lemma per part, one step per handler and per step of the worker. *)


\* Every flag stays a truth value.
LEMMA FlagsStep ==
    ASSUME SessionConstants, Flags, [Next]_vars
    PROVE  Flags'
  <1>1. ASSUME ReadFails  PROVE Flags'
    <2>1. /\ reading' \in BOOLEAN
          /\ closed' \in BOOLEAN
          /\ pcmCancelled' \in BOOLEAN
          /\ outboundClosed' \in BOOLEAN
          /\ asleep' \in BOOLEAN
          /\ broken' \in BOOLEAN
      BY <1>1, SessionConstants, ZenonT(30)
      DEF ReadFails, FinishSession, Requested, WakeOnClose, Running, Flags
    <2> QED
      BY <1>1, <2>1
      DEF ReadFails, FinishSession, WakeOnClose, configVars, audioVars,
          timerVars, closingVars, postVars, workVars, countVars, idleVars,
          taskVars, streamVars, Flags
  <1>2. ASSUME ReadInvalid  PROVE Flags'
    <2>1. /\ inputEnded' \in BOOLEAN
          /\ reading' \in BOOLEAN
          /\ idleTimer' \in BOOLEAN
          /\ closed' \in BOOLEAN
          /\ closeAfterDrain' \in BOOLEAN
          /\ pcmCancelled' \in BOOLEAN
          /\ outboundClosed' \in BOOLEAN
          /\ postedWrite' \in BOOLEAN
          /\ asleep' \in BOOLEAN
      BY <1>2, SessionConstants, ZenonT(30)
      DEF ReadInvalid, ProtocolFailure, Requested, FinishSession, Running,
          endVars, Flags
    <2> QED
      BY <1>2, <2>1
      DEF ReadInvalid, ProtocolFailure, FinishSession, configVars, audioVars,
          workVars, history, endVars, taskVars, streamVars, countVars,
          fateVars, Flags
  <1>3. ASSUME ReadConfigure  PROVE Flags'
    <2>1. /\ configured' \in BOOLEAN
          /\ tokenEvents' \in BOOLEAN
          /\ partialEvents' \in BOOLEAN
          /\ inputEnded' \in BOOLEAN
          /\ reading' \in BOOLEAN
          /\ configTimer' \in BOOLEAN
          /\ idleTimer' \in BOOLEAN
          /\ closed' \in BOOLEAN
          /\ closeAfterDrain' \in BOOLEAN
          /\ pcmCancelled' \in BOOLEAN
          /\ outboundClosed' \in BOOLEAN
          /\ postedWrite' \in BOOLEAN
      BY <1>3, SessionConstants, ZenonT(30)
      DEF ReadConfigure, FinishSession, CanRead, Requested, Running, Flags
    <2> QED
      BY <1>3, <2>1
      DEF ReadConfigure, FinishSession, audioVars, taskVars, streamVars,
          history, countVars, fateVars, Flags
  <1>4. ASSUME ReadPing  PROVE Flags'
    <2>1. /\ reading' \in BOOLEAN
          /\ idleTimer' \in BOOLEAN
          /\ closed' \in BOOLEAN
          /\ pcmCancelled' \in BOOLEAN
          /\ outboundClosed' \in BOOLEAN
          /\ postedWrite' \in BOOLEAN
          /\ asleep' \in BOOLEAN
      BY <1>4, SessionConstants, ZenonT(30)
      DEF ReadPing, TouchIdleTimeout, CanRead, FinishSession, WakeOnClose,
          Running, Flags
    <2> QED
      BY <1>4, <2>1
      DEF ReadPing, TouchIdleTimeout, FinishSession, WakeOnClose, configVars,
          audioVars, closingVars, workVars, fateVars, taskVars, streamVars,
          Flags
  <1>5. ASSUME ReadFinish  PROVE Flags'
    <2>1. /\ inputEnded' \in BOOLEAN
          /\ reading' \in BOOLEAN
          /\ idleTimer' \in BOOLEAN
          /\ pcmFinishing' \in BOOLEAN
      BY <1>5, SessionConstants, ZenonT(30) DEF ReadFinish, Flags
    <2> QED
      BY <1>5, <2>1
      DEF ReadFinish, endVars, configVars, audioVars, closingVars, postVars,
          workVars, history, taskVars, streamVars, countVars, fateVars, Flags
  <1>6. ASSUME ReadCancel  PROVE Flags'
    <2>1. /\ inputEnded' \in BOOLEAN
          /\ reading' \in BOOLEAN
          /\ idleTimer' \in BOOLEAN
          /\ pcmCancelled' \in BOOLEAN
          /\ asleep' \in BOOLEAN
          /\ clientCancelled' \in BOOLEAN
      BY <1>6, SessionConstants, ZenonT(30)
      DEF ReadCancel, TouchIdleTimeout, Requested, Flags
    <2> QED
      BY <1>6, <2>1
      DEF ReadCancel, TouchIdleTimeout, configVars, audioVars, closeVars,
          outVars, postVars, workVars, countVars, closingVars, taskVars,
          streamVars, Flags
  <1>7. ASSUME NEW n \in FrameSizes, ReadAudio(n)  PROVE Flags'
    <2>1. reading' \in BOOLEAN /\ idleTimer' \in BOOLEAN
      BY <1>7, SessionConstants, ZenonT(30)
      DEF ReadAudio, TouchIdleTimeout, PumpPendingAudio, Accepted, CanRead,
          Flags
    <2> QED
      BY <1>7, <2>1
      DEF ReadAudio, TouchIdleTimeout, PumpPendingAudio, configVars, closeVars,
          restVars, closingVars, postVars, workVars, history, taskVars,
          streamVars, countVars, fateVars, Flags
  <1>8. ASSUME Accept  PROVE Flags'
    <2>1. /\ accepted' \in BOOLEAN
          /\ reading' \in BOOLEAN
          /\ configTimer' \in BOOLEAN
      BY <1>8, SessionConstants, ZenonT(30) DEF Accept, CanRead, Flags
    <2> QED
      BY <1>8, <2>1
      DEF Accept, endVars, audioVars, idleVars, closingVars, restVars,
          postVars, workVars, history, taskVars, streamVars, countVars,
          fateVars, Flags
  <1>9. ASSUME AcceptFails  PROVE Flags'
    <2>1. /\ accepted' \in BOOLEAN
          /\ closed' \in BOOLEAN
          /\ pcmCancelled' \in BOOLEAN
          /\ outboundClosed' \in BOOLEAN
          /\ asleep' \in BOOLEAN
      BY <1>9, SessionConstants, ZenonT(30)
      DEF AcceptFails, FinishSession, WakeOnClose, Running, Flags
    <2> QED
      BY <1>9, <2>1
      DEF AcceptFails, FinishSession, WakeOnClose, inputVars, timerVars,
          closingVars, restVars, audioVars, idleVars, postVars, workVars,
          history, taskVars, streamVars, countVars, fateVars, Flags
  <1>10. ASSUME IdleHandler  PROVE Flags'
    <2>1. /\ inputEnded' \in BOOLEAN
          /\ idleDue' \in BOOLEAN
          /\ closed' \in BOOLEAN
          /\ closeAfterDrain' \in BOOLEAN
          /\ pcmCancelled' \in BOOLEAN
          /\ outboundClosed' \in BOOLEAN
          /\ postedWrite' \in BOOLEAN
          /\ asleep' \in BOOLEAN
      BY <1>10, SessionConstants, ZenonT(30)
      DEF IdleHandler, ProtocolFailure, Requested, FinishSession, Running,
          endVars, Flags
    <2> QED
      BY <1>10, <2>1
      DEF IdleHandler, ProtocolFailure, FinishSession, endVars, configVars,
          audioVars, workVars, history, taskVars, streamVars, countVars,
          fateVars, Flags
  <1>11. ASSUME ReadAborted  PROVE Flags'
    <2>1. reading' \in BOOLEAN
      BY <1>11, SessionConstants, ZenonT(30) DEF ReadAborted, Flags
    <2> QED
      BY <1>11, <2>1
      DEF ReadAborted, endVars, configVars, audioVars, timerVars, closingVars,
          restVars, idleVars, postVars, workVars, history, taskVars,
          streamVars, countVars, fateVars, Flags
  <1>12. ASSUME InputSpace  PROVE Flags'
    <2>1. reading' \in BOOLEAN /\ postedSpace' \in BOOLEAN
      BY <1>12, SessionConstants, ZenonT(30)
      DEF InputSpace, PumpPendingAudio, Accepted, CanRead, Flags
    <2> QED
      BY <1>12, <2>1
      DEF InputSpace, PumpPendingAudio, configVars, timerVars, closeVars,
          outVars, workVars, history, idleVars, closingVars, taskVars,
          streamVars, countVars, fateVars, Flags
  <1>13. ASSUME MaybeWrite  PROVE Flags'
    <2>1. /\ configTimer' \in BOOLEAN
          /\ idleTimer' \in BOOLEAN
          /\ closed' \in BOOLEAN
          /\ closeStarted' \in BOOLEAN
          /\ pcmCancelled' \in BOOLEAN
          /\ outboundClosed' \in BOOLEAN
          /\ postedWrite' \in BOOLEAN
          /\ asleep' \in BOOLEAN
      BY <1>13, SessionConstants, ZenonT(30)
      DEF MaybeWrite, WriteNext, WakeOnClose, CloseTransport, FinishSession,
          Running, endVars, Flags
    <2> QED
      BY <1>13, <2>1
      DEF MaybeWrite, WriteNext, WakeOnClose, CloseTransport, FinishSession,
          endVars, clientVars, workVars, history, configVars, inputVars,
          taskVars, streamVars, countVars, fateVars, audioVars, Flags
  <1>14. ASSUME WriteDone  PROVE Flags'
    <2>1. /\ configTimer' \in BOOLEAN
          /\ idleTimer' \in BOOLEAN
          /\ closed' \in BOOLEAN
          /\ closeStarted' \in BOOLEAN
          /\ pcmCancelled' \in BOOLEAN
          /\ outboundClosed' \in BOOLEAN
          /\ asleep' \in BOOLEAN
      BY <1>14, SessionConstants, ZenonT(30)
      DEF WriteDone, WriteNext, CloseTransport, FinishSession, Running,
          endVars, Flags
    <2> QED
      BY <1>14, <2>1
      DEF WriteDone, WriteNext, CloseTransport, FinishSession, clientVars,
          postVars, workVars, countVars, fateVars, endVars, configVars,
          inputVars, taskVars, streamVars, audioVars, Flags
  <1>15. ASSUME WriteFails  PROVE Flags'
    <2>1. /\ closed' \in BOOLEAN
          /\ pcmCancelled' \in BOOLEAN
          /\ outboundClosed' \in BOOLEAN
          /\ asleep' \in BOOLEAN
          /\ broken' \in BOOLEAN
      BY <1>15, SessionConstants, ZenonT(30)
      DEF WriteFails, FinishSession, Requested, Running, Flags
    <2> QED
      BY <1>15, <2>1
      DEF WriteFails, FinishSession, clientVars, timerVars, closingVars,
          postVars, workVars, countVars, configVars, inputVars, idleVars,
          taskVars, streamVars, audioVars, Flags
  <1>16. ASSUME CloseDone  PROVE Flags'
    <2>1. /\ closed' \in BOOLEAN
          /\ pcmCancelled' \in BOOLEAN
          /\ outboundClosed' \in BOOLEAN
          /\ asleep' \in BOOLEAN
      BY <1>16, SessionConstants, ZenonT(30)
      DEF CloseDone, FinishSession, WakeOnClose, Running, Flags
    <2> QED
      BY <1>16, <2>1
      DEF CloseDone, FinishSession, WakeOnClose, clientVars, timerVars,
          closingVars, restVars, configVars, inputVars, idleVars, postVars,
          workVars, history, audioVars, taskVars, streamVars, countVars,
          fateVars, Flags
  <1>17. ASSUME LastReference  PROVE Flags'
    <2>1. destroyed' \in BOOLEAN
      BY <1>17, SessionConstants, ZenonT(30) DEF LastReference, Running, Flags
    <2> QED
      BY <1>17, <2>1
      DEF LastReference, clientVars, timerVars, closeVars, pcmVars, outVars,
          postVars, workVars, countVars, configVars, inputVars, idleVars,
          closingVars, taskVars, streamVars, audioVars, Flags
  <1>18. ASSUME WorkerFinished  PROVE Flags'
    <2>1. postedDone' \in BOOLEAN
      BY <1>18, SessionConstants, ZenonT(30) DEF WorkerFinished, Gone, Flags
    <2> QED
      BY <1>18, <2>1
      DEF WorkerFinished, clientVars, timerVars, closeVars, pcmVars, outVars,
          workVars, history, configVars, inputVars, idleVars, closingVars,
          taskVars, streamVars, countVars, fateVars, audioVars, Flags
  <1>19. ASSUME ConfigTimeout  PROVE Flags'
    <2>1. /\ inputEnded' \in BOOLEAN
          /\ configTimer' \in BOOLEAN
          /\ closed' \in BOOLEAN
          /\ closeAfterDrain' \in BOOLEAN
          /\ pcmCancelled' \in BOOLEAN
          /\ outboundClosed' \in BOOLEAN
          /\ postedWrite' \in BOOLEAN
          /\ asleep' \in BOOLEAN
      BY <1>19, SessionConstants, ZenonT(30)
      DEF ConfigTimeout, ProtocolFailure, Requested, FinishSession, Running,
          endVars, Flags
    <2> QED
      BY <1>19, <2>1
      DEF ConfigTimeout, ProtocolFailure, FinishSession, configVars, audioVars,
          idleVars, workVars, history, endVars, taskVars, streamVars,
          countVars, fateVars, Flags
  <1>20. ASSUME IdleExpires  PROVE Flags'
    <2>1. idleTimer' \in BOOLEAN /\ idleDue' \in BOOLEAN
      BY <1>20, SessionConstants, ZenonT(30) DEF IdleExpires, Flags
    <2> QED
      BY <1>20, <2>1
      DEF IdleExpires, endVars, clientVars, closingVars, restVars, configVars,
          inputVars, postVars, workVars, history, audioVars, taskVars,
          streamVars, countVars, fateVars, Flags
  <1>21. ASSUME ShutdownTimeout  PROVE Flags'
    <2>1. /\ closeAfterDrain' \in BOOLEAN
          /\ pcmCancelled' \in BOOLEAN
          /\ postedWrite' \in BOOLEAN
          /\ asleep' \in BOOLEAN
      BY <1>21, SessionConstants, ZenonT(30)
      DEF ShutdownTimeout, Gone, Requested, InitiateShutdown, Flags
    <2> QED
      BY <1>21, <2>1
      DEF ShutdownTimeout, InitiateShutdown, clientVars, timerVars, workVars,
          history, configVars, inputVars, idleVars, taskVars, streamVars,
          countVars, fateVars, audioVars, Flags
  <1>22. ASSUME Shutdown  PROVE Flags'
    <2>1. /\ closeAfterDrain' \in BOOLEAN
          /\ pcmCancelled' \in BOOLEAN
          /\ postedWrite' \in BOOLEAN
          /\ asleep' \in BOOLEAN
      BY <1>22, SessionConstants, ZenonT(30)
      DEF Shutdown, Gone, Requested, InitiateShutdown, Running, Flags
    <2> QED
      BY <1>22, <2>1
      DEF Shutdown, InitiateShutdown, clientVars, timerVars, workVars, history,
          configVars, inputVars, idleVars, taskVars, streamVars, countVars,
          fateVars, audioVars, Flags
  <1>23. ASSUME CreateStream  PROVE Flags'
    BY <1>23
    DEF CreateStream, Alone, taskVars, streamVars, ioVars, postVars,
        clientVars, timerVars, fateVars, configVars, inputVars, idleVars,
        audioVars, Flags
  <1>24. ASSUME PopAudio  PROVE Flags'
    <2>1. postedSpace' \in BOOLEAN
      BY <1>24, SessionConstants, ZenonT(30) DEF PopAudio, Cancelling, Flags
    <2> QED
      BY <1>24, <2>1
      DEF PopAudio, ioVars, taskVars, clientVars, timerVars, fateVars,
          configVars, inputVars, idleVars, audioVars, Flags
  <1>25. ASSUME PopEnds  PROVE Flags'
    BY <1>25
    DEF PopEnds, Cancelling, ioVars, postVars, taskVars, streamVars,
        clientVars, timerVars, fateVars, configVars, inputVars, idleVars,
        audioVars, Flags
  <1>26. ASSUME FeedStream  PROVE Flags'
    <2>1. stalled' \in BOOLEAN
      BY <1>26, SessionConstants, ZenonT(30)
      DEF FeedStream, Cancelling, Batches, Alone, Flags
    <2> QED
      BY <1>26, <2>1
      DEF FeedStream, Alone, taskVars, ioVars, postVars, clientVars, timerVars,
          fateVars, configVars, inputVars, idleVars, audioVars, Flags
  <1>27. ASSUME FinishStream  PROVE Flags'
    BY <1>27
    DEF FinishStream, Cancelling, Batches, Alone, ioVars, postVars, clientVars,
        timerVars, fateVars, configVars, inputVars, idleVars, audioVars, Flags
  <1>28. ASSUME PollEvent  PROVE Flags'
    BY <1>28
    DEF PollEvent, Cancelling, Enqueue, Alone, ioVars, postVars, clientVars,
        timerVars, fateVars, configVars, inputVars, idleVars, audioVars, Flags
  <1>29. ASSUME DrainReturns  PROVE Flags'
    BY <1>29
    DEF DrainReturns, Cancelling, Enqueue, FinalMessage, Alone, streamVars,
        ioVars, postVars, clientVars, timerVars, fateVars, configVars,
        inputVars, idleVars, audioVars, Flags
  <1>30. ASSUME ReturnsFalse  PROVE Flags'
    BY <1>30
    DEF ReturnsFalse, Cancelling, Alone, taskVars, streamVars, ioVars,
        postVars, clientVars, timerVars, fateVars, configVars, inputVars,
        idleVars, audioVars, Flags
  <1>31. ASSUME ObserveLag  PROVE Flags'
    BY <1>31
    DEF ObserveLag, Enqueue, Requested, ioVars, postVars, streamVars,
        clientVars, timerVars, fateVars, configVars, inputVars, idleVars,
        audioVars, Flags
  <1>32. ASSUME EnqueueAccepts  PROVE Flags'
    <2>1. postedWrite' \in BOOLEAN
      BY <1>32, SessionConstants, ZenonT(30)
      DEF EnqueueAccepts, Coalesced, AfterEnqueue, CompletedMessage, Flags
    <2> QED
      BY <1>32, <2>1
      DEF EnqueueAccepts, ioVars, streamVars, clientVars, timerVars, fateVars,
          configVars, inputVars, idleVars, audioVars, Flags
  <1>33. ASSUME EnqueueFails  PROVE Flags'
    BY <1>33
    DEF EnqueueFails, AfterEnqueue, Alone, taskVars, streamVars, ioVars,
        postVars, clientVars, timerVars, fateVars, configVars, inputVars,
        idleVars, audioVars, Flags
  <1>34. ASSUME EnqueueWaits  PROVE Flags'
    <2>1. asleep' \in BOOLEAN
      BY <1>34, SessionConstants, ZenonT(30) DEF EnqueueWaits, Alone, Flags
    <2> QED
      BY <1>34, <2>1
      DEF EnqueueWaits, Alone, workVars, ioVars, postVars, taskVars,
          streamVars, clientVars, timerVars, fateVars, configVars, inputVars,
          idleVars, audioVars, Flags
  <1>35. ASSUME RequestClose  PROVE Flags'
    <2>1. closeAfterDrain' \in BOOLEAN /\ postedWrite' \in BOOLEAN
      BY <1>35, SessionConstants, ZenonT(30) DEF RequestClose, Flags
    <2> QED
      BY <1>35, <2>1
      DEF RequestClose, ioVars, taskVars, streamVars, clientVars, timerVars,
          fateVars, configVars, inputVars, idleVars, audioVars, Flags
  <1>36. ASSUME HandleCancellation  PROVE Flags'
    BY <1>36
    DEF HandleCancellation, Enqueue, Alone, streamVars, ioVars, postVars,
        clientVars, timerVars, fateVars, configVars, inputVars, idleVars,
        audioVars, Flags
  <1>37. ASSUME WorkerFailure  PROVE Flags'
    BY <1>37
    DEF WorkerFailure, Cancelling, Enqueue, Alone, streamVars, ioVars,
        postVars, clientVars, timerVars, fateVars, configVars, inputVars,
        idleVars, audioVars, Flags
  <1>38. ASSUME ReleaseLease  PROVE Flags'
    BY <1>38
    DEF ReleaseLease, ioVars, postVars, workVars, clientVars, timerVars,
        fateVars, taskVars, streamVars, configVars, inputVars, idleVars,
        audioVars, Flags
  <1>39. ASSUME WorkerExits  PROVE Flags'
    <2>1. postedDone' \in BOOLEAN
      BY <1>39, SessionConstants, ZenonT(30) DEF WorkerExits, Flags
    <2> QED
      BY <1>39, <2>1
      DEF WorkerExits, ioVars, taskVars, streamVars, clientVars, timerVars,
          fateVars, configVars, inputVars, idleVars, audioVars, Flags
  <1>40. ASSUME UNCHANGED vars  PROVE Flags'
    BY <1>40
    DEF Flags, configVars, audioVars, inputVars, idleVars, timerVars,
        closingVars, closeVars, pcmVars, outVars, postVars, streamVars,
        taskVars, workVars, countVars, fateVars, history, clientVars, ioVars,
        restVars, vars, endVars
  <1> QED
    BY <1>1, <1>2, <1>3, <1>4, <1>5, <1>6, <1>7, <1>8, <1>9, <1>10, <1>11,
        <1>12, <1>13, <1>14, <1>15, <1>16, <1>17, <1>18, <1>19, <1>20, <1>21,
        <1>22, <1>23, <1>24, <1>25, <1>26, <1>27, <1>28, <1>29, <1>30, <1>31,
        <1>32, <1>33, <1>34, <1>35, <1>36, <1>37, <1>38, <1>39, <1>40
    DEF Next, Client, Ready, Timeouts, Worker

\* The worker's place, the lease and the reason keep their ranges.
LEMMA ControlStep ==
    ASSUME Flags, Control, [Next]_vars
    PROVE  Control'
  <1> USE DEF configVars, audioVars, inputVars, idleVars, timerVars,
      closingVars, closeVars, pcmVars, outVars, postVars, streamVars, taskVars,
      workVars, countVars, fateVars, history, clientVars, restVars, vars,
      endVars, ioVars
  <1>1. ASSUME ReadFails  PROVE Control'
    BY <1>1, SessionConstants
    DEF ReadFails, FinishSession, Requested, WakeOnClose, Running, Control,
        Reasons
  <1>2. ASSUME ReadInvalid  PROVE Control'
    BY <1>2, SessionConstants
    DEF ReadInvalid, ProtocolFailure, Requested, FinishSession, Running,
        Control, Reasons
  <1>3. ASSUME ReadConfigure  PROVE Control'
    BY <1>3, SessionConstants
    DEF ReadConfigure, FinishSession, CanRead, Requested, Running, Control,
        Reasons
  <1>4. ASSUME ReadPing  PROVE Control'
    BY <1>4, SessionConstants
    DEF ReadPing, TouchIdleTimeout, CanRead, FinishSession, WakeOnClose,
        Running, Control, Reasons
  <1>5. ASSUME ReadFinish  PROVE Control'
    BY <1>5, SessionConstants DEF ReadFinish, Control, Reasons
  <1>6. ASSUME ReadCancel  PROVE Control'
    BY <1>6, SessionConstants
    DEF ReadCancel, TouchIdleTimeout, Requested, Control, Reasons
  <1>7. ASSUME NEW n \in FrameSizes, ReadAudio(n)  PROVE Control'
    BY <1>7, SessionConstants
    DEF ReadAudio, TouchIdleTimeout, PumpPendingAudio, Accepted, CanRead,
        Control, Reasons
  <1>8. ASSUME Accept  PROVE Control'
    BY <1>8, SessionConstants DEF Accept, CanRead, Control, Reasons
  <1>9. ASSUME AcceptFails  PROVE Control'
    BY <1>9, SessionConstants
    DEF AcceptFails, FinishSession, WakeOnClose, Running, Control, Reasons
  <1>10. ASSUME IdleHandler  PROVE Control'
    BY <1>10, SessionConstants
    DEF IdleHandler, ProtocolFailure, Requested, FinishSession, Running,
        Control, Reasons
  <1>11. ASSUME ReadAborted  PROVE Control'
    BY <1>11, SessionConstants DEF ReadAborted, Control, Reasons
  <1>12. ASSUME InputSpace  PROVE Control'
    BY <1>12, SessionConstants
    DEF InputSpace, PumpPendingAudio, Accepted, CanRead, Control, Reasons
  <1>13. ASSUME MaybeWrite  PROVE Control'
    BY <1>13, SessionConstants
    DEF MaybeWrite, WriteNext, WakeOnClose, CloseTransport, FinishSession,
        Running, Control, Reasons
  <1>14. ASSUME WriteDone  PROVE Control'
    BY <1>14, SessionConstants
    DEF WriteDone, WriteNext, CloseTransport, FinishSession, Running, Control,
        Reasons
  <1>15. ASSUME WriteFails  PROVE Control'
    BY <1>15, SessionConstants
    DEF WriteFails, FinishSession, Requested, Running, Control, Reasons
  <1>16. ASSUME CloseDone  PROVE Control'
    BY <1>16, SessionConstants
    DEF CloseDone, FinishSession, WakeOnClose, Running, Control, Reasons
  <1>17. ASSUME LastReference  PROVE Control'
    BY <1>17, SessionConstants DEF LastReference, Running, Control, Reasons
  <1>18. ASSUME WorkerFinished  PROVE Control'
    BY <1>18, SessionConstants DEF WorkerFinished, Gone, Control, Reasons
  <1>19. ASSUME ConfigTimeout  PROVE Control'
    BY <1>19, SessionConstants
    DEF ConfigTimeout, ProtocolFailure, Requested, FinishSession, Running,
        Control, Reasons
  <1>20. ASSUME IdleExpires  PROVE Control'
    BY <1>20, SessionConstants DEF IdleExpires, Control, Reasons
  <1>21. ASSUME ShutdownTimeout  PROVE Control'
    BY <1>21, SessionConstants
    DEF ShutdownTimeout, Gone, Requested, InitiateShutdown, Control, Reasons
  <1>22. ASSUME Shutdown  PROVE Control'
    BY <1>22, SessionConstants
    DEF Shutdown, Gone, Requested, InitiateShutdown, Running, Control, Reasons
  <1>23. ASSUME CreateStream  PROVE Control'
    BY <1>23, SessionConstants DEF CreateStream, Alone, Control, Reasons
  <1>24. ASSUME PopAudio  PROVE Control'
    BY <1>24, SessionConstants DEF PopAudio, Cancelling, Control, Reasons
  <1>25. ASSUME PopEnds  PROVE Control'
    BY <1>25, SessionConstants DEF PopEnds, Cancelling, Control, Reasons
  <1>26. ASSUME FeedStream  PROVE Control'
    BY <1>26, SessionConstants
    DEF FeedStream, Cancelling, Batches, Alone, Control, Reasons
  <1>27. ASSUME FinishStream  PROVE Control'
    BY <1>27, SessionConstants
    DEF FinishStream, Cancelling, Batches, Alone, Control, Reasons
  <1>28. ASSUME PollEvent  PROVE Control'
    BY <1>28, SessionConstants
    DEF PollEvent, Cancelling, Enqueue, Alone, Control, Reasons
  <1>29. ASSUME DrainReturns  PROVE Control'
    BY <1>29, SessionConstants
    DEF DrainReturns, Cancelling, Enqueue, FinalMessage, Alone, Control,
        Reasons
  <1>30. ASSUME ReturnsFalse  PROVE Control'
    BY <1>30, SessionConstants
    DEF ReturnsFalse, Cancelling, Alone, Control, Reasons
  <1>31. ASSUME ObserveLag  PROVE Control'
    BY <1>31, SessionConstants
    DEF ObserveLag, Enqueue, Requested, Control, Reasons
  <1>32. ASSUME EnqueueAccepts  PROVE Control'
    BY <1>32, SessionConstants
    DEF EnqueueAccepts, Coalesced, AfterEnqueue, CompletedMessage, Control,
        Reasons
  <1>33. ASSUME EnqueueFails  PROVE Control'
    BY <1>33, SessionConstants
    DEF EnqueueFails, AfterEnqueue, Alone, Control, Reasons
  <1>34. ASSUME EnqueueWaits  PROVE Control'
    BY <1>34, SessionConstants DEF EnqueueWaits, Alone, Control, Reasons
  <1>35. ASSUME RequestClose  PROVE Control'
    BY <1>35, SessionConstants DEF RequestClose, Control, Reasons
  <1>36. ASSUME HandleCancellation  PROVE Control'
    BY <1>36, SessionConstants
    DEF HandleCancellation, Enqueue, Alone, Control, Reasons
  <1>37. ASSUME WorkerFailure  PROVE Control'
    BY <1>37, SessionConstants
    DEF WorkerFailure, Cancelling, Enqueue, Alone, Control, Reasons
  <1>38. ASSUME ReleaseLease  PROVE Control'
    BY <1>38, SessionConstants DEF ReleaseLease, Control, Reasons
  <1>39. ASSUME WorkerExits  PROVE Control'
    BY <1>39, SessionConstants DEF WorkerExits, Control, Reasons
  <1>40. ASSUME UNCHANGED vars  PROVE Control'
    BY <1>40 DEF Control, Reasons
  <1> QED
    BY <1>1, <1>2, <1>3, <1>4, <1>5, <1>6, <1>7, <1>8, <1>9, <1>10, <1>11,
        <1>12, <1>13, <1>14, <1>15, <1>16, <1>17, <1>18, <1>19, <1>20, <1>21,
        <1>22, <1>23, <1>24, <1>25, <1>26, <1>27, <1>28, <1>29, <1>30, <1>31,
        <1>32, <1>33, <1>34, <1>35, <1>36, <1>37, <1>38, <1>39, <1>40
    DEF Next, Client, Ready, Timeouts, Worker

\* Lease, worker and session change together.
LEMMA LeaseStep ==
    ASSUME Flags, Control, LeaseHeld, [Next]_vars
    PROVE  LeaseHeld'
  <1> USE DEF configVars, audioVars, inputVars, idleVars, timerVars,
      closingVars, closeVars, pcmVars, outVars, postVars, streamVars, taskVars,
      workVars, countVars, fateVars, history, clientVars, restVars, vars,
      endVars, ioVars
  <1>1. ASSUME ReadFails  PROVE LeaseHeld'
    BY <1>1
    DEF ReadFails, FinishSession, Requested, WakeOnClose, LeaseHeld,
        LeaseNotLeaked, Gone, Running, Flags, Control
  <1>2. ASSUME ReadInvalid  PROVE LeaseHeld'
    BY <1>2
    DEF ReadInvalid, ProtocolFailure, Requested, FinishSession, LeaseHeld,
        LeaseNotLeaked, Gone, Running, Flags, Control
  <1>3. ASSUME ReadConfigure  PROVE LeaseHeld'
    BY <1>3
    DEF ReadConfigure, FinishSession, CanRead, Requested, LeaseHeld,
        LeaseNotLeaked, Gone, Running, Flags, Control
  <1>4. ASSUME ReadPing  PROVE LeaseHeld'
    BY <1>4
    DEF ReadPing, TouchIdleTimeout, CanRead, FinishSession, WakeOnClose,
        LeaseHeld, LeaseNotLeaked, Gone, Running, Flags, Control
  <1>5. ASSUME ReadFinish  PROVE LeaseHeld'
    BY <1>5
    DEF ReadFinish, LeaseHeld, LeaseNotLeaked, Gone, Running, Flags, Control
  <1>6. ASSUME ReadCancel  PROVE LeaseHeld'
    BY <1>6
    DEF ReadCancel, TouchIdleTimeout, Requested, LeaseHeld, LeaseNotLeaked,
        Gone, Running, Flags, Control
  <1>7. ASSUME NEW n \in FrameSizes, ReadAudio(n)  PROVE LeaseHeld'
    BY <1>7
    DEF ReadAudio, TouchIdleTimeout, PumpPendingAudio, Accepted, CanRead,
        LeaseHeld, LeaseNotLeaked, Gone, Running, Flags, Control
  <1>8. ASSUME Accept  PROVE LeaseHeld'
    BY <1>8
    DEF Accept, CanRead, LeaseHeld, LeaseNotLeaked, Gone, Running, Flags,
        Control
  <1>9. ASSUME AcceptFails  PROVE LeaseHeld'
    BY <1>9
    DEF AcceptFails, FinishSession, WakeOnClose, LeaseHeld, LeaseNotLeaked,
        Gone, Running, Flags, Control
  <1>10. ASSUME IdleHandler  PROVE LeaseHeld'
    BY <1>10
    DEF IdleHandler, ProtocolFailure, Requested, FinishSession, LeaseHeld,
        LeaseNotLeaked, Gone, Running, Flags, Control
  <1>11. ASSUME ReadAborted  PROVE LeaseHeld'
    BY <1>11
    DEF ReadAborted, LeaseHeld, LeaseNotLeaked, Gone, Running, Flags, Control
  <1>12. ASSUME InputSpace  PROVE LeaseHeld'
    BY <1>12
    DEF InputSpace, PumpPendingAudio, Accepted, CanRead, LeaseHeld,
        LeaseNotLeaked, Gone, Running, Flags, Control
  <1>13. ASSUME MaybeWrite  PROVE LeaseHeld'
    BY <1>13
    DEF MaybeWrite, WriteNext, WakeOnClose, CloseTransport, FinishSession,
        LeaseHeld, LeaseNotLeaked, Gone, Running, Flags, Control
  <1>14. ASSUME WriteDone  PROVE LeaseHeld'
    BY <1>14
    DEF WriteDone, WriteNext, CloseTransport, FinishSession, LeaseHeld,
        LeaseNotLeaked, Gone, Running, Flags, Control
  <1>15. ASSUME WriteFails  PROVE LeaseHeld'
    BY <1>15
    DEF WriteFails, FinishSession, Requested, LeaseHeld, LeaseNotLeaked, Gone,
        Running, Flags, Control
  <1>16. ASSUME CloseDone  PROVE LeaseHeld'
    BY <1>16
    DEF CloseDone, FinishSession, WakeOnClose, LeaseHeld, LeaseNotLeaked, Gone,
        Running, Flags, Control
  <1>17. ASSUME LastReference  PROVE LeaseHeld'
    BY <1>17
    DEF LastReference, LeaseHeld, LeaseNotLeaked, Gone, Running, Flags, Control
  <1>18. ASSUME WorkerFinished  PROVE LeaseHeld'
    BY <1>18
    DEF WorkerFinished, LeaseHeld, LeaseNotLeaked, Gone, Running, Flags,
        Control
  <1>19. ASSUME ConfigTimeout  PROVE LeaseHeld'
    BY <1>19
    DEF ConfigTimeout, ProtocolFailure, Requested, FinishSession, LeaseHeld,
        LeaseNotLeaked, Gone, Running, Flags, Control
  <1>20. ASSUME IdleExpires  PROVE LeaseHeld'
    BY <1>20
    DEF IdleExpires, LeaseHeld, LeaseNotLeaked, Gone, Running, Flags, Control
  <1>21. ASSUME ShutdownTimeout  PROVE LeaseHeld'
    BY <1>21
    DEF ShutdownTimeout, Requested, InitiateShutdown, LeaseHeld,
        LeaseNotLeaked, Gone, Running, Flags, Control
  <1>22. ASSUME Shutdown  PROVE LeaseHeld'
    BY <1>22
    DEF Shutdown, Requested, InitiateShutdown, LeaseHeld, LeaseNotLeaked, Gone,
        Running, Flags, Control
  <1>23. ASSUME CreateStream  PROVE LeaseHeld'
    BY <1>23
    DEF CreateStream, Alone, LeaseHeld, LeaseNotLeaked, Gone, Running, Flags,
        Control
  <1>24. ASSUME PopAudio  PROVE LeaseHeld'
    BY <1>24
    DEF PopAudio, Cancelling, LeaseHeld, LeaseNotLeaked, Gone, Running, Flags,
        Control
  <1>25. ASSUME PopEnds  PROVE LeaseHeld'
    BY <1>25
    DEF PopEnds, Cancelling, LeaseHeld, LeaseNotLeaked, Gone, Running, Flags,
        Control
  <1>26. ASSUME FeedStream  PROVE LeaseHeld'
    BY <1>26
    DEF FeedStream, Cancelling, Batches, Alone, LeaseHeld, LeaseNotLeaked,
        Gone, Running, Flags, Control
  <1>27. ASSUME FinishStream  PROVE LeaseHeld'
    BY <1>27
    DEF FinishStream, Cancelling, Batches, Alone, LeaseHeld, LeaseNotLeaked,
        Gone, Running, Flags, Control
  <1>28. ASSUME PollEvent  PROVE LeaseHeld'
    BY <1>28
    DEF PollEvent, Cancelling, Enqueue, Alone, LeaseHeld, LeaseNotLeaked, Gone,
        Running, Flags, Control
  <1>29. ASSUME DrainReturns  PROVE LeaseHeld'
    BY <1>29
    DEF DrainReturns, Cancelling, Enqueue, FinalMessage, Alone, LeaseHeld,
        LeaseNotLeaked, Gone, Running, Flags, Control
  <1>30. ASSUME ReturnsFalse  PROVE LeaseHeld'
    BY <1>30
    DEF ReturnsFalse, Cancelling, Alone, LeaseHeld, LeaseNotLeaked, Gone,
        Running, Flags, Control
  <1>31. ASSUME ObserveLag  PROVE LeaseHeld'
    BY <1>31
    DEF ObserveLag, Enqueue, Requested, LeaseHeld, LeaseNotLeaked, Gone,
        Running, Flags, Control
  <1>32. ASSUME EnqueueAccepts  PROVE LeaseHeld'
    BY <1>32
    DEF EnqueueAccepts, Coalesced, AfterEnqueue, CompletedMessage, LeaseHeld,
        LeaseNotLeaked, Gone, Running, Flags, Control
  <1>33. ASSUME EnqueueFails  PROVE LeaseHeld'
    BY <1>33
    DEF EnqueueFails, AfterEnqueue, Alone, LeaseHeld, LeaseNotLeaked, Gone,
        Running, Flags, Control
  <1>34. ASSUME EnqueueWaits  PROVE LeaseHeld'
    BY <1>34
    DEF EnqueueWaits, Alone, LeaseHeld, LeaseNotLeaked, Gone, Running, Flags,
        Control
  <1>35. ASSUME RequestClose  PROVE LeaseHeld'
    BY <1>35
    DEF RequestClose, LeaseHeld, LeaseNotLeaked, Gone, Running, Flags, Control
  <1>36. ASSUME HandleCancellation  PROVE LeaseHeld'
    BY <1>36
    DEF HandleCancellation, Enqueue, Alone, LeaseHeld, LeaseNotLeaked, Gone,
        Running, Flags, Control
  <1>37. ASSUME WorkerFailure  PROVE LeaseHeld'
    BY <1>37
    DEF WorkerFailure, Cancelling, Enqueue, Alone, LeaseHeld, LeaseNotLeaked,
        Gone, Running, Flags, Control
  <1>38. ASSUME ReleaseLease  PROVE LeaseHeld'
    BY <1>38
    DEF ReleaseLease, LeaseHeld, LeaseNotLeaked, Gone, Running, Flags, Control
  <1>39. ASSUME WorkerExits  PROVE LeaseHeld'
    BY <1>39
    DEF WorkerExits, LeaseHeld, LeaseNotLeaked, Gone, Running, Flags, Control
  <1>40. ASSUME UNCHANGED vars  PROVE LeaseHeld'
    BY <1>40 DEF LeaseHeld, LeaseNotLeaked, Gone, Running, Flags, Control
  <1> QED
    BY <1>1, <1>2, <1>3, <1>4, <1>5, <1>6, <1>7, <1>8, <1>9, <1>10, <1>11,
        <1>12, <1>13, <1>14, <1>15, <1>16, <1>17, <1>18, <1>19, <1>20, <1>21,
        <1>22, <1>23, <1>24, <1>25, <1>26, <1>27, <1>28, <1>29, <1>30, <1>31,
        <1>32, <1>33, <1>34, <1>35, <1>36, <1>37, <1>38, <1>39, <1>40
    DEF Next, Client, Ready, Timeouts, Worker

\* The audio's account is kept.
LEMMA AudioStep ==
    ASSUME SessionConstants, Flags, Control, LeaseHeld, WorkerFlow, AudioKept,
           [Next]_vars
    PROVE  AudioKept'
  <1> USE DEF configVars, audioVars, inputVars, idleVars, timerVars,
      closingVars, closeVars, pcmVars, outVars, postVars, streamVars, taskVars,
      workVars, countVars, fateVars, history, clientVars, restVars, vars,
      endVars, ioVars
  <1>1. ASSUME ReadFails  PROVE AudioKept'
    BY <1>1
    DEF ReadFails, FinishSession, Requested, WakeOnClose, AudioKept,
        FramesNotDropped, LeaseHeld, WorkerFlow, Running, Cancelling, Control,
        Flags, SessionConstants
  <1>2. ASSUME ReadInvalid  PROVE AudioKept'
    BY <1>2
    DEF ReadInvalid, ProtocolFailure, Requested, FinishSession, AudioKept,
        FramesNotDropped, LeaseHeld, WorkerFlow, Running, Cancelling, Control,
        Flags, SessionConstants
  <1>3. ASSUME ReadConfigure  PROVE AudioKept'
    BY <1>3
    DEF ReadConfigure, FinishSession, CanRead, Requested, AudioKept,
        FramesNotDropped, LeaseHeld, WorkerFlow, Running, Cancelling, Control,
        Flags, SessionConstants
  <1>4. ASSUME ReadPing  PROVE AudioKept'
    BY <1>4
    DEF ReadPing, TouchIdleTimeout, CanRead, FinishSession, WakeOnClose,
        AudioKept, FramesNotDropped, LeaseHeld, WorkerFlow, Running,
        Cancelling, Control, Flags, SessionConstants
  <1>5. ASSUME ReadFinish  PROVE AudioKept'
    BY <1>5
    DEF ReadFinish, AudioKept, FramesNotDropped, LeaseHeld, WorkerFlow,
        Running, Cancelling, Control, Flags, SessionConstants
  <1>6. ASSUME ReadCancel  PROVE AudioKept'
    BY <1>6
    DEF ReadCancel, TouchIdleTimeout, Requested, AudioKept, FramesNotDropped,
        LeaseHeld, WorkerFlow, Running, Cancelling, Control, Flags,
        SessionConstants
  <1>7. ASSUME NEW n \in FrameSizes, ReadAudio(n)  PROVE AudioKept'
    BY <1>7
    DEF ReadAudio, TouchIdleTimeout, PumpPendingAudio, Accepted, CanRead,
        AudioKept, FramesNotDropped, LeaseHeld, WorkerFlow, Running,
        Cancelling, Control, Flags, SessionConstants
  <1>8. ASSUME Accept  PROVE AudioKept'
    BY <1>8
    DEF Accept, CanRead, AudioKept, FramesNotDropped, LeaseHeld, WorkerFlow,
        Running, Cancelling, Control, Flags, SessionConstants
  <1>9. ASSUME AcceptFails  PROVE AudioKept'
    BY <1>9
    DEF AcceptFails, FinishSession, WakeOnClose, AudioKept, FramesNotDropped,
        LeaseHeld, WorkerFlow, Running, Cancelling, Control, Flags,
        SessionConstants
  <1>10. ASSUME IdleHandler  PROVE AudioKept'
    BY <1>10
    DEF IdleHandler, ProtocolFailure, Requested, FinishSession, AudioKept,
        FramesNotDropped, LeaseHeld, WorkerFlow, Running, Cancelling, Control,
        Flags, SessionConstants
  <1>11. ASSUME ReadAborted  PROVE AudioKept'
    BY <1>11
    DEF ReadAborted, AudioKept, FramesNotDropped, LeaseHeld, WorkerFlow,
        Running, Cancelling, Control, Flags, SessionConstants
  <1>12. ASSUME InputSpace  PROVE AudioKept'
    BY <1>12
    DEF InputSpace, PumpPendingAudio, Accepted, CanRead, AudioKept,
        FramesNotDropped, LeaseHeld, WorkerFlow, Running, Cancelling, Control,
        Flags, SessionConstants
  <1>13. ASSUME MaybeWrite  PROVE AudioKept'
    BY <1>13
    DEF MaybeWrite, WriteNext, WakeOnClose, CloseTransport, FinishSession,
        AudioKept, FramesNotDropped, LeaseHeld, WorkerFlow, Running,
        Cancelling, Control, Flags, SessionConstants
  <1>14. ASSUME WriteDone  PROVE AudioKept'
    BY <1>14
    DEF WriteDone, WriteNext, CloseTransport, FinishSession, AudioKept,
        FramesNotDropped, LeaseHeld, WorkerFlow, Running, Cancelling, Control,
        Flags, SessionConstants
  <1>15. ASSUME WriteFails  PROVE AudioKept'
    BY <1>15
    DEF WriteFails, FinishSession, Requested, AudioKept, FramesNotDropped,
        LeaseHeld, WorkerFlow, Running, Cancelling, Control, Flags,
        SessionConstants
  <1>16. ASSUME CloseDone  PROVE AudioKept'
    BY <1>16
    DEF CloseDone, FinishSession, WakeOnClose, AudioKept, FramesNotDropped,
        LeaseHeld, WorkerFlow, Running, Cancelling, Control, Flags,
        SessionConstants
  <1>17. ASSUME LastReference  PROVE AudioKept'
    BY <1>17
    DEF LastReference, AudioKept, FramesNotDropped, LeaseHeld, WorkerFlow,
        Running, Cancelling, Control, Flags, SessionConstants
  <1>18. ASSUME WorkerFinished  PROVE AudioKept'
    BY <1>18
    DEF WorkerFinished, Gone, AudioKept, FramesNotDropped, LeaseHeld,
        WorkerFlow, Running, Cancelling, Control, Flags, SessionConstants
  <1>19. ASSUME ConfigTimeout  PROVE AudioKept'
    BY <1>19
    DEF ConfigTimeout, ProtocolFailure, Requested, FinishSession, AudioKept,
        FramesNotDropped, LeaseHeld, WorkerFlow, Running, Cancelling, Control,
        Flags, SessionConstants
  <1>20. ASSUME IdleExpires  PROVE AudioKept'
    BY <1>20
    DEF IdleExpires, AudioKept, FramesNotDropped, LeaseHeld, WorkerFlow,
        Running, Cancelling, Control, Flags, SessionConstants
  <1>21. ASSUME ShutdownTimeout  PROVE AudioKept'
    BY <1>21
    DEF ShutdownTimeout, Gone, Requested, InitiateShutdown, AudioKept,
        FramesNotDropped, LeaseHeld, WorkerFlow, Running, Cancelling, Control,
        Flags, SessionConstants
  <1>22. ASSUME Shutdown  PROVE AudioKept'
    BY <1>22
    DEF Shutdown, Gone, Requested, InitiateShutdown, AudioKept,
        FramesNotDropped, LeaseHeld, WorkerFlow, Running, Cancelling, Control,
        Flags, SessionConstants
  <1>23. ASSUME CreateStream  PROVE AudioKept'
    BY <1>23
    DEF CreateStream, Alone, AudioKept, FramesNotDropped, LeaseHeld,
        WorkerFlow, Running, Cancelling, Control, Flags, SessionConstants
  <1>24. ASSUME PopAudio  PROVE AudioKept'
    BY <1>24
    DEF PopAudio, AudioKept, FramesNotDropped, LeaseHeld, WorkerFlow, Running,
        Cancelling, Control, Flags, SessionConstants
  <1>25. ASSUME PopEnds  PROVE AudioKept'
    BY <1>25
    DEF PopEnds, AudioKept, FramesNotDropped, LeaseHeld, WorkerFlow, Running,
        Cancelling, Control, Flags, SessionConstants
  <1>26. ASSUME FeedStream  PROVE AudioKept'
    BY <1>26
    DEF FeedStream, Batches, Alone, AudioKept, FramesNotDropped, LeaseHeld,
        WorkerFlow, Running, Cancelling, Control, Flags, SessionConstants
  <1>27. ASSUME FinishStream  PROVE AudioKept'
    BY <1>27
    DEF FinishStream, Batches, Alone, AudioKept, FramesNotDropped, LeaseHeld,
        WorkerFlow, Running, Cancelling, Control, Flags, SessionConstants
  <1>28. ASSUME PollEvent  PROVE AudioKept'
    BY <1>28
    DEF PollEvent, Enqueue, Alone, AudioKept, FramesNotDropped, LeaseHeld,
        WorkerFlow, Running, Cancelling, Control, Flags, SessionConstants
  <1>29. ASSUME DrainReturns  PROVE AudioKept'
    BY <1>29
    DEF DrainReturns, Enqueue, FinalMessage, Alone, AudioKept,
        FramesNotDropped, LeaseHeld, WorkerFlow, Running, Cancelling, Control,
        Flags, SessionConstants
  <1>30. ASSUME ReturnsFalse  PROVE AudioKept'
    BY <1>30
    DEF ReturnsFalse, Alone, AudioKept, FramesNotDropped, LeaseHeld,
        WorkerFlow, Running, Cancelling, Control, Flags, SessionConstants
  <1>31. ASSUME ObserveLag  PROVE AudioKept'
    BY <1>31
    DEF ObserveLag, Enqueue, Requested, AudioKept, FramesNotDropped, LeaseHeld,
        WorkerFlow, Running, Cancelling, Control, Flags, SessionConstants
  <1>32. ASSUME EnqueueAccepts  PROVE AudioKept'
    BY <1>32
    DEF EnqueueAccepts, Coalesced, AfterEnqueue, CompletedMessage, AudioKept,
        FramesNotDropped, LeaseHeld, WorkerFlow, Running, Cancelling, Control,
        Flags, SessionConstants
  <1>33. ASSUME EnqueueFails  PROVE AudioKept'
    BY <1>33
    DEF EnqueueFails, AfterEnqueue, Alone, AudioKept, FramesNotDropped,
        LeaseHeld, WorkerFlow, Running, Cancelling, Control, Flags,
        SessionConstants
  <1>34. ASSUME EnqueueWaits  PROVE AudioKept'
    BY <1>34
    DEF EnqueueWaits, Alone, AudioKept, FramesNotDropped, LeaseHeld,
        WorkerFlow, Running, Cancelling, Control, Flags, SessionConstants
  <1>35. ASSUME RequestClose  PROVE AudioKept'
    BY <1>35
    DEF RequestClose, AudioKept, FramesNotDropped, LeaseHeld, WorkerFlow,
        Running, Cancelling, Control, Flags, SessionConstants
  <1>36. ASSUME HandleCancellation  PROVE AudioKept'
    BY <1>36
    DEF HandleCancellation, Enqueue, Alone, AudioKept, FramesNotDropped,
        LeaseHeld, WorkerFlow, Running, Cancelling, Control, Flags,
        SessionConstants
  <1>37. ASSUME WorkerFailure  PROVE AudioKept'
    BY <1>37
    DEF WorkerFailure, Enqueue, Alone, AudioKept, FramesNotDropped, LeaseHeld,
        WorkerFlow, Running, Cancelling, Control, Flags, SessionConstants
  <1>38. ASSUME ReleaseLease  PROVE AudioKept'
    BY <1>38
    DEF ReleaseLease, AudioKept, FramesNotDropped, LeaseHeld, WorkerFlow,
        Running, Cancelling, Control, Flags, SessionConstants
  <1>39. ASSUME WorkerExits  PROVE AudioKept'
    BY <1>39
    DEF WorkerExits, AudioKept, FramesNotDropped, LeaseHeld, WorkerFlow,
        Running, Cancelling, Control, Flags, SessionConstants
  <1>40. ASSUME UNCHANGED vars  PROVE AudioKept'
    BY <1>40
    DEF AudioKept, FramesNotDropped, LeaseHeld, WorkerFlow, Running,
        Cancelling, Control, Flags, SessionConstants
  <1> QED
    BY <1>1, <1>2, <1>3, <1>4, <1>5, <1>6, <1>7, <1>8, <1>9, <1>10, <1>11,
        <1>12, <1>13, <1>14, <1>15, <1>16, <1>17, <1>18, <1>19, <1>20, <1>21,
        <1>22, <1>23, <1>24, <1>25, <1>26, <1>27, <1>28, <1>29, <1>30, <1>31,
        <1>32, <1>33, <1>34, <1>35, <1>36, <1>37, <1>38, <1>39, <1>40
    DEF Next, Client, Ready, Timeouts, Worker

\* The worker keeps to its course.
LEMMA FlowStep ==
    ASSUME Flags, Control, LeaseHeld, WorkerFlow, [Next]_vars
    PROVE  WorkerFlow'
  <1> USE DEF configVars, audioVars, inputVars, idleVars, timerVars,
      closingVars, closeVars, pcmVars, outVars, postVars, streamVars, taskVars,
      workVars, countVars, fateVars, history, clientVars, restVars, vars,
      endVars, ioVars
  <1>1. ASSUME ReadFails  PROVE WorkerFlow'
    BY <1>1
    DEF ReadFails, FinishSession, Requested, WakeOnClose, WorkerFlow,
        LeaseHeld, Cancelling, Running, Control
  <1>2. ASSUME ReadInvalid  PROVE WorkerFlow'
    BY <1>2
    DEF ReadInvalid, ProtocolFailure, Requested, FinishSession, WorkerFlow,
        LeaseHeld, Cancelling, Running, Control
  <1>3. ASSUME ReadConfigure  PROVE WorkerFlow'
    BY <1>3
    DEF ReadConfigure, FinishSession, CanRead, Requested, WorkerFlow,
        LeaseHeld, Cancelling, Running, Control
  <1>4. ASSUME ReadPing  PROVE WorkerFlow'
    BY <1>4
    DEF ReadPing, TouchIdleTimeout, CanRead, FinishSession, WakeOnClose,
        WorkerFlow, LeaseHeld, Cancelling, Running, Control
  <1>5. ASSUME ReadFinish  PROVE WorkerFlow'
    BY <1>5 DEF ReadFinish, WorkerFlow, LeaseHeld, Cancelling, Running, Control
  <1>6. ASSUME ReadCancel  PROVE WorkerFlow'
    BY <1>6
    DEF ReadCancel, TouchIdleTimeout, Requested, WorkerFlow, LeaseHeld,
        Cancelling, Running, Control
  <1>7. ASSUME NEW n \in FrameSizes, ReadAudio(n)  PROVE WorkerFlow'
    BY <1>7
    DEF ReadAudio, TouchIdleTimeout, PumpPendingAudio, Accepted, CanRead,
        WorkerFlow, LeaseHeld, Cancelling, Running, Control
  <1>8. ASSUME Accept  PROVE WorkerFlow'
    BY <1>8
    DEF Accept, CanRead, WorkerFlow, LeaseHeld, Cancelling, Running, Control
  <1>9. ASSUME AcceptFails  PROVE WorkerFlow'
    BY <1>9
    DEF AcceptFails, FinishSession, WakeOnClose, WorkerFlow, LeaseHeld,
        Cancelling, Running, Control
  <1>10. ASSUME IdleHandler  PROVE WorkerFlow'
    BY <1>10
    DEF IdleHandler, ProtocolFailure, Requested, FinishSession, WorkerFlow,
        LeaseHeld, Cancelling, Running, Control
  <1>11. ASSUME ReadAborted  PROVE WorkerFlow'
    BY <1>11
    DEF ReadAborted, WorkerFlow, LeaseHeld, Cancelling, Running, Control
  <1>12. ASSUME InputSpace  PROVE WorkerFlow'
    BY <1>12
    DEF InputSpace, PumpPendingAudio, Accepted, CanRead, WorkerFlow, LeaseHeld,
        Cancelling, Running, Control
  <1>13. ASSUME MaybeWrite  PROVE WorkerFlow'
    BY <1>13
    DEF MaybeWrite, WriteNext, WakeOnClose, CloseTransport, FinishSession,
        WorkerFlow, LeaseHeld, Cancelling, Running, Control
  <1>14. ASSUME WriteDone  PROVE WorkerFlow'
    BY <1>14
    DEF WriteDone, WriteNext, CloseTransport, FinishSession, WorkerFlow,
        LeaseHeld, Cancelling, Running, Control
  <1>15. ASSUME WriteFails  PROVE WorkerFlow'
    BY <1>15
    DEF WriteFails, FinishSession, Requested, WorkerFlow, LeaseHeld,
        Cancelling, Running, Control
  <1>16. ASSUME CloseDone  PROVE WorkerFlow'
    BY <1>16
    DEF CloseDone, FinishSession, WakeOnClose, WorkerFlow, LeaseHeld,
        Cancelling, Running, Control
  <1>17. ASSUME LastReference  PROVE WorkerFlow'
    BY <1>17
    DEF LastReference, WorkerFlow, LeaseHeld, Cancelling, Running, Control
  <1>18. ASSUME WorkerFinished  PROVE WorkerFlow'
    BY <1>18
    DEF WorkerFinished, Gone, WorkerFlow, LeaseHeld, Cancelling, Running,
        Control
  <1>19. ASSUME ConfigTimeout  PROVE WorkerFlow'
    BY <1>19
    DEF ConfigTimeout, ProtocolFailure, Requested, FinishSession, WorkerFlow,
        LeaseHeld, Cancelling, Running, Control
  <1>20. ASSUME IdleExpires  PROVE WorkerFlow'
    BY <1>20
    DEF IdleExpires, WorkerFlow, LeaseHeld, Cancelling, Running, Control
  <1>21. ASSUME ShutdownTimeout  PROVE WorkerFlow'
    BY <1>21
    DEF ShutdownTimeout, Gone, Requested, InitiateShutdown, WorkerFlow,
        LeaseHeld, Cancelling, Running, Control
  <1>22. ASSUME Shutdown  PROVE WorkerFlow'
    BY <1>22
    DEF Shutdown, Gone, Requested, InitiateShutdown, WorkerFlow, LeaseHeld,
        Cancelling, Running, Control
  <1>23. ASSUME CreateStream  PROVE WorkerFlow'
    BY <1>23
    DEF CreateStream, Alone, WorkerFlow, LeaseHeld, Cancelling, Running,
        Control
  <1>24. ASSUME PopAudio  PROVE WorkerFlow'
    BY <1>24 DEF PopAudio, WorkerFlow, LeaseHeld, Cancelling, Running, Control
  <1>25. ASSUME PopEnds  PROVE WorkerFlow'
    BY <1>25 DEF PopEnds, WorkerFlow, LeaseHeld, Cancelling, Running, Control
  <1>26. ASSUME FeedStream  PROVE WorkerFlow'
    BY <1>26
    DEF FeedStream, Batches, Alone, WorkerFlow, LeaseHeld, Cancelling, Running,
        Control
  <1>27. ASSUME FinishStream  PROVE WorkerFlow'
    BY <1>27
    DEF FinishStream, Batches, Alone, WorkerFlow, LeaseHeld, Cancelling,
        Running, Control
  <1>28. ASSUME PollEvent  PROVE WorkerFlow'
    BY <1>28
    DEF PollEvent, Enqueue, Alone, WorkerFlow, LeaseHeld, Cancelling, Running,
        Control
  <1>29. ASSUME DrainReturns  PROVE WorkerFlow'
    BY <1>29
    DEF DrainReturns, Enqueue, FinalMessage, Alone, WorkerFlow, LeaseHeld,
        Cancelling, Running, Control
  <1>30. ASSUME ReturnsFalse  PROVE WorkerFlow'
    BY <1>30
    DEF ReturnsFalse, Alone, WorkerFlow, LeaseHeld, Cancelling, Running,
        Control
  <1>31. ASSUME ObserveLag  PROVE WorkerFlow'
    BY <1>31
    DEF ObserveLag, Enqueue, Requested, WorkerFlow, LeaseHeld, Cancelling,
        Running, Control
  <1>32. ASSUME EnqueueAccepts  PROVE WorkerFlow'
    BY <1>32
    DEF EnqueueAccepts, Coalesced, AfterEnqueue, CompletedMessage, WorkerFlow,
        LeaseHeld, Cancelling, Running, Control
  <1>33. ASSUME EnqueueFails  PROVE WorkerFlow'
    BY <1>33
    DEF EnqueueFails, AfterEnqueue, Alone, WorkerFlow, LeaseHeld, Cancelling,
        Running, Control
  <1>34. ASSUME EnqueueWaits  PROVE WorkerFlow'
    BY <1>34
    DEF EnqueueWaits, Alone, WorkerFlow, LeaseHeld, Cancelling, Running,
        Control
  <1>35. ASSUME RequestClose  PROVE WorkerFlow'
    BY <1>35
    DEF RequestClose, WorkerFlow, LeaseHeld, Cancelling, Running, Control
  <1>36. ASSUME HandleCancellation  PROVE WorkerFlow'
    BY <1>36
    DEF HandleCancellation, Enqueue, Alone, WorkerFlow, LeaseHeld, Cancelling,
        Running, Control
  <1>37. ASSUME WorkerFailure  PROVE WorkerFlow'
    BY <1>37
    DEF WorkerFailure, Enqueue, Alone, WorkerFlow, LeaseHeld, Cancelling,
        Running, Control
  <1>38. ASSUME ReleaseLease  PROVE WorkerFlow'
    BY <1>38
    DEF ReleaseLease, WorkerFlow, LeaseHeld, Cancelling, Running, Control
  <1>39. ASSUME WorkerExits  PROVE WorkerFlow'
    BY <1>39
    DEF WorkerExits, WorkerFlow, LeaseHeld, Cancelling, Running, Control
  <1>40. ASSUME UNCHANGED vars  PROVE WorkerFlow'
    BY <1>40 DEF WorkerFlow, LeaseHeld, Cancelling, Running, Control
  <1> QED
    BY <1>1, <1>2, <1>3, <1>4, <1>5, <1>6, <1>7, <1>8, <1>9, <1>10, <1>11,
        <1>12, <1>13, <1>14, <1>15, <1>16, <1>17, <1>18, <1>19, <1>20, <1>21,
        <1>22, <1>23, <1>24, <1>25, <1>26, <1>27, <1>28, <1>29, <1>30, <1>31,
        <1>32, <1>33, <1>34, <1>35, <1>36, <1>37, <1>38, <1>39, <1>40
    DEF Next, Client, Ready, Timeouts, Worker

\* What a call of the stream adds is snapshots and tokens within the bound.
LEMMA BatchesProperty ==
    ASSUME SessionConstants, seq \in Nat, events = <<>>, NEW b \in Batches
    PROVE  /\ events \o b = b /\ b \in Seq({"token", "partial"})
           /\ seq + Len(b) <= MaxSeq
           /\ \A i \in 1 .. Len(b) : b[i] \in {"token", "partial"}
  <1>1. b \in {<<>>, <<"token">>, <<"token", "partial">>} /\ seq + 0 + Len(b) <= MaxSeq
    BY DEF Batches
  <1>2. b \in Seq({"token", "partial"})
    <2>1. <<>> \in Seq({"token", "partial"})
      OBVIOUS
    <2>2. <<"token">> \in Seq({"token", "partial"})
      OBVIOUS
    <2>3. <<"token", "partial">> \in Seq({"token", "partial"})
      OBVIOUS
    <2> QED  BY <1>1, <2>1, <2>2, <2>3
  <1> QED  BY <1>1, <1>2


\* The stream's events keep their shape and their bound.
LEMMA EventsStep ==
    ASSUME SessionConstants, Control, LeaseHeld, WorkerFlow, EventsQueued,
           [Next]_vars
    PROVE  EventsQueued'
  <1> USE DEF configVars, audioVars, inputVars, idleVars, timerVars,
      closingVars, closeVars, pcmVars, outVars, postVars, streamVars, taskVars,
      workVars, countVars, fateVars, history, clientVars, restVars, vars,
      endVars, ioVars
  <1>1. ASSUME ReadFails  PROVE EventsQueued'
    BY <1>1
    DEF ReadFails, FinishSession, Requested, WakeOnClose, EventsQueued,
        WorkerFlow, LeaseHeld, Cancelling, Running, Control, SessionConstants
  <1>2. ASSUME ReadInvalid  PROVE EventsQueued'
    BY <1>2
    DEF ReadInvalid, ProtocolFailure, Requested, FinishSession, EventsQueued,
        WorkerFlow, LeaseHeld, Cancelling, Running, Control, SessionConstants
  <1>3. ASSUME ReadConfigure  PROVE EventsQueued'
    BY <1>3
    DEF ReadConfigure, FinishSession, CanRead, Requested, EventsQueued,
        WorkerFlow, LeaseHeld, Cancelling, Running, Control, SessionConstants
  <1>4. ASSUME ReadPing  PROVE EventsQueued'
    BY <1>4
    DEF ReadPing, TouchIdleTimeout, CanRead, FinishSession, WakeOnClose,
        EventsQueued, WorkerFlow, LeaseHeld, Cancelling, Running, Control,
        SessionConstants
  <1>5. ASSUME ReadFinish  PROVE EventsQueued'
    BY <1>5
    DEF ReadFinish, EventsQueued, WorkerFlow, LeaseHeld, Cancelling, Running,
        Control, SessionConstants
  <1>6. ASSUME ReadCancel  PROVE EventsQueued'
    BY <1>6
    DEF ReadCancel, TouchIdleTimeout, Requested, EventsQueued, WorkerFlow,
        LeaseHeld, Cancelling, Running, Control, SessionConstants
  <1>7. ASSUME NEW n \in FrameSizes, ReadAudio(n)  PROVE EventsQueued'
    BY <1>7
    DEF ReadAudio, TouchIdleTimeout, PumpPendingAudio, Accepted, CanRead,
        EventsQueued, WorkerFlow, LeaseHeld, Cancelling, Running, Control,
        SessionConstants
  <1>8. ASSUME Accept  PROVE EventsQueued'
    BY <1>8
    DEF Accept, CanRead, EventsQueued, WorkerFlow, LeaseHeld, Cancelling,
        Running, Control, SessionConstants
  <1>9. ASSUME AcceptFails  PROVE EventsQueued'
    BY <1>9
    DEF AcceptFails, FinishSession, WakeOnClose, EventsQueued, WorkerFlow,
        LeaseHeld, Cancelling, Running, Control, SessionConstants
  <1>10. ASSUME IdleHandler  PROVE EventsQueued'
    BY <1>10
    DEF IdleHandler, ProtocolFailure, Requested, FinishSession, EventsQueued,
        WorkerFlow, LeaseHeld, Cancelling, Running, Control, SessionConstants
  <1>11. ASSUME ReadAborted  PROVE EventsQueued'
    BY <1>11
    DEF ReadAborted, EventsQueued, WorkerFlow, LeaseHeld, Cancelling, Running,
        Control, SessionConstants
  <1>12. ASSUME InputSpace  PROVE EventsQueued'
    BY <1>12
    DEF InputSpace, PumpPendingAudio, Accepted, CanRead, EventsQueued,
        WorkerFlow, LeaseHeld, Cancelling, Running, Control, SessionConstants
  <1>13. ASSUME MaybeWrite  PROVE EventsQueued'
    BY <1>13
    DEF MaybeWrite, WriteNext, WakeOnClose, CloseTransport, FinishSession,
        EventsQueued, WorkerFlow, LeaseHeld, Cancelling, Running, Control,
        SessionConstants
  <1>14. ASSUME WriteDone  PROVE EventsQueued'
    BY <1>14
    DEF WriteDone, WriteNext, CloseTransport, FinishSession, EventsQueued,
        WorkerFlow, LeaseHeld, Cancelling, Running, Control, SessionConstants
  <1>15. ASSUME WriteFails  PROVE EventsQueued'
    BY <1>15
    DEF WriteFails, FinishSession, Requested, EventsQueued, WorkerFlow,
        LeaseHeld, Cancelling, Running, Control, SessionConstants
  <1>16. ASSUME CloseDone  PROVE EventsQueued'
    BY <1>16
    DEF CloseDone, FinishSession, WakeOnClose, EventsQueued, WorkerFlow,
        LeaseHeld, Cancelling, Running, Control, SessionConstants
  <1>17. ASSUME LastReference  PROVE EventsQueued'
    BY <1>17
    DEF LastReference, EventsQueued, WorkerFlow, LeaseHeld, Cancelling,
        Running, Control, SessionConstants
  <1>18. ASSUME WorkerFinished  PROVE EventsQueued'
    BY <1>18
    DEF WorkerFinished, Gone, EventsQueued, WorkerFlow, LeaseHeld, Cancelling,
        Running, Control, SessionConstants
  <1>19. ASSUME ConfigTimeout  PROVE EventsQueued'
    BY <1>19
    DEF ConfigTimeout, ProtocolFailure, Requested, FinishSession, EventsQueued,
        WorkerFlow, LeaseHeld, Cancelling, Running, Control, SessionConstants
  <1>20. ASSUME IdleExpires  PROVE EventsQueued'
    BY <1>20
    DEF IdleExpires, EventsQueued, WorkerFlow, LeaseHeld, Cancelling, Running,
        Control, SessionConstants
  <1>21. ASSUME ShutdownTimeout  PROVE EventsQueued'
    BY <1>21
    DEF ShutdownTimeout, Gone, Requested, InitiateShutdown, EventsQueued,
        WorkerFlow, LeaseHeld, Cancelling, Running, Control, SessionConstants
  <1>22. ASSUME Shutdown  PROVE EventsQueued'
    BY <1>22
    DEF Shutdown, Gone, Requested, InitiateShutdown, EventsQueued, WorkerFlow,
        LeaseHeld, Cancelling, Running, Control, SessionConstants
  <1>23. ASSUME CreateStream  PROVE EventsQueued'
    BY <1>23
    DEF CreateStream, Alone, EventsQueued, WorkerFlow, LeaseHeld, Cancelling,
        Running, Control, SessionConstants
  <1>24. ASSUME PopAudio  PROVE EventsQueued'
    BY <1>24
    DEF PopAudio, EventsQueued, WorkerFlow, LeaseHeld, Cancelling, Running,
        Control, SessionConstants
  <1>25. ASSUME PopEnds  PROVE EventsQueued'
    BY <1>25
    DEF PopEnds, EventsQueued, WorkerFlow, LeaseHeld, Cancelling, Running,
        Control, SessionConstants
  <1>26. ASSUME FeedStream  PROVE EventsQueued'
    <2>0. events = <<>> /\ wphase = "feed" /\ wphase' = "feed" /\ seq' = seq
      BY <1>26 DEF FeedStream, Alone, EventsQueued, WorkerFlow, Control
    <2>1. ASSUME Cancelling  PROVE EventsQueued'
      BY <1>26, <2>0, <2>1
      DEF FeedStream, Alone, EventsQueued, LeaseHeld, Running
    <2>2. ASSUME NEW b \in Batches, ~Cancelling, events' = events \o b
          PROVE  EventsQueued'
      <3>1. /\ events' \in Seq({"token", "partial"})
            /\ seq + Len(events') <= MaxSeq
        BY <2>0, <2>2, BatchesProperty DEF EventsQueued
      <3>2. \A i \in 1 .. Len(events') : events'[i] \in {"token", "partial"}
        BY <3>1
      <3> QED
        BY <1>26, <2>0, <2>2, <3>1, <3>2
        DEF FeedStream, Alone, EventsQueued, LeaseHeld, WorkerFlow, Running,
            SessionConstants
    <2>3. ASSUME ~Cancelling, events' = Append(events, "error")
          PROVE  EventsQueued'
      <3>1. events' = <<"error">>
        BY <2>0, <2>3
      <3> QED
        BY <1>26, <2>0, <2>3, <3>1
        DEF FeedStream, Alone, EventsQueued, LeaseHeld, WorkerFlow, Running,
            SessionConstants
    <2> QED  BY <1>26, <2>1, <2>2, <2>3 DEF FeedStream
  <1>27. ASSUME FinishStream  PROVE EventsQueued'
    <2>0. /\ events = <<>> /\ wphase = "feed" /\ ~stalled
          /\ seq' = seq /\ configured' = configured
      BY <1>27 DEF FinishStream, Alone, EventsQueued, WorkerFlow, Control
    <2>1. ASSUME UNCHANGED <<wphase, events>>  PROVE EventsQueued'
      BY <1>27, <2>0, <2>1 DEF FinishStream, Alone, EventsQueued
    <2>2. ASSUME NEW b \in Batches, wphase' = "tail", wpc' = "drain",
                 events' = events \o b \o <<"final", "completed">>
          PROVE  EventsQueued'
      <3>1. /\ events \o b = b /\ b \in Seq({"token", "partial"})
            /\ seq + Len(b) <= MaxSeq /\ Len(b) \in Nat
            /\ \A i \in 1 .. Len(b) : b[i] \in {"token", "partial"}
        BY <2>0, BatchesProperty DEF EventsQueued
      <3>2. /\ events' = b \o <<"final", "completed">>
            /\ Len(events') = Len(b) + 2
            /\ \A i \in 1 .. Len(b) : events'[i] = b[i]
            /\ events'[Len(b) + 1] = "final" /\ events'[Len(b) + 2] = "completed"
        BY <2>2, <3>1
      <3>3. events' \in Seq({"token", "partial", "error", "final", "completed"})
        BY <3>1, <3>2
      <3>4. /\ configured' /\ wphase' = "tail" /\ wpc' = "drain"
            /\ seq' = seq /\ tokenCount' = tokenCount
        BY <1>27, <2>0, <2>2
        DEF FinishStream, Alone, LeaseHeld, Running, WorkerFlow
      <3>5. /\ seq \in Nat /\ tokenCount \in 0 .. MaxSeq /\ tokenCount <= seq
            /\ MaxSeq \in Nat
        BY DEF EventsQueued, SessionConstants
      <3>6. ASSUME NEW i \in 1 .. Len(events')
            PROVE  IF i > Len(events') - 2
                   THEN events'[i] \in {"final", "completed"}
                   ELSE events'[i] \in {"token", "partial"} /\ seq + i <= MaxSeq
        <4>1. CASE i <= Len(b)
          BY <3>1, <3>2, <3>5, <3>6, <4>1
        <4>2. CASE i = Len(b) + 1 \/ i = Len(b) + 2
          BY <3>1, <3>2, <3>6, <4>2
        <4> QED  BY <3>1, <3>2, <3>6, <4>1, <4>2
      <3>7. 2 <= seq + Len(events') /\ seq + Len(events') <= MaxSeq + 2
        BY <3>1, <3>2, <3>5
      <3> QED  BY <3>3, <3>4, <3>5, <3>6, <3>7 DEF EventsQueued
    <2> QED  BY <1>27, <2>0, <2>1, <2>2 DEF FinishStream
  <1>28. ASSUME PollEvent  PROVE EventsQueued'
    BY <1>28
    DEF PollEvent, Enqueue, Alone, EventsQueued, WorkerFlow, LeaseHeld,
        Cancelling, Running, Control, SessionConstants
  <1>29. ASSUME DrainReturns  PROVE EventsQueued'
    BY <1>29
    DEF DrainReturns, Enqueue, FinalMessage, Alone, EventsQueued, WorkerFlow,
        LeaseHeld, Cancelling, Running, Control, SessionConstants
  <1>30. ASSUME ReturnsFalse  PROVE EventsQueued'
    BY <1>30
    DEF ReturnsFalse, Alone, EventsQueued, WorkerFlow, LeaseHeld, Cancelling,
        Running, Control, SessionConstants
  <1>31. ASSUME ObserveLag  PROVE EventsQueued'
    BY <1>31
    DEF ObserveLag, Enqueue, Requested, EventsQueued, WorkerFlow, LeaseHeld,
        Cancelling, Running, Control, SessionConstants
  <1>32. ASSUME EnqueueAccepts  PROVE EventsQueued'
    BY <1>32
    DEF EnqueueAccepts, Coalesced, AfterEnqueue, CompletedMessage,
        EventsQueued, WorkerFlow, LeaseHeld, Cancelling, Running, Control,
        SessionConstants
  <1>33. ASSUME EnqueueFails  PROVE EventsQueued'
    BY <1>33
    DEF EnqueueFails, AfterEnqueue, Alone, EventsQueued, WorkerFlow, LeaseHeld,
        Cancelling, Running, Control, SessionConstants
  <1>34. ASSUME EnqueueWaits  PROVE EventsQueued'
    BY <1>34
    DEF EnqueueWaits, Alone, EventsQueued, WorkerFlow, LeaseHeld, Cancelling,
        Running, Control, SessionConstants
  <1>35. ASSUME RequestClose  PROVE EventsQueued'
    BY <1>35
    DEF RequestClose, EventsQueued, WorkerFlow, LeaseHeld, Cancelling, Running,
        Control, SessionConstants
  <1>36. ASSUME HandleCancellation  PROVE EventsQueued'
    BY <1>36
    DEF HandleCancellation, Enqueue, Alone, EventsQueued, WorkerFlow,
        LeaseHeld, Cancelling, Running, Control, SessionConstants
  <1>37. ASSUME WorkerFailure  PROVE EventsQueued'
    BY <1>37
    DEF WorkerFailure, Enqueue, Alone, EventsQueued, WorkerFlow, LeaseHeld,
        Cancelling, Running, Control, SessionConstants
  <1>38. ASSUME ReleaseLease  PROVE EventsQueued'
    BY <1>38
    DEF ReleaseLease, EventsQueued, WorkerFlow, LeaseHeld, Cancelling, Running,
        Control, SessionConstants
  <1>39. ASSUME WorkerExits  PROVE EventsQueued'
    BY <1>39
    DEF WorkerExits, EventsQueued, WorkerFlow, LeaseHeld, Cancelling, Running,
        Control, SessionConstants
  <1>40. ASSUME UNCHANGED vars  PROVE EventsQueued'
    BY <1>40
    DEF EventsQueued, WorkerFlow, LeaseHeld, Cancelling, Running, Control,
        SessionConstants
  <1> QED
    BY <1>1, <1>2, <1>3, <1>4, <1>5, <1>6, <1>7, <1>8, <1>9, <1>10, <1>11,
        <1>12, <1>13, <1>14, <1>15, <1>16, <1>17, <1>18, <1>19, <1>20, <1>21,
        <1>22, <1>23, <1>24, <1>25, <1>26, <1>27, <1>28, <1>29, <1>30, <1>31,
        <1>32, <1>33, <1>34, <1>35, <1>36, <1>37, <1>38, <1>39, <1>40
    DEF Next, Client, Ready, Timeouts, Worker

\* The message in the worker's hands is the one its event stands for.
LEMMA HeldStep ==
    ASSUME SessionConstants, Control, LeaseHeld, WorkerFlow, EventsQueued,
           HeldMessage, [Next]_vars
    PROVE  HeldMessage'
  <1> USE DEF configVars, audioVars, inputVars, idleVars, timerVars,
      closingVars, closeVars, pcmVars, outVars, postVars, streamVars, taskVars,
      workVars, countVars, fateVars, history, clientVars, restVars, vars,
      endVars, ioVars
  <1>1. ASSUME ReadFails  PROVE HeldMessage'
    BY <1>1
    DEF ReadFails, Requested, WakeOnClose, FinalMessage, CompletedMessage,
        HeldMessage, EventsQueued, WorkerFlow, LeaseHeld, Control,
        SessionConstants
  <1>2. ASSUME ReadInvalid  PROVE HeldMessage'
    BY <1>2
    DEF ReadInvalid, FinalMessage, CompletedMessage, HeldMessage, EventsQueued,
        WorkerFlow, LeaseHeld, Control, SessionConstants
  <1>3. ASSUME ReadConfigure  PROVE HeldMessage'
    BY <1>3
    DEF ReadConfigure, Plain, CanRead, Requested, Message, FinalMessage,
        CompletedMessage, HeldMessage, EventsQueued, WorkerFlow, LeaseHeld,
        Control, SessionConstants
  <1>4. ASSUME ReadPing  PROVE HeldMessage'
    BY <1>4
    DEF ReadPing, TouchIdleTimeout, Plain, CanRead, WakeOnClose, Message,
        FinalMessage, CompletedMessage, HeldMessage, EventsQueued, WorkerFlow,
        LeaseHeld, Control, SessionConstants
  <1>5. ASSUME ReadFinish  PROVE HeldMessage'
    BY <1>5
    DEF ReadFinish, FinalMessage, CompletedMessage, HeldMessage, EventsQueued,
        WorkerFlow, LeaseHeld, Control, SessionConstants
  <1>6. ASSUME ReadCancel  PROVE HeldMessage'
    BY <1>6
    DEF ReadCancel, TouchIdleTimeout, Requested, FinalMessage,
        CompletedMessage, HeldMessage, EventsQueued, WorkerFlow, LeaseHeld,
        Control, SessionConstants
  <1>7. ASSUME NEW n \in FrameSizes, ReadAudio(n)  PROVE HeldMessage'
    BY <1>7
    DEF ReadAudio, TouchIdleTimeout, FinalMessage, CompletedMessage,
        HeldMessage, EventsQueued, WorkerFlow, LeaseHeld, Control,
        SessionConstants
  <1>8. ASSUME Accept  PROVE HeldMessage'
    BY <1>8
    DEF Accept, CanRead, FinalMessage, CompletedMessage, HeldMessage,
        EventsQueued, WorkerFlow, LeaseHeld, Control, SessionConstants
  <1>9. ASSUME AcceptFails  PROVE HeldMessage'
    BY <1>9
    DEF AcceptFails, WakeOnClose, FinalMessage, CompletedMessage, HeldMessage,
        EventsQueued, WorkerFlow, LeaseHeld, Control, SessionConstants
  <1>10. ASSUME IdleHandler  PROVE HeldMessage'
    BY <1>10
    DEF IdleHandler, FinalMessage, CompletedMessage, HeldMessage, EventsQueued,
        WorkerFlow, LeaseHeld, Control, SessionConstants
  <1>11. ASSUME ReadAborted  PROVE HeldMessage'
    BY <1>11
    DEF ReadAborted, FinalMessage, CompletedMessage, HeldMessage, EventsQueued,
        WorkerFlow, LeaseHeld, Control, SessionConstants
  <1>12. ASSUME InputSpace  PROVE HeldMessage'
    BY <1>12
    DEF InputSpace, FinalMessage, CompletedMessage, HeldMessage, EventsQueued,
        WorkerFlow, LeaseHeld, Control, SessionConstants
  <1>13. ASSUME MaybeWrite  PROVE HeldMessage'
    BY <1>13
    DEF MaybeWrite, WakeOnClose, FinalMessage, CompletedMessage, HeldMessage,
        EventsQueued, WorkerFlow, LeaseHeld, Control, SessionConstants
  <1>14. ASSUME WriteDone  PROVE HeldMessage'
    BY <1>14
    DEF WriteDone, FinalMessage, CompletedMessage, HeldMessage, EventsQueued,
        WorkerFlow, LeaseHeld, Control, SessionConstants
  <1>15. ASSUME WriteFails  PROVE HeldMessage'
    BY <1>15
    DEF WriteFails, Requested, FinalMessage, CompletedMessage, HeldMessage,
        EventsQueued, WorkerFlow, LeaseHeld, Control, SessionConstants
  <1>16. ASSUME CloseDone  PROVE HeldMessage'
    BY <1>16
    DEF CloseDone, WakeOnClose, FinalMessage, CompletedMessage, HeldMessage,
        EventsQueued, WorkerFlow, LeaseHeld, Control, SessionConstants
  <1>17. ASSUME LastReference  PROVE HeldMessage'
    BY <1>17
    DEF LastReference, Running, FinalMessage, CompletedMessage, HeldMessage,
        EventsQueued, WorkerFlow, LeaseHeld, Control, SessionConstants
  <1>18. ASSUME WorkerFinished  PROVE HeldMessage'
    BY <1>18
    DEF WorkerFinished, Gone, FinalMessage, CompletedMessage, HeldMessage,
        EventsQueued, WorkerFlow, LeaseHeld, Control, SessionConstants
  <1>19. ASSUME ConfigTimeout  PROVE HeldMessage'
    BY <1>19
    DEF ConfigTimeout, FinalMessage, CompletedMessage, HeldMessage,
        EventsQueued, WorkerFlow, LeaseHeld, Control, SessionConstants
  <1>20. ASSUME IdleExpires  PROVE HeldMessage'
    BY <1>20
    DEF IdleExpires, FinalMessage, CompletedMessage, HeldMessage, EventsQueued,
        WorkerFlow, LeaseHeld, Control, SessionConstants
  <1>21. ASSUME ShutdownTimeout  PROVE HeldMessage'
    BY <1>21
    DEF ShutdownTimeout, Gone, Requested, FinalMessage, CompletedMessage,
        HeldMessage, EventsQueued, WorkerFlow, LeaseHeld, Control,
        SessionConstants
  <1>22. ASSUME Shutdown  PROVE HeldMessage'
    BY <1>22
    DEF Shutdown, Gone, Requested, Running, FinalMessage, CompletedMessage,
        HeldMessage, EventsQueued, WorkerFlow, LeaseHeld, Control,
        SessionConstants
  <1>23. ASSUME CreateStream  PROVE HeldMessage'
    BY <1>23
    DEF CreateStream, Alone, FinalMessage, CompletedMessage, Plain, Message,
        Messages, MessageKinds, Running, Cancelling, HeldMessage, EventsQueued,
        WorkerFlow, LeaseHeld, Control, SessionConstants
  <1>24. ASSUME PopAudio  PROVE HeldMessage'
    BY <1>24
    DEF PopAudio, Cancelling, FinalMessage, CompletedMessage, Plain, Message,
        Messages, MessageKinds, Running, HeldMessage, EventsQueued, WorkerFlow,
        LeaseHeld, Control, SessionConstants
  <1>25. ASSUME PopEnds  PROVE HeldMessage'
    BY <1>25
    DEF PopEnds, Cancelling, FinalMessage, CompletedMessage, Plain, Message,
        Messages, MessageKinds, Running, HeldMessage, EventsQueued, WorkerFlow,
        LeaseHeld, Control, SessionConstants
  <1>26. ASSUME FeedStream  PROVE HeldMessage'
    BY <1>26
    DEF FeedStream, Cancelling, Batches, Alone, FinalMessage, CompletedMessage,
        Plain, Message, Messages, MessageKinds, Running, HeldMessage,
        EventsQueued, WorkerFlow, LeaseHeld, Control, SessionConstants
  <1>27. ASSUME FinishStream  PROVE HeldMessage'
    BY <1>27
    DEF FinishStream, Cancelling, Batches, Alone, FinalMessage,
        CompletedMessage, Plain, Message, Messages, MessageKinds, Running,
        HeldMessage, EventsQueued, WorkerFlow, LeaseHeld, Control,
        SessionConstants
  <1>28. ASSUME PollEvent  PROVE HeldMessage'
    BY <1>28
    DEF PollEvent, Cancelling, Enqueue, Message, Alone, FinalMessage,
        CompletedMessage, Plain, Messages, MessageKinds, Running, HeldMessage,
        EventsQueued, WorkerFlow, LeaseHeld, Control, SessionConstants
  <1>29. ASSUME DrainReturns  PROVE HeldMessage'
    BY <1>29
    DEF DrainReturns, Cancelling, Enqueue, FinalMessage, Alone, Message,
        CompletedMessage, Plain, Messages, MessageKinds, Running, HeldMessage,
        EventsQueued, WorkerFlow, LeaseHeld, Control, SessionConstants
  <1>30. ASSUME ReturnsFalse  PROVE HeldMessage'
    BY <1>30
    DEF ReturnsFalse, Cancelling, Alone, FinalMessage, CompletedMessage, Plain,
        Message, Messages, MessageKinds, Running, HeldMessage, EventsQueued,
        WorkerFlow, LeaseHeld, Control, SessionConstants
  <1>31. ASSUME ObserveLag  PROVE HeldMessage'
    BY <1>31, PlainTyped
    DEF ObserveLag, Enqueue, Plain, Requested, Message, FinalMessage,
        CompletedMessage, Messages, MessageKinds, Running, Cancelling,
        HeldMessage, EventsQueued, WorkerFlow, LeaseHeld, Control,
        SessionConstants
  <1>32. ASSUME EnqueueAccepts  PROVE HeldMessage'
    <2>1. CASE wfrom # "final"
      BY <1>32, <2>1
      DEF EnqueueAccepts, AfterEnqueue, HeldMessage, Control
    <2>2. CASE wfrom = "final"
      <3>1. /\ wphase = "tail" /\ events = <<>> /\ seq \in 2 .. MaxSeq + 2
        BY <1>32, <2>2
        DEF EnqueueAccepts, WorkerFlow, Control, EventsQueued, SessionConstants
      <3>2. CompletedMessage \in Messages
        BY <3>1
        DEF CompletedMessage, Message, Messages, MessageKinds, SessionConstants
      <3>3. /\ wpc' = "enqueue" /\ wfrom' = "completed"
            /\ wmsg' = CompletedMessage /\ seq' = seq
        BY <1>32, <2>2 DEF EnqueueAccepts, AfterEnqueue
      <3>4. CompletedMessage' = CompletedMessage
        BY <3>3 DEF CompletedMessage
      <3> QED  BY <3>2, <3>3, <3>4 DEF HeldMessage
    <2> QED  BY <2>1, <2>2
  <1>33. ASSUME EnqueueFails  PROVE HeldMessage'
    BY <1>33
    DEF EnqueueFails, AfterEnqueue, Alone, FinalMessage, CompletedMessage,
        Plain, Message, Messages, MessageKinds, Running, Cancelling,
        HeldMessage, EventsQueued, WorkerFlow, LeaseHeld, Control,
        SessionConstants
  <1>34. ASSUME EnqueueWaits  PROVE HeldMessage'
    BY <1>34
    DEF EnqueueWaits, Alone, FinalMessage, CompletedMessage, Plain, Message,
        Messages, MessageKinds, Running, Cancelling, HeldMessage, EventsQueued,
        WorkerFlow, LeaseHeld, Control, SessionConstants
  <1>35. ASSUME RequestClose  PROVE HeldMessage'
    BY <1>35
    DEF RequestClose, FinalMessage, CompletedMessage, Plain, Message, Messages,
        MessageKinds, Running, Cancelling, HeldMessage, EventsQueued,
        WorkerFlow, LeaseHeld, Control, SessionConstants
  <1>36. ASSUME HandleCancellation  PROVE HeldMessage'
    BY <1>36, PlainTyped
    DEF HandleCancellation, Enqueue, Plain, Alone, Message, FinalMessage,
        CompletedMessage, Messages, MessageKinds, Running, Cancelling,
        HeldMessage, EventsQueued, WorkerFlow, LeaseHeld, Control,
        SessionConstants
  <1>37. ASSUME WorkerFailure  PROVE HeldMessage'
    BY <1>37, PlainTyped
    DEF WorkerFailure, Cancelling, Enqueue, Plain, Alone, Message,
        FinalMessage, CompletedMessage, Messages, MessageKinds, Running,
        HeldMessage, EventsQueued, WorkerFlow, LeaseHeld, Control,
        SessionConstants
  <1>38. ASSUME ReleaseLease  PROVE HeldMessage'
    BY <1>38
    DEF ReleaseLease, FinalMessage, CompletedMessage, Plain, Message, Messages,
        MessageKinds, Running, Cancelling, HeldMessage, EventsQueued,
        WorkerFlow, LeaseHeld, Control, SessionConstants
  <1>39. ASSUME WorkerExits  PROVE HeldMessage'
    BY <1>39
    DEF WorkerExits, FinalMessage, CompletedMessage, Plain, Message, Messages,
        MessageKinds, Running, Cancelling, HeldMessage, EventsQueued,
        WorkerFlow, LeaseHeld, Control, SessionConstants
  <1>40. ASSUME UNCHANGED vars  PROVE HeldMessage'
    BY <1>40
    DEF HeldMessage, EventsQueued, WorkerFlow, LeaseHeld, Control,
        SessionConstants, FinalMessage, CompletedMessage
  <1> QED
    BY <1>1, <1>2, <1>3, <1>4, <1>5, <1>6, <1>7, <1>8, <1>9, <1>10, <1>11,
        <1>12, <1>13, <1>14, <1>15, <1>16, <1>17, <1>18, <1>19, <1>20, <1>21,
        <1>22, <1>23, <1>24, <1>25, <1>26, <1>27, <1>28, <1>29, <1>30, <1>31,
        <1>32, <1>33, <1>34, <1>35, <1>36, <1>37, <1>38, <1>39, <1>40
    DEF Next, Client, Ready, Timeouts, Worker

\* Queued messages keep their type, within the bound of the queue.
LEMMA MessagesStep ==
    ASSUME SessionConstants, Flags, Control, LeaseHeld, HeldMessage,
           HeldMessage', Unconfigured, MessagesTyped, [Next]_vars
    PROVE  MessagesTyped'
  <1> USE DEF configVars, audioVars, inputVars, idleVars, timerVars,
      closingVars, closeVars, pcmVars, outVars, postVars, streamVars, taskVars,
      workVars, countVars, fateVars, history, clientVars, restVars, vars,
      endVars, ioVars
  <1>1. ASSUME ReadFails  PROVE MessagesTyped'
    <2>1. closed' /\ outbound' = <<>>
      BY <1>1, FinishKeeps DEF ReadFails
    <2> QED  BY <1>1, <2>1, MessagesEmptied DEF ReadFails
  <1>2. ASSUME ReadInvalid  PROVE MessagesTyped'
    <2>1. Plain("error") \in Messages
      BY PlainTyped DEF MessageKinds
    <2> QED
      BY <1>2, <2>1, FailureKeeps, MessagesGrown, MessagesEmptied
      DEF ReadInvalid
  <1>3. ASSUME ReadConfigure  PROVE MessagesTyped'
    <2>0. /\ Plain("created") \in Messages /\ Plain("error") \in Messages
          /\ outbound \in Seq(Messages) /\ Len(outbound) \in Nat /\ Len(writing) \in Nat
          /\ UNCHANGED <<writing, sent, wmsg>>
      BY <1>3, PlainTyped DEF MessageKinds, MessagesTyped, ReadConfigure
    <2>1. ASSUME FinishSession(reason)  PROVE MessagesTyped'
      BY <2>0, <2>1, FinishKeeps, MessagesEmptied
    <2>2. ASSUME IoAccepts, outbound' = Append(outbound, Plain("created")),
                 closed' = closed
          PROVE  MessagesTyped'
      <3>1. Trimmed(outbound) = outbound
        BY <1>3, NothingToTrim DEF ReadConfigure, Trimmed
      <3> QED  BY <2>0, <2>2, <3>1, MessagesGrown DEF IoAccepts, LeaseHeld
    <2>3. ASSUME IoAccepts, Len(outbound) + Len(writing) + 1 < MaxOut,
                 outbound' = outbound \o <<Plain("created"), Plain("error")>>,
                 closed' = closed
          PROVE  MessagesTyped'
      <3>1. /\ <<Plain("created"), Plain("error")>> \in Seq(Messages)
            /\ Len(<<Plain("created"), Plain("error")>>) = 2
        BY <2>0
      <3>2. outbound' \in Seq(Messages) /\ Len(outbound') = Len(outbound) + 2
        BY <2>0, <2>3, <3>1, ConcatProperties
      <3> QED
        BY <2>0, <2>3, <3>2
        DEF MessagesTyped, IoAccepts, LeaseHeld, SessionConstants
    <2> QED  BY <1>3, <2>1, <2>2, <2>3 DEF ReadConfigure
  <1>4. ASSUME ReadPing  PROVE MessagesTyped'
    <2>1. Plain("pong") \in Messages
      BY PlainTyped DEF MessageKinds
    <2>2. CASE IoAccepts
      BY <1>4, <2>1, <2>2, MessagesGrown DEF ReadPing, LeaseHeld, IoAccepts
    <2>3. CASE ~IoAccepts
      BY <1>4, <2>3, FinishKeeps, MessagesEmptied DEF ReadPing
    <2> QED  BY <2>2, <2>3
  <1>5. ASSUME ReadFinish  PROVE MessagesTyped'
    BY <1>5 DEF ReadFinish, MessagesTyped, SessionConstants
  <1>6. ASSUME ReadCancel  PROVE MessagesTyped'
    BY <1>6
    DEF ReadCancel, TouchIdleTimeout, Requested, MessagesTyped,
        SessionConstants
  <1>7. ASSUME NEW n \in FrameSizes, ReadAudio(n)  PROVE MessagesTyped'
    BY <1>7 DEF ReadAudio, TouchIdleTimeout, MessagesTyped, SessionConstants
  <1>8. ASSUME Accept  PROVE MessagesTyped'
    BY <1>8 DEF Accept, CanRead, MessagesTyped, SessionConstants
  <1>9. ASSUME AcceptFails  PROVE MessagesTyped'
    <2>1. closed' /\ outbound' = <<>>
      BY <1>9, FinishKeeps DEF AcceptFails
    <2> QED  BY <1>9, <2>1, MessagesEmptied DEF AcceptFails
  <1>10. ASSUME IdleHandler  PROVE MessagesTyped'
    <2>1. Plain("error") \in Messages
      BY PlainTyped DEF MessageKinds
    <2>2. CASE inputEnded
      BY <1>10, <2>2, MessagesSame DEF IdleHandler
    <2>3. CASE ~inputEnded
      <3>1. ProtocolFailure("protocol")
        BY <1>10, <2>3 DEF IdleHandler
      <3> QED
        BY <1>10, <2>1, <3>1, FailureKeeps, MessagesGrown, MessagesEmptied
        DEF IdleHandler
    <2> QED  BY <2>2, <2>3
  <1>11. ASSUME ReadAborted  PROVE MessagesTyped'
    BY <1>11 DEF ReadAborted, MessagesTyped, SessionConstants
  <1>12. ASSUME InputSpace  PROVE MessagesTyped'
    BY <1>12 DEF InputSpace, MessagesTyped, SessionConstants
  <1>13. ASSUME MaybeWrite  PROVE MessagesTyped'
    <2>1. CASE writing # <<>>
      BY <1>13, <2>1, MessagesSame DEF MaybeWrite
    <2>2. CASE writing = <<>>
      <3>1. WriteNext /\ sent' = sent /\ wmsg' = wmsg /\ sent \in Seq(Messages)
        BY <1>13, <2>2 DEF MaybeWrite, MessagesTyped
      <3> QED  BY <2>2, <3>1, MessagesWritten
    <2> QED  BY <2>1, <2>2
  <1>14. ASSUME WriteDone  PROVE MessagesTyped'
    <2>1. sent' \in Seq(Messages)
      BY <1>14, ConcatProperties DEF WriteDone, MessagesTyped
    <2> QED  BY <1>14, <2>1, MessagesWritten DEF WriteDone
  <1>15. ASSUME WriteFails  PROVE MessagesTyped'
    <2>1. closed' /\ outbound' = <<>>
      BY <1>15, FinishKeeps DEF WriteFails
    <2> QED  BY <1>15, <2>1, MessagesEmptied DEF WriteFails
  <1>16. ASSUME CloseDone  PROVE MessagesTyped'
    <2>1. closed' /\ outbound' = <<>>
      BY <1>16, FinishKeeps DEF CloseDone
    <2> QED  BY <1>16, <2>1, MessagesEmptied DEF CloseDone
  <1>17. ASSUME LastReference  PROVE MessagesTyped'
    BY <1>17 DEF LastReference, Running, MessagesTyped, SessionConstants
  <1>18. ASSUME WorkerFinished  PROVE MessagesTyped'
    BY <1>18 DEF WorkerFinished, Gone, MessagesTyped, SessionConstants
  <1>19. ASSUME ConfigTimeout  PROVE MessagesTyped'
    <2>1. Plain("error") \in Messages
      BY PlainTyped DEF MessageKinds
    <2> QED
      BY <1>19, <2>1, FailureKeeps, MessagesGrown, MessagesEmptied
      DEF ConfigTimeout
  <1>20. ASSUME IdleExpires  PROVE MessagesTyped'
    BY <1>20 DEF IdleExpires, MessagesTyped, SessionConstants
  <1>21. ASSUME ShutdownTimeout  PROVE MessagesTyped'
    <2>1. Plain("error") \in Messages
      BY PlainTyped DEF MessageKinds
    <2> QED
      BY <1>21, <2>1, ShutdownKeeps, MessagesGrown, MessagesSame
      DEF ShutdownTimeout, Gone
  <1>22. ASSUME Shutdown  PROVE MessagesTyped'
    <2>1. Plain("error") \in Messages
      BY PlainTyped DEF MessageKinds
    <2> QED
      BY <1>22, <2>1, ShutdownKeeps, MessagesGrown, MessagesSame
      DEF Shutdown, Gone
  <1>23. ASSUME CreateStream  PROVE MessagesTyped'
    BY <1>23
    DEF CreateStream, Alone, HeldMessage, MessagesTyped, SessionConstants
  <1>24. ASSUME PopAudio  PROVE MessagesTyped'
    BY <1>24
    DEF PopAudio, Cancelling, HeldMessage, MessagesTyped, SessionConstants
  <1>25. ASSUME PopEnds  PROVE MessagesTyped'
    BY <1>25
    DEF PopEnds, Cancelling, HeldMessage, MessagesTyped, SessionConstants
  <1>26. ASSUME FeedStream  PROVE MessagesTyped'
    BY <1>26
    DEF FeedStream, Cancelling, Batches, Alone, HeldMessage, MessagesTyped,
        SessionConstants
  <1>27. ASSUME FinishStream  PROVE MessagesTyped'
    BY <1>27
    DEF FinishStream, Cancelling, Batches, Alone, HeldMessage, MessagesTyped,
        SessionConstants
  <1>28. ASSUME PollEvent  PROVE MessagesTyped'
    BY <1>28
    DEF PollEvent, Cancelling, Enqueue, Alone, HeldMessage, MessagesTyped,
        SessionConstants
  <1>29. ASSUME DrainReturns  PROVE MessagesTyped'
    BY <1>29
    DEF DrainReturns, Cancelling, Enqueue, FinalMessage, Alone, HeldMessage,
        MessagesTyped, SessionConstants
  <1>30. ASSUME ReturnsFalse  PROVE MessagesTyped'
    BY <1>30
    DEF ReturnsFalse, Cancelling, Alone, HeldMessage, MessagesTyped,
        SessionConstants
  <1>31. ASSUME ObserveLag  PROVE MessagesTyped'
    BY <1>31
    DEF ObserveLag, Enqueue, Requested, HeldMessage, MessagesTyped,
        SessionConstants
  <1>32. ASSUME EnqueueAccepts  PROVE MessagesTyped'
    <2>0. /\ outbound \in Seq(Messages) /\ wmsg \in Messages /\ ~closed'
          /\ UNCHANGED <<writing, sent>> /\ wmsg' \in {wmsg, CompletedMessage}
          /\ wmsg' \in Messages \cup {NoMessage}
      BY <1>32
      DEF EnqueueAccepts, MessagesTyped, HeldMessage, LeaseHeld, AfterEnqueue
    <2>1. ASSUME Partials(outbound) # {}, outbound' = Coalesced(outbound, wmsg)
          PROVE  MessagesTyped'
      <3>1. outbound' \in Seq(Messages) /\ Len(outbound') = Len(outbound)
        BY <2>0, <2>1, CoalescedProperty
      <3> QED  BY <2>0, <3>1 DEF MessagesTyped
    <2>2. ASSUME HasRoom(outbound), outbound' = Append(outbound, wmsg)
          PROVE  MessagesTyped'
      <3>1. outbound' \in Seq(Messages) /\ Len(outbound') = Len(outbound) + 1
        BY <2>0, <2>2, AppendProperties
      <3> QED  BY <2>0, <2>2, <3>1 DEF MessagesTyped, HasRoom, SessionConstants
    <2> QED  BY <1>32, <2>1, <2>2 DEF EnqueueAccepts
  <1>33. ASSUME EnqueueFails  PROVE MessagesTyped'
    BY <1>33
    DEF EnqueueFails, AfterEnqueue, Alone, HeldMessage, MessagesTyped,
        SessionConstants
  <1>34. ASSUME EnqueueWaits  PROVE MessagesTyped'
    BY <1>34
    DEF EnqueueWaits, Alone, HeldMessage, MessagesTyped, SessionConstants
  <1>35. ASSUME RequestClose  PROVE MessagesTyped'
    BY <1>35 DEF RequestClose, HeldMessage, MessagesTyped, SessionConstants
  <1>36. ASSUME HandleCancellation  PROVE MessagesTyped'
    BY <1>36
    DEF HandleCancellation, Enqueue, Alone, HeldMessage, MessagesTyped,
        SessionConstants
  <1>37. ASSUME WorkerFailure  PROVE MessagesTyped'
    BY <1>37
    DEF WorkerFailure, Cancelling, Enqueue, Alone, HeldMessage, MessagesTyped,
        SessionConstants
  <1>38. ASSUME ReleaseLease  PROVE MessagesTyped'
    BY <1>38 DEF ReleaseLease, HeldMessage, MessagesTyped, SessionConstants
  <1>39. ASSUME WorkerExits  PROVE MessagesTyped'
    BY <1>39 DEF WorkerExits, HeldMessage, MessagesTyped, SessionConstants
  <1>40. ASSUME UNCHANGED vars  PROVE MessagesTyped'
    BY <1>40 DEF MessagesTyped, SessionConstants
  <1> QED
    BY <1>1, <1>2, <1>3, <1>4, <1>5, <1>6, <1>7, <1>8, <1>9, <1>10, <1>11,
        <1>12, <1>13, <1>14, <1>15, <1>16, <1>17, <1>18, <1>19, <1>20, <1>21,
        <1>22, <1>23, <1>24, <1>25, <1>26, <1>27, <1>28, <1>29, <1>30, <1>31,
        <1>32, <1>33, <1>34, <1>35, <1>36, <1>37, <1>38, <1>39, <1>40
    DEF Next, Client, Ready, Timeouts, Worker

-----------------------------------------------------------------------------
(* How the sequence of messages accepted for the client changes. *)

\* Nothing of the transcript comes or goes but a snapshot, or the rest with the
\* end of the session.
Carried ==
    \E p \in Nat \ {0} :
        /\ Carries(Outgoing, Outgoing', p)
        /\ ~closed' => CarriesAll(Outgoing, Outgoing', p)

\* A queue whose first n messages are those of q, less one snapshot, and whose
\* others are none of the transcript, carries q.
LEMMA CarriesIf ==
    ASSUME NEW q \in Seq(Messages), NEW r \in Seq(Messages),
           NEW p \in Nat \ {0}, NEW n \in 0 .. Len(r),
           p \in DOMAIN q => q[p].kind = "partial",
           \A i \in 1 .. n : Before(p, i) \in DOMAIN q /\ r[i] = q[Before(p, i)],
           \A i \in n + 1 .. Len(r) : r[i].kind \notin Transcript
    PROVE  /\ Carries(q, r, p)
           /\ n + 1 >= Len(q) /\ (n < Len(q) => p \in DOMAIN q) => CarriesAll(q, r, p)
  <1>0. /\ Len(q) \in Nat /\ DOMAIN q = 1 .. Len(q)
        /\ Len(r) \in Nat /\ DOMAIN r = 1 .. Len(r) /\ n \in Nat /\ p \in Nat
    OBVIOUS
  <1>1. \A j \in Nat \ {0} : j # p /\ After(p, j) <= n =>
            /\ After(p, j) \in 1 .. n /\ Before(p, After(p, j)) = j
    BY <1>0 DEF Before, After
  <1>2. ASSUME NEW i \in Positions(r, Transcript)
        PROVE  i \in 1 .. n
    BY <1>0 DEF Positions
  <1>3. ASSUME NEW i \in 1 .. n, NEW j \in DOMAIN q, j <= Before(p, i), j # p
        PROVE  After(p, j) <= n
    BY <1>0, <1>3 DEF Before, After
  <1>4. ASSUME NEW j \in DOMAIN q, j # p, After(p, j) <= n
        PROVE  After(p, j) \in DOMAIN r /\ r[After(p, j)] = q[j]
    BY <1>0, <1>1, <1>4
  <1>5. Carries(q, r, p)
    BY <1>0, <1>2, <1>3, <1>4 DEF Carries
  <1>6. ASSUME n + 1 >= Len(q), n < Len(q) => p \in DOMAIN q, NEW j \in DOMAIN q, j # p
        PROVE  After(p, j) <= n
    BY <1>0, <1>6 DEF After
  <1> QED  BY <1>4, <1>5, <1>6 DEF CarriesAll

\* A step that leaves the messages as they are, or moves one from the queue to the
\* client, carries them.
LEMMA SameCarried ==
    ASSUME MessagesTyped, Outgoing' = Outgoing
    PROVE  Carried
  <1> DEFINE p == Len(Outgoing) + 1
  <1>1. Outgoing \in Seq(Messages) /\ Len(Outgoing) \in Nat
    BY OutgoingParts, LenProperties
  <1>2. p \in Nat \ {0} /\ p \notin DOMAIN Outgoing
    BY <1>1
  <1>3. \A i \in 1 .. Len(Outgoing) : Before(p, i) = i
    BY <1>1 DEF Before
  <1>4. Carries(Outgoing, Outgoing, p) /\ CarriesAll(Outgoing, Outgoing, p)
    BY <1>1, <1>2, <1>3, CarriesIf
  <1> HIDE DEF p
  <1> QED  BY <1>2, <1>4 DEF Carried

\* The end of a session cuts the messages off.
LEMMA CutCarried ==
    ASSUME MessagesTyped, closed', outbound' = <<>>,
           \/ sent' = sent /\ writing' \in {writing, <<>>}
           \/ sent' = sent \o writing /\ writing' = <<>>
    PROVE  Carried
  <1> DEFINE p == Len(Outgoing) + 1
  <1>0. /\ sent \in Seq(Messages) /\ writing \in Seq(Messages)
        /\ sent \o writing \in Seq(Messages)
    BY OutgoingParts DEF MessagesTyped
  <1>1. Outgoing' = (sent' \o writing') \o <<>>
    BY DEF Outgoing
  <1>2. Outgoing' \in {sent, sent \o writing}
    BY <1>0, <1>1, ConcatEmptySeq
  <1>3. Outgoing \in Seq(Messages) /\ Len(Outgoing) \in Nat
    BY OutgoingParts, LenProperties
  <1>4. p \in Nat \ {0} /\ p \notin DOMAIN Outgoing
    BY <1>3
  <1>5. /\ Outgoing' \in Seq(Messages) /\ Len(Outgoing') \in 0 .. Len(Outgoing)
        /\ \A i \in 1 .. Len(Outgoing') : Outgoing'[i] = Outgoing[i]
    <2>1. /\ Len(sent) \in Nat /\ Len(writing) \in Nat /\ Len(outbound) \in Nat
          /\ Len(sent \o writing) = Len(sent) + Len(writing)
          /\ Len(Outgoing) = Len(sent \o writing) + Len(outbound)
      BY OutgoingParts, LenProperties DEF MessagesTyped
    <2>2. CASE Outgoing' = sent
      BY <1>0, <2>1, <2>2, OutgoingParts
    <2>3. CASE Outgoing' = sent \o writing
      BY <1>0, <2>1, <2>3, OutgoingParts
    <2> QED  BY <1>2, <2>2, <2>3
  <1>6. \A i \in 1 .. Len(Outgoing') : Before(p, i) = i /\ i \in DOMAIN Outgoing
    BY <1>3, <1>5 DEF Before
  <1> HIDE DEF p
  <1>7. Carries(Outgoing, Outgoing', p)
    <2> DEFINE q == Outgoing
               r == Outgoing'
    <2>1. q \in Seq(Messages) /\ r \in Seq(Messages) /\ Len(r) \in Nat
      BY <1>3, <1>5
    <2>2. \A i \in 1 .. Len(r) : Before(p, i) \in DOMAIN q /\ r[i] = q[Before(p, i)]
      BY <1>5, <1>6
    <2>3. p \notin DOMAIN q
      BY <1>4
    <2> HIDE DEF q, r
    <2>4. /\ \A i \in Len(r) + 1 .. Len(r) : r[i].kind \notin Transcript
          /\ Len(r) \in 0 .. Len(r)
      BY <2>1
    <2>5. Carries(q, r, p)
      BY <1>4, <2>1, <2>2, <2>3, <2>4, CarriesIf
    <2> QED  BY <2>5 DEF q, r
  <1> QED  BY <1>4, <1>7 DEF Carried

\* A queue that carries the queue before it makes the step carry the messages.
LEMMA QueueCarried ==
    ASSUME MessagesTyped, UNCHANGED <<sent, writing>>, outbound' \in Seq(Messages),
           NEW p \in Nat \ {0}, NEW n \in 0 .. Len(outbound'),
           p \in DOMAIN outbound => outbound[p].kind = "partial",
           \A i \in 1 .. n :
               Before(p, i) \in DOMAIN outbound /\ outbound'[i] = outbound[Before(p, i)],
           \A i \in n + 1 .. Len(outbound') : outbound'[i].kind \notin Transcript,
           n + 1 >= Len(outbound), n < Len(outbound) => p \in DOMAIN outbound
    PROVE  Carried
  <1> DEFINE past == sent \o writing
             q == Outgoing
             r == Outgoing'
             o == outbound'
             l == Len(past)
  <1>1. /\ past \in Seq(Messages) /\ l \in Nat
        /\ outbound \in Seq(Messages) /\ Len(outbound) \in Nat /\ Len(o) \in Nat
    BY OutgoingParts, LenProperties DEF MessagesTyped
  <1>2. /\ q \in Seq(Messages) /\ Len(q) = l + Len(outbound)
        /\ \A i \in 1 .. l : q[i] = past[i]
        /\ \A i \in 1 .. Len(outbound) : q[l + i] = outbound[i]
    BY OutgoingParts
  <1>3. r = past \o o
    BY DEF Outgoing
  <1> HIDE DEF past, q
  <1>4. /\ r \in Seq(Messages) /\ Len(r) = l + Len(o)
        /\ \A i \in 1 .. l : r[i] = past[i]
        /\ \A i \in 1 .. Len(o) : r[l + i] = o[i]
    BY <1>1, <1>3
  <1> HIDE DEF l, r, o
  <1>5. l + p \in Nat \ {0} /\ l + n \in 0 .. Len(r) /\ n \in Nat /\ n <= Len(o)
    BY <1>1, <1>4 DEF o
  <1>6. l + p \in DOMAIN q => q[l + p].kind = "partial"
    BY <1>1, <1>2, <1>5
  <1>7. ASSUME NEW i \in 1 .. l + n
        PROVE  Before(l + p, i) \in DOMAIN q /\ r[i] = q[Before(l + p, i)]
    <2>1. CASE i <= l
      BY <1>1, <1>2, <1>4, <1>5, <1>7, <2>1 DEF Before
    <2>2. CASE i > l
      <3> DEFINE k == i - l
      <3>1. k \in 1 .. n /\ i = l + k
        BY <1>1, <1>5, <1>7, <2>2
      <3>2. Before(p, k) \in 1 .. Len(outbound) /\ o[k] = outbound[Before(p, k)]
        BY <1>1, <3>1 DEF o
      <3>3. Before(l + p, i) = l + Before(p, k)
        BY <1>1, <3>1 DEF Before
      <3> HIDE DEF k
      <3>4. r[i] = o[k] /\ q[l + Before(p, k)] = outbound[Before(p, k)]
        <4>1. k \in 1 .. Len(o)
          BY <1>1, <1>5, <3>1 DEF o
        <4>2. r[l + k] = o[k]
          BY <1>4, <4>1
        <4> QED  BY <1>2, <3>1, <3>2, <4>2
      <3>5. l + Before(p, k) \in DOMAIN q
        <4> DEFINE c == Before(p, k)
        <4>1. c \in 1 .. Len(outbound)
          BY <3>2
        <4> HIDE DEF c
        <4>2. DOMAIN q = 1 .. Len(q)
          BY <1>2
        <4>3. l + c \in DOMAIN q
          BY <1>1, <1>2, <4>1, <4>2
        <4> QED  BY <4>3 DEF c
      <3> QED  BY <3>2, <3>3, <3>4, <3>5
    <2> QED  BY <1>1, <1>7, <2>1, <2>2
  <1>8. ASSUME NEW i \in l + n + 1 .. Len(r)
        PROVE  r[i].kind \notin Transcript
    <2>1. i - l \in n + 1 .. Len(o) /\ i = l + (i - l) /\ i - l \in 1 .. Len(o)
      BY <1>1, <1>4, <1>5, <1>8
    <2>2. r[l + (i - l)] = o[i - l]
      BY <1>4, <2>1
    <2> QED  BY <2>1, <2>2 DEF o
  <1>9. l + n + 1 >= Len(q) /\ (l + n < Len(q) => l + p \in DOMAIN q)
    BY <1>1, <1>2, <1>5
  <1>10. Carries(q, r, l + p) /\ CarriesAll(q, r, l + p)
    BY <1>2, <1>4, <1>5, <1>6, <1>7, <1>8, <1>9, CarriesIf
  <1> QED  BY <1>5, <1>10 DEF Carried, q, r

\* A message that is none of the transcript may take a snapshot's place.
LEMMA GrownCarried ==
    ASSUME MessagesTyped, UNCHANGED <<sent, writing>>,
           NEW m \in Messages, m.kind \notin Transcript,
           outbound' = Append(Trimmed(outbound), m)
    PROVE  Carried
  <1> DEFINE t == Trimmed(outbound)
  <1>0. outbound \in Seq(Messages) /\ Len(outbound) \in Nat
    BY LenProperties DEF MessagesTyped
  <1>1. t \in Seq(Messages) /\ Len(t) \in Nat /\ DOMAIN t = 1 .. Len(t)
    BY TrimmedProperty
  <1>2. PICK p \in Nat \ {0} :
            /\ p \in DOMAIN outbound => outbound[p].kind = "partial"
            /\ p \notin DOMAIN outbound => t = outbound
            /\ p \in DOMAIN outbound => Len(t) = Len(outbound) - 1
            /\ \A i \in DOMAIN t : t[i] = outbound[Before(p, i)]
    BY TrimmedProperty
  <1> HIDE DEF t
  <1>3. /\ outbound' \in Seq(Messages) /\ Len(outbound') = Len(t) + 1
        /\ \A i \in 1 .. Len(t) : outbound'[i] = t[i]
        /\ outbound'[Len(t) + 1] = m
    BY <1>1, AppendProperties DEF t
  <1>4. /\ Len(t) + 1 >= Len(outbound)
        /\ Len(t) < Len(outbound) => p \in DOMAIN outbound
    BY <1>0, <1>1, <1>2
  <1>5. \A i \in 1 .. Len(t) : Before(p, i) \in DOMAIN outbound
    BY <1>0, <1>1, <1>2 DEF Before
  <1>6. Len(t) \in 0 .. Len(outbound')
    BY <1>1, <1>3
  <1>7. \A i \in 1 .. Len(t) :
            Before(p, i) \in DOMAIN outbound /\ outbound'[i] = outbound[Before(p, i)]
    BY <1>1, <1>2, <1>3, <1>5
  <1>8. \A i \in Len(t) + 1 .. Len(outbound') : outbound'[i].kind \notin Transcript
    BY <1>1, <1>3
  <1> QED  BY <1>2, <1>3, <1>4, <1>6, <1>7, <1>8, QueueCarried

\* The next write moves a message on, or the session ended.
LEMMA WriteCarried ==
    ASSUME MessagesTyped, WriteNext,
           \/ writing = <<>> /\ sent' = sent
           \/ sent' = sent \o writing
    PROVE  Carried
  <1>0. /\ sent \in Seq(Messages) /\ writing \in Seq(Messages)
        /\ outbound \in Seq(Messages) /\ sent \o writing \in Seq(Messages)
    BY OutgoingParts DEF MessagesTyped
  <1>1. sent' = sent \o writing
    BY <1>0, ConcatEmptySeq
  <1>2. CASE writing' = <<>> /\ outbound' = <<>> /\ closed'
    BY <1>1, <1>2, CutCarried
  <1>3. CASE writing' = <<>> /\ outbound' = <<>> /\ outbound = <<>>
    <2>1. Outgoing' = ((sent \o writing) \o <<>>) \o <<>>
      BY <1>1, <1>3 DEF Outgoing
    <2>2. Outgoing' = Outgoing
      BY <1>0, <1>3, <2>1, ConcatEmptySeq DEF Outgoing
    <2> QED  BY <2>2, SameCarried
  <1>4. CASE /\ outbound # <<>>
             /\ writing' = <<Head(outbound)>> /\ outbound' = Tail(outbound)
    <2>1. /\ <<Head(outbound)>> \in Seq(Messages) /\ Tail(outbound) \in Seq(Messages)
          /\ <<Head(outbound)>> \o Tail(outbound) = outbound
      BY <1>0, <1>4, HeadTailProperties
    <2>2. Outgoing' = ((sent \o writing) \o <<Head(outbound)>>) \o Tail(outbound)
      BY <1>1, <1>4 DEF Outgoing
    <2> DEFINE past == sent \o writing
               h == <<Head(outbound)>>
               t == Tail(outbound)
    <2>3. past \in Seq(Messages) /\ h \in Seq(Messages) /\ t \in Seq(Messages)
      BY <1>0, <2>1
    <2> HIDE DEF past, h, t
    <2>4. (past \o h) \o t = past \o (h \o t)
      BY <2>3, ConcatAssociative
    <2>5. Outgoing' = Outgoing
      BY <2>1, <2>2, <2>4 DEF Outgoing, past, h, t
    <2> QED  BY <2>5, SameCarried
  <1> QED  BY <1>2, <1>3, <1>4, WriteKeeps

\* Nor do messages behind the queue that are none of the transcript.
LEMMA AddedCarried ==
    ASSUME MessagesTyped, UNCHANGED <<sent, writing>>, outbound' \in Seq(Messages),
           Len(outbound') >= Len(outbound),
           \A i \in 1 .. Len(outbound) : outbound'[i] = outbound[i],
           \A i \in Len(outbound) + 1 .. Len(outbound') : outbound'[i].kind \notin Transcript
    PROVE  Carried
  <1> DEFINE n == Len(outbound)
             p == Len(outbound) + 1
  <1>1. /\ outbound \in Seq(Messages) /\ n \in Nat /\ Len(outbound') \in Nat
        /\ DOMAIN outbound = 1 .. n
    BY LenProperties DEF MessagesTyped
  <1>2. n \in 0 .. Len(outbound') /\ p \in Nat \ {0} /\ p \notin DOMAIN outbound
    BY <1>1
  <1>3. \A i \in 1 .. n :
            Before(p, i) \in DOMAIN outbound /\ outbound'[i] = outbound[Before(p, i)]
    BY <1>1 DEF Before
  <1>4. n + 1 >= Len(outbound) /\ ~(n < Len(outbound))
    BY <1>1
  <1> HIDE DEF p
  <1> QED  BY <1>2, <1>3, <1>4, QueueCarried

\* What is carried keeps its order.
LEMMA CarriesAscending ==
    ASSUME NEW q \in Seq(Messages), NEW r \in Seq(Messages), NEW p \in Nat \
           {0},
           Carries(q, r, p), NEW K \in SUBSET Transcript, Ascending(q, K)
    PROVE  Ascending(r, K)
  <1> SUFFICES ASSUME NEW i \in Positions(r, K), NEW j \in Positions(r, K), i < j
               PROVE  r[i].n < r[j].n
    BY DEF Ascending
  <1>1. i \in Nat /\ j \in Nat /\ Before(p, i) < Before(p, j)
    BY DEF Positions, Before
  <1>2. i \in Positions(r, Transcript) /\ j \in Positions(r, Transcript)
    BY DEF Positions
  <1>3. /\ Before(p, i) \in DOMAIN q /\ r[i] = q[Before(p, i)]
        /\ Before(p, j) \in DOMAIN q /\ r[j] = q[Before(p, j)]
    BY <1>2 DEF Carries
  <1>4. Before(p, i) \in Positions(q, K) /\ Before(p, j) \in Positions(q, K)
    BY <1>3 DEF Positions
  <1> QED  BY <1>1, <1>3, <1>4 DEF Ascending

\* Nothing of the transcript is new.
LEMMA CarriesOnly ==
    ASSUME NEW q \in Seq(Messages), NEW r \in Seq(Messages), NEW p \in Nat \
           {0},
           Carries(q, r, p), NEW K \in SUBSET Transcript, NEW i \in Positions(r, K)
    PROVE  \E j \in Positions(q, K) : r[i] = q[j]
  <1>1. i \in Positions(r, Transcript)
    BY DEF Positions
  <1>2. Before(p, i) \in DOMAIN q /\ r[i] = q[Before(p, i)]
    BY <1>1 DEF Carries
  <1>3. Before(p, i) \in Positions(q, K)
    BY <1>2 DEF Positions
  <1> QED  BY <1>2, <1>3

\* What is not a snapshot is not lost while the session is open.
LEMMA CarriesAllKinds ==
    ASSUME NEW q \in Seq(Messages), NEW r \in Seq(Messages), NEW p \in Nat \
           {0},
           Carries(q, r, p), CarriesAll(q, r, p),
           NEW K, "partial" \notin K, NEW j \in Positions(q, K)
    PROVE  \E i \in Positions(r, K) : r[i] = q[j]
  <1>1. j \in DOMAIN q /\ q[j].kind \in K
    BY DEF Positions
  <1>2. j # p
    BY <1>1 DEF Carries
  <1>3. After(p, j) \in DOMAIN r /\ r[After(p, j)] = q[j]
    BY <1>1, <1>2 DEF CarriesAll
  <1>4. After(p, j) \in Positions(r, K)
    BY <1>1, <1>3 DEF Positions
  <1> QED  BY <1>3, <1>4

\* The tokens carried still count 1, 2, 3, ...
LEMMA CarriesTokens ==
    ASSUME NEW q \in Seq(Messages), NEW r \in Seq(Messages), NEW p \in Nat \
           {0},
           Carries(q, r, p), TokensCount(q)
    PROVE  TokensCount(r)
  <1> DEFINE K == {"token"}
  <1>0. K \subseteq Transcript
    BY DEF Transcript
  <1>1. ASSUME NEW i \in Positions(r, K)
        PROVE  /\ i \in Nat /\ Before(p, i) \in Positions(q, K)
               /\ r[i] = q[Before(p, i)]
    <2>1. i \in Positions(r, Transcript) /\ i \in DOMAIN r /\ r[i].kind \in K
      BY <1>0, <1>1 DEF Positions
    <2>2. Before(p, i) \in DOMAIN q /\ r[i] = q[Before(p, i)]
      BY <2>1 DEF Carries
    <2> QED  BY <2>1, <2>2 DEF Positions
  <1>2. ASSUME NEW i \in Positions(r, K), NEW j \in Positions(r, K), i < j
        PROVE  r[i].k < r[j].k
    <2>1. Before(p, i) < Before(p, j)
      BY <1>1, <1>2 DEF Before
    <2> QED  BY <1>1, <1>2, <2>1 DEF TokensCount
  <1>3. ASSUME NEW i \in Positions(r, K), NEW c \in 1 .. r[i].k
        PROVE  \E j \in Positions(r, K) : r[j].k = c
    <2>1. PICK j \in Positions(q, K) : q[j].k = c
      BY <1>1, <1>3 DEF TokensCount
    <2>2. j \in DOMAIN q /\ q[j].kind = "token" /\ j \in Nat
      BY DEF Positions
    <2>3. j # p
      BY <2>2 DEF Carries
    <2>4. j <= Before(p, i)
      <3> SUFFICES ASSUME Before(p, i) < j  PROVE FALSE
        BY <1>1, <2>2 DEF Before
      <3>1. q[Before(p, i)].k < q[j].k
        BY <1>1, <2>1 DEF TokensCount
      <3>2. q[Before(p, i)].k \in Int /\ c \in Int /\ c <= q[Before(p, i)].k
        <4>1. Before(p, i) \in DOMAIN q
          BY <1>1 DEF Positions
        <4>2. q[Before(p, i)] \in Messages
          BY <4>1, ElementOfSeq
        <4> QED  BY <1>1, <1>3, <4>2 DEF Messages
      <3> QED  BY <2>1, <3>1, <3>2
    <2>5. i \in Positions(r, Transcript)
      BY <1>0 DEF Positions
    <2>6. After(p, j) \in DOMAIN r /\ r[After(p, j)] = q[j]
      BY <2>2, <2>3, <2>4, <2>5 DEF Carries
    <2> QED  BY <2>1, <2>2, <2>6 DEF Positions
  <1> QED  BY <1>2, <1>3 DEF TokensCount


\* Every step but that of the worker that queues a message carries the
\* messages.
LEMMA CarriedStep ==
    ASSUME SessionConstants, Flags, MessagesTyped, ~EnqueueAccepts, [Next]_vars
    PROVE  Carried
  <1> USE DEF configVars, audioVars, inputVars, idleVars, timerVars,
      closingVars, closeVars, pcmVars, outVars, postVars, streamVars, taskVars,
      workVars, countVars, fateVars, history, clientVars, restVars, vars,
      endVars, ioVars
  <1>1. ASSUME ReadFails  PROVE Carried
    <2>1. closed' /\ outbound' = <<>>
      BY <1>1, FinishKeeps DEF ReadFails
    <2> QED  BY <1>1, <2>1, CutCarried DEF ReadFails
  <1>2. ASSUME ReadInvalid  PROVE Carried
    <2>1. Plain("error") \in Messages /\ Plain("error").kind \notin Transcript
      BY PlainTyped DEF MessageKinds, Plain, Message, Transcript
    <2> QED
      BY <1>2, <2>1, FailureKeeps, GrownCarried, CutCarried DEF ReadInvalid
  <1>3. ASSUME ReadConfigure  PROVE Carried
    <2>0. /\ Plain("created") \in Messages /\ Plain("created").kind \notin Transcript
          /\ Plain("error") \in Messages /\ Plain("error").kind \notin Transcript
          /\ outbound \in Seq(Messages) /\ Len(outbound) \in Nat
          /\ UNCHANGED <<writing, sent>>
      BY <1>3, PlainTyped, LenProperties
      DEF MessageKinds, MessagesTyped, ReadConfigure, Plain, Message, Transcript
    <2>1. ASSUME FinishSession(reason)  PROVE Carried
      BY <2>0, <2>1, FinishKeeps, CutCarried
    <2>2. ASSUME outbound' = Append(outbound, Plain("created"))  PROVE Carried
      <3>1. /\ outbound' \in Seq(Messages) /\ Len(outbound') = Len(outbound) + 1
            /\ \A i \in 1 .. Len(outbound) : outbound'[i] = outbound[i]
            /\ outbound'[Len(outbound) + 1] = Plain("created")
        BY <2>0, <2>2, AppendProperties
      <3> QED  BY <2>0, <3>1, AddedCarried
    <2>3. ASSUME outbound' = outbound \o <<Plain("created"), Plain("error")>>
          PROVE  Carried
      <3> DEFINE two == <<Plain("created"), Plain("error")>>
      <3>1. /\ two \in Seq(Messages) /\ Len(two) = 2
            /\ two[1] = Plain("created") /\ two[2] = Plain("error")
        BY <2>0
      <3> HIDE DEF two
      <3>2. /\ outbound' \in Seq(Messages) /\ Len(outbound') = Len(outbound) + 2
            /\ \A i \in 1 .. Len(outbound) : outbound'[i] = outbound[i]
            /\ outbound'[Len(outbound) + 1] = two[1]
            /\ outbound'[Len(outbound) + 2] = two[2]
        BY <2>0, <2>3, <3>1, ConcatProperties DEF two
      <3> QED  BY <2>0, <3>1, <3>2, AddedCarried
    <2> QED  BY <1>3, <2>1, <2>2, <2>3 DEF ReadConfigure
  <1>4. ASSUME ReadPing  PROVE Carried
    <2>1. Plain("pong") \in Messages /\ Plain("pong").kind \notin Transcript
      BY PlainTyped DEF MessageKinds, Plain, Message, Transcript
    <2>2. CASE IoAccepts
      BY <1>4, <2>1, <2>2, GrownCarried DEF ReadPing
    <2>3. CASE ~IoAccepts
      BY <1>4, <2>3, FinishKeeps, CutCarried DEF ReadPing
    <2> QED  BY <2>2, <2>3
  <1>5. ASSUME ReadFinish  PROVE Carried
    BY <1>5, SameCarried DEF ReadFinish, Outgoing
  <1>6. ASSUME ReadCancel  PROVE Carried
    BY <1>6, SameCarried DEF ReadCancel, TouchIdleTimeout, Requested, Outgoing
  <1>7. ASSUME NEW n \in FrameSizes, ReadAudio(n)  PROVE Carried
    BY <1>7, SameCarried DEF ReadAudio, TouchIdleTimeout, Outgoing
  <1>8. ASSUME Accept  PROVE Carried
    BY <1>8, SameCarried DEF Accept, CanRead, Outgoing
  <1>9. ASSUME AcceptFails  PROVE Carried
    <2>1. closed' /\ outbound' = <<>>
      BY <1>9, FinishKeeps DEF AcceptFails
    <2> QED  BY <1>9, <2>1, CutCarried DEF AcceptFails
  <1>10. ASSUME IdleHandler  PROVE Carried
    <2>1. Plain("error") \in Messages /\ Plain("error").kind \notin Transcript
      BY PlainTyped DEF MessageKinds, Plain, Message, Transcript
    <2>2. CASE inputEnded
      BY <1>10, <2>2, SameCarried DEF IdleHandler, Outgoing
    <2>3. CASE ~inputEnded
      <3>1. ProtocolFailure("protocol")
        BY <1>10, <2>3 DEF IdleHandler
      <3> QED
        BY <1>10, <2>1, <3>1, FailureKeeps, GrownCarried, CutCarried
        DEF IdleHandler
    <2> QED  BY <2>2, <2>3
  <1>11. ASSUME ReadAborted  PROVE Carried
    BY <1>11, SameCarried DEF ReadAborted, Outgoing
  <1>12. ASSUME InputSpace  PROVE Carried
    BY <1>12, SameCarried DEF InputSpace, Outgoing
  <1>13. ASSUME MaybeWrite  PROVE Carried
    <2>1. CASE writing # <<>>
      BY <1>13, <2>1, SameCarried DEF MaybeWrite, Outgoing
    <2>2. CASE writing = <<>>
      BY <1>13, <2>2, WriteCarried DEF MaybeWrite
    <2> QED  BY <2>1, <2>2
  <1>14. ASSUME WriteDone  PROVE Carried
    <2> QED  BY <1>14, WriteCarried DEF WriteDone
  <1>15. ASSUME WriteFails  PROVE Carried
    <2>1. closed' /\ outbound' = <<>>
      BY <1>15, FinishKeeps DEF WriteFails
    <2> QED  BY <1>15, <2>1, CutCarried DEF WriteFails
  <1>16. ASSUME CloseDone  PROVE Carried
    <2>1. closed' /\ outbound' = <<>>
      BY <1>16, FinishKeeps DEF CloseDone
    <2> QED  BY <1>16, <2>1, CutCarried DEF CloseDone
  <1>17. ASSUME LastReference  PROVE Carried
    BY <1>17, SameCarried DEF LastReference, Running, Outgoing
  <1>18. ASSUME WorkerFinished  PROVE Carried
    BY <1>18, SameCarried DEF WorkerFinished, Gone, Outgoing
  <1>19. ASSUME ConfigTimeout  PROVE Carried
    <2>1. Plain("error") \in Messages /\ Plain("error").kind \notin Transcript
      BY PlainTyped DEF MessageKinds, Plain, Message, Transcript
    <2> QED
      BY <1>19, <2>1, FailureKeeps, GrownCarried, CutCarried DEF ConfigTimeout
  <1>20. ASSUME IdleExpires  PROVE Carried
    BY <1>20, SameCarried DEF IdleExpires, Outgoing
  <1>21. ASSUME ShutdownTimeout  PROVE Carried
    <2>1. Plain("error") \in Messages /\ Plain("error").kind \notin Transcript
      BY PlainTyped DEF MessageKinds, Plain, Message, Transcript
    <2>2. CASE outbound' = outbound
      BY <1>21, <2>2, SameCarried DEF ShutdownTimeout, Outgoing
    <2> QED
      BY <1>21, <2>1, <2>2, ShutdownKeeps, GrownCarried
      DEF ShutdownTimeout
  <1>22. ASSUME Shutdown  PROVE Carried
    <2>1. Plain("error") \in Messages /\ Plain("error").kind \notin Transcript
      BY PlainTyped DEF MessageKinds, Plain, Message, Transcript
    <2>2. CASE outbound' = outbound
      BY <1>22, <2>2, SameCarried DEF Shutdown, Outgoing
    <2> QED  BY <1>22, <2>1, <2>2, ShutdownKeeps, GrownCarried DEF Shutdown
  <1>23. ASSUME CreateStream  PROVE Carried
    BY <1>23, SameCarried DEF CreateStream, Alone, Outgoing
  <1>24. ASSUME PopAudio  PROVE Carried
    BY <1>24, SameCarried DEF PopAudio, Cancelling, Outgoing
  <1>25. ASSUME PopEnds  PROVE Carried
    BY <1>25, SameCarried DEF PopEnds, Cancelling, Outgoing
  <1>26. ASSUME FeedStream  PROVE Carried
    BY <1>26, SameCarried DEF FeedStream, Cancelling, Batches, Alone, Outgoing
  <1>27. ASSUME FinishStream  PROVE Carried
    BY <1>27, SameCarried
    DEF FinishStream, Cancelling, Batches, Alone, Outgoing
  <1>28. ASSUME PollEvent  PROVE Carried
    BY <1>28, SameCarried DEF PollEvent, Cancelling, Enqueue, Alone, Outgoing
  <1>29. ASSUME DrainReturns  PROVE Carried
    BY <1>29, SameCarried
    DEF DrainReturns, Cancelling, Enqueue, FinalMessage, Alone, Outgoing
  <1>30. ASSUME ReturnsFalse  PROVE Carried
    BY <1>30, SameCarried DEF ReturnsFalse, Cancelling, Alone, Outgoing
  <1>31. ASSUME ObserveLag  PROVE Carried
    BY <1>31, SameCarried DEF ObserveLag, Enqueue, Requested, Outgoing
  <1>32. ASSUME EnqueueFails  PROVE Carried
    BY <1>32, SameCarried DEF EnqueueFails, AfterEnqueue, Alone, Outgoing
  <1>33. ASSUME EnqueueWaits  PROVE Carried
    BY <1>33, SameCarried DEF EnqueueWaits, Alone, Outgoing
  <1>34. ASSUME RequestClose  PROVE Carried
    BY <1>34, SameCarried DEF RequestClose, Outgoing
  <1>35. ASSUME HandleCancellation  PROVE Carried
    BY <1>35, SameCarried DEF HandleCancellation, Enqueue, Alone, Outgoing
  <1>36. ASSUME WorkerFailure  PROVE Carried
    BY <1>36, SameCarried
    DEF WorkerFailure, Cancelling, Enqueue, Alone, Outgoing
  <1>37. ASSUME ReleaseLease  PROVE Carried
    BY <1>37, SameCarried DEF ReleaseLease, Outgoing
  <1>38. ASSUME WorkerExits  PROVE Carried
    BY <1>38, SameCarried DEF WorkerExits, Outgoing
  <1>39. ASSUME UNCHANGED vars  PROVE Carried
    BY <1>39, SameCarried DEF Outgoing
  <1> QED
    BY <1>1, <1>2, <1>3, <1>4, <1>5, <1>6, <1>7, <1>8, <1>9, <1>10, <1>11,
        <1>12, <1>13, <1>14, <1>15, <1>16, <1>17, <1>18, <1>19, <1>20, <1>21,
        <1>22, <1>23, <1>24, <1>25, <1>26, <1>27, <1>28, <1>29, <1>30, <1>31,
        <1>32, <1>33, <1>34, <1>35, <1>36, <1>37, <1>38, <1>39
    DEF Next, Client, Ready, Timeouts, Worker

\* The transcript stays as it is while the worker's view of it does.
LEMMA CarriedNumbered ==
    ASSUME MessagesTyped, MessagesTyped', Carried, Numbered,
           closed => closed',
           UNCHANGED <<tokenEvents, wpc, wphase, wfrom, wmsg, events, seq, tokenCount>>
    PROVE  Numbered'
  <1>0. Outgoing \in Seq(Messages) /\ Outgoing' \in Seq(Messages)
    <2>1. /\ sent' \in Seq(Messages) /\ writing' \in Seq(Messages)
          /\ outbound' \in Seq(Messages)
      BY DEF MessagesTyped
    <2>2. (sent' \o writing') \o outbound' \in Seq(Messages)
      BY <2>1, ConcatProperties
    <2> QED  BY <2>2, OutgoingParts DEF Outgoing
  <1>1. PICK p \in Nat \ {0} :
            /\ Carries(Outgoing, Outgoing', p)
            /\ ~closed' => CarriesAll(Outgoing, Outgoing', p)
    BY DEF Carried
  <1> DEFINE q == Outgoing
             r == Outgoing'
  <1>2. /\ q \in Seq(Messages) /\ r \in Seq(Messages) /\ Carries(q, r, p)
        /\ ~closed' => CarriesAll(q, r, p)
    BY <1>0, <1>1
  <1>3. /\ wphase = "feed" => Positions(q, {"final", "completed"}) = {}
        /\ Ascending(q, {"partial"}) /\ Ascending(q, {"token", "final", "completed"})
        /\ TokensCount(q)
    BY DEF Numbered, OrderKept
  <1> HIDE DEF q, r
  <1>4. wphase = "feed" => Positions(r, {"final", "completed"}) = {}
    BY <1>2, <1>3, CarriesOnly DEF Transcript
  <1>5. /\ Ascending(r, {"partial"}) /\ Ascending(r, {"token", "final", "completed"})
        /\ TokensCount(r)
    BY <1>2, <1>3, CarriesAscending, CarriesTokens DEF Transcript
  <1>6. ASSUME ~closed'
        PROVE  TokenNumbers(r) = TokenNumbers(q)
    <2>1. \A i \in Positions(r, {"token"}) : \E j \in Positions(q, {"token"}) : r[i] = q[j]
      BY <1>2, CarriesOnly DEF Transcript
    <2>2. \A j \in Positions(q, {"token"}) : \E i \in Positions(r, {"token"}) : r[i] = q[j]
      BY <1>2, <1>6, CarriesAllKinds
    <2> QED  BY <2>1, <2>2 DEF TokenNumbers
  <1>7. \A i \in Positions(r, Transcript) : \E j \in Positions(q, Transcript) : r[i] = q[j]
    BY <1>2, CarriesOnly
  <1>8. \A i \in Positions(Outgoing', Transcript) :
            \E j \in Positions(Outgoing, Transcript) : Outgoing'[i] = Outgoing[j]
    BY <1>7 DEF q, r
  <1>9. /\ TokenNumbers(Outgoing)' = TokenNumbers(r)
        /\ TokensCount(Outgoing)' = TokensCount(r)
        /\ OrderKept' = (Ascending(r, {"partial"})
                         /\ Ascending(r, {"token", "final", "completed"}))
        /\ Positions(Outgoing, {"final", "completed"})' = Positions(r, {"final", "completed"})
    BY DEF r, TokenNumbers, TokensCount, OrderKept, Ascending, Positions
  <1>10. wphase' = "feed" => Positions(Outgoing, {"final", "completed"})' = {}
    BY <1>4, <1>9
  <1>11. tokenEvents' /\ ~closed' => TokenNumbers(Outgoing)' = 1 .. TokensQueued'
    BY <1>6, <1>9 DEF q, Numbered, TokensQueued, HoldsToken
  <1>12. ASSUME NEW i \in Positions(Outgoing, Transcript)'
         PROVE  CameBefore(Outgoing[i].n)'
    <2>1. i \in Positions(Outgoing', Transcript)
      BY <1>12 DEF Positions
    <2>2. PICK j \in Positions(Outgoing, Transcript) : Outgoing'[i] = Outgoing[j]
      BY <1>8, <2>1
    <2>3. CameBefore(Outgoing[j].n)
      BY DEF Numbered
    <2> QED  BY <2>2, <2>3 DEF CameBefore
  <1> QED  BY <1>5, <1>9, <1>10, <1>11, <1>12 DEF Numbered

\* A step of the worker that queues nothing keeps the transcript's account if what
\* it counts as queued and polled does.
LEMMA SameNumbered ==
    ASSUME Numbered, UNCHANGED <<sent, writing, outbound, tokenEvents>>,
           closed => closed', wphase' = "feed" => wphase = "feed",
           tokenEvents /\ ~closed => TokensQueued' = TokensQueued,
           \A n \in Nat : CameBefore(n) => CameBefore(n)',
           MessagesTyped
    PROVE  Numbered'
  <1>1. Outgoing' = Outgoing
    BY DEF Outgoing
  <1>2. /\ TokenNumbers(Outgoing)' = TokenNumbers(Outgoing)
        /\ TokensCount(Outgoing)' = TokensCount(Outgoing)
        /\ OrderKept' = OrderKept
        /\ Positions(Outgoing, Transcript)' = Positions(Outgoing, Transcript)
        /\ Positions(Outgoing, {"final", "completed"})' =
               Positions(Outgoing, {"final", "completed"})
    BY <1>1 DEF TokenNumbers, TokensCount, OrderKept, Ascending, Positions
  <1>3. ASSUME NEW i \in Positions(Outgoing, Transcript)
        PROVE  CameBefore(Outgoing[i].n)'
    <2>1. Outgoing[i] \in Messages
      BY OutgoingParts, ElementOfSeq DEF Positions
    <2>2. Outgoing[i].n \in Nat /\ CameBefore(Outgoing[i].n)
      BY <2>1 DEF Messages, Numbered
    <2>3. \A n \in Nat : CameBefore(n) => CameBefore(n)'
      OBVIOUS
    <2>4. Outgoing'[i].n = Outgoing[i].n
      BY <1>1
    <2> QED  BY <2>2, <2>3, <2>4 DEF CameBefore
  <1> QED  BY <1>1, <1>2, <1>3 DEF Numbered


\* A step of the I/O thread that the worker does not notice in what it keeps itself.
WorkerUntouched ==
    /\ closed => closed'
    /\ UNCHANGED <<tokenEvents, wpc, wphase, wfrom, wmsg, events, seq, tokenCount>>

\* A handler but that of session.configure leaves the worker's own state alone,
\* and no session opens again.
LEMMA IoKeeps ==
    ASSUME Client \/ Ready \/ Timeouts \/ Shutdown, ~ReadConfigure
    PROVE  WorkerUntouched
  <1> USE DEF configVars, audioVars, inputVars, idleVars, timerVars,
      closingVars, closeVars, pcmVars, outVars, postVars, streamVars, taskVars,
      workVars, countVars, fateVars, history, clientVars, restVars, vars,
      endVars, ioVars
  <1>1. ASSUME ReadFails  PROVE WorkerUntouched
    BY <1>1
    DEF ReadFails, FinishSession, Requested, WakeOnClose, Running,
        WorkerUntouched
  <1>2. ASSUME ReadInvalid  PROVE WorkerUntouched
    BY <1>2
    DEF ReadInvalid, ProtocolFailure, Requested, FinishSession, Running,
        WorkerUntouched
  <1>3. ASSUME ReadPing  PROVE WorkerUntouched
    BY <1>3
    DEF ReadPing, TouchIdleTimeout, CanRead, FinishSession, WakeOnClose,
        Running, WorkerUntouched
  <1>4. ASSUME ReadFinish  PROVE WorkerUntouched
    BY <1>4 DEF ReadFinish, WorkerUntouched
  <1>5. ASSUME ReadCancel  PROVE WorkerUntouched
    BY <1>5 DEF ReadCancel, TouchIdleTimeout, Requested, WorkerUntouched
  <1>6. ASSUME NEW n \in FrameSizes, ReadAudio(n)  PROVE WorkerUntouched
    BY <1>6
    DEF ReadAudio, TouchIdleTimeout, PumpPendingAudio, Accepted, CanRead,
        WorkerUntouched
  <1>7. ASSUME Accept  PROVE WorkerUntouched
    BY <1>7 DEF Accept, CanRead, WorkerUntouched
  <1>8. ASSUME AcceptFails  PROVE WorkerUntouched
    BY <1>8
    DEF AcceptFails, FinishSession, WakeOnClose, Running, WorkerUntouched
  <1>9. ASSUME IdleHandler  PROVE WorkerUntouched
    BY <1>9
    DEF IdleHandler, ProtocolFailure, Requested, FinishSession, Running,
        WorkerUntouched
  <1>10. ASSUME ReadAborted  PROVE WorkerUntouched
    BY <1>10 DEF ReadAborted, WorkerUntouched
  <1>11. ASSUME InputSpace  PROVE WorkerUntouched
    BY <1>11
    DEF InputSpace, PumpPendingAudio, Accepted, CanRead, WorkerUntouched
  <1>12. ASSUME MaybeWrite  PROVE WorkerUntouched
    BY <1>12
    DEF MaybeWrite, WriteNext, WakeOnClose, CloseTransport, FinishSession,
        Running, WorkerUntouched
  <1>13. ASSUME WriteDone  PROVE WorkerUntouched
    BY <1>13
    DEF WriteDone, WriteNext, CloseTransport, FinishSession, Running,
        WorkerUntouched
  <1>14. ASSUME WriteFails  PROVE WorkerUntouched
    BY <1>14 DEF WriteFails, FinishSession, Requested, Running, WorkerUntouched
  <1>15. ASSUME CloseDone  PROVE WorkerUntouched
    BY <1>15
    DEF CloseDone, FinishSession, WakeOnClose, Running, WorkerUntouched
  <1>16. ASSUME LastReference  PROVE WorkerUntouched
    BY <1>16 DEF LastReference, Running, WorkerUntouched
  <1>17. ASSUME WorkerFinished  PROVE WorkerUntouched
    BY <1>17 DEF WorkerFinished, Gone, WorkerUntouched
  <1>18. ASSUME ConfigTimeout  PROVE WorkerUntouched
    BY <1>18
    DEF ConfigTimeout, ProtocolFailure, Requested, FinishSession, Running,
        WorkerUntouched
  <1>19. ASSUME IdleExpires  PROVE WorkerUntouched
    BY <1>19 DEF IdleExpires, WorkerUntouched
  <1>20. ASSUME ShutdownTimeout  PROVE WorkerUntouched
    BY <1>20
    DEF ShutdownTimeout, Gone, Requested, InitiateShutdown, WorkerUntouched
  <1>21. ASSUME Shutdown  PROVE WorkerUntouched
    BY <1>21
    DEF Shutdown, Gone, Requested, InitiateShutdown, Running, WorkerUntouched
  <1> QED
    BY <1>1, <1>2, <1>3, <1>4, <1>5, <1>6, <1>7, <1>8, <1>9, <1>10, <1>11,
        <1>12, <1>13, <1>14, <1>15, <1>16, <1>17, <1>18, <1>19, <1>20, <1>21
    DEF Client, Ready, Timeouts

\* r is q with m at P, which is behind all of q or the place of its last snapshot.
Placed(q, r, P, m) ==
    /\ P \in DOMAIN r /\ r[P] = m
    /\ \A i \in DOMAIN r : i # P => i \in DOMAIN q /\ r[i] = q[i]
    /\ \A i \in DOMAIN q : i # P => i \in DOMAIN r /\ r[i] = q[i]
    /\ P \in DOMAIN q => q[P].kind = "partial"
    /\ m.kind # "partial" => \A i \in DOMAIN q : i < P
    /\ m.kind = "partial" => \A i \in Positions(q, {"partial"}) : i <= P

\* The worker's message is placed so, whether it is coalesced or appended.
LEMMA EnqueuePlaced ==
    ASSUME MessagesTyped, HeldMessage, EnqueueAccepts
    PROVE  /\ Outgoing' \in Seq(Messages)
           /\ \E P \in Nat \ {0} : Placed(Outgoing, Outgoing', P, wmsg)
  <1> DEFINE past == sent \o writing
             l == Len(past)
             q == Outgoing
             o == outbound'
             r == Outgoing'
  <1>1. /\ past \in Seq(Messages) /\ l \in Nat /\ wmsg \in Messages
        /\ outbound \in Seq(Messages) /\ Len(outbound) \in Nat
    BY OutgoingParts, LenProperties
    DEF MessagesTyped, HeldMessage, EnqueueAccepts
  <1>2. /\ q \in Seq(Messages) /\ Len(q) = l + Len(outbound)
        /\ \A i \in 1 .. l : q[i] = past[i]
        /\ \A i \in 1 .. Len(outbound) : q[l + i] = outbound[i]
    BY OutgoingParts
  <1>3. r = past \o o
    BY DEF Outgoing, EnqueueAccepts, ioVars, history
  <1> HIDE DEF past, q, o
  <1>4. ASSUME o \in Seq(Messages)
        PROVE  /\ r \in Seq(Messages) /\ Len(r) = l + Len(o) /\ Len(o) \in Nat
               /\ \A i \in 1 .. l : r[i] = past[i]
               /\ \A i \in 1 .. Len(o) : r[l + i] = o[i]
    BY <1>1, <1>3, <1>4
  <1>5. \A i \in 1 .. Len(q) : i > l => i - l \in 1 .. Len(outbound) /\ i = l + (i - l)
    BY <1>1, <1>2
  <1> HIDE DEF l, r
  <1>6. CASE /\ wmsg.kind # "partial" \/ Partials(outbound) = {}
             /\ o = Append(outbound, wmsg)
    <2>1. /\ o \in Seq(Messages) /\ Len(o) = Len(outbound) + 1
          /\ \A i \in 1 .. Len(outbound) : o[i] = outbound[i]
          /\ o[Len(outbound) + 1] = wmsg
      BY <1>1, <1>6, AppendProperties
    <2> DEFINE P == l + Len(outbound) + 1
    <2>2. /\ r \in Seq(Messages) /\ Len(r) = Len(q) + 1 /\ P = Len(q) + 1
          /\ P \in Nat \ {0} /\ r[P] = wmsg
      <3>1. Len(outbound) + 1 \in 1 .. Len(o)
        BY <1>1, <2>1
      <3>2. r[l + (Len(outbound) + 1)] = o[Len(outbound) + 1]
        BY <1>4, <2>1, <3>1
      <3>3. P = l + (Len(outbound) + 1)
        BY <1>1
      <3> QED  BY <1>1, <1>2, <1>4, <2>1, <3>2, <3>3
    <2>3. ASSUME NEW i \in 1 .. Len(q)  PROVE r[i] = q[i]
      <3>1. CASE i <= l
        BY <1>1, <1>2, <1>4, <2>1, <2>3, <3>1
      <3>2. CASE i > l
        <4>1. i - l \in 1 .. Len(outbound) /\ i - l \in 1 .. Len(o) /\ i = l + (i - l)
          BY <1>1, <1>5, <2>1, <2>3, <3>2
        <4>2. r[l + (i - l)] = o[i - l] /\ q[l + (i - l)] = outbound[i - l]
          BY <1>2, <1>4, <2>1, <4>1
        <4> QED  BY <2>1, <4>1, <4>2
      <3> QED  BY <1>1, <2>3, <3>1, <3>2
    <2> HIDE DEF P
    <2>4. Placed(q, r, P, wmsg)
      BY <1>2, <2>2, <2>3 DEF Placed, Positions
    <2> QED  BY <2>2, <2>4 DEF q, r
  <1>7. CASE /\ wmsg.kind = "partial" /\ Partials(outbound) # {}
             /\ o = Coalesced(outbound, wmsg)
    <2>1. /\ o \in Seq(Messages) /\ Len(o) = Len(outbound)
      BY <1>1, <1>7, CoalescedProperty
    <2>2. PICK p \in Partials(outbound) :
              /\ \A j \in Partials(outbound) : j <= p
              /\ \A i \in 1 .. Len(outbound) :
                     o[i] = IF i = p THEN wmsg ELSE outbound[i]
      <3>1. \E p \in Partials(outbound) :
                /\ \A j \in Partials(outbound) : j <= p
                /\ \A i \in 1 .. Len(outbound) :
                       Coalesced(outbound, wmsg)[i] =
                           IF i = p THEN wmsg ELSE outbound[i]
        BY <1>1, <1>7, CoalescedProperty
      <3> QED  BY <1>7, <3>1
    <2>3. p \in 1 .. Len(outbound) /\ outbound[p].kind = "partial"
      BY <1>1 DEF Partials
    <2> DEFINE P == l + p
    <2>4. /\ r \in Seq(Messages) /\ Len(r) = Len(q) /\ P \in 1 .. Len(q)
          /\ P \in Nat \ {0} /\ r[P] = wmsg /\ q[P].kind = "partial"
      BY <1>1, <1>2, <1>4, <2>1, <2>2, <2>3
    <2>5. ASSUME NEW i \in 1 .. Len(q), i # P  PROVE r[i] = q[i]
      <3>1. CASE i <= l
        BY <1>1, <1>2, <1>4, <2>1, <2>5, <3>1
      <3>2. CASE i > l
        <4>1. i - l \in 1 .. Len(outbound) /\ i = l + (i - l) /\ i - l # p
          BY <1>1, <1>5, <2>3, <2>5, <3>2
        <4>2. r[l + (i - l)] = o[i - l] /\ q[l + (i - l)] = outbound[i - l]
          BY <1>2, <1>4, <2>1, <4>1
        <4> QED  BY <2>2, <4>1, <4>2
      <3> QED  BY <1>1, <2>5, <3>1, <3>2
    <2>6. ASSUME NEW i \in Positions(q, {"partial"})  PROVE i <= P
      <3>0. i \in 1 .. Len(q) /\ q[i].kind = "partial"
        BY <1>2, <2>6 DEF Positions
      <3>1. CASE i <= l
        BY <1>1, <2>3, <3>0, <3>1
      <3>2. CASE i > l
        <4>1. i - l \in 1 .. Len(outbound) /\ i = l + (i - l)
          BY <1>5, <3>0, <3>2
        <4>2. q[l + (i - l)] = outbound[i - l]
          BY <1>2, <4>1
        <4>3. i - l \in Partials(outbound)
          BY <1>1, <3>0, <4>1, <4>2 DEF Partials
        <4> QED  BY <1>1, <2>2, <2>3, <4>1, <4>3
      <3> QED  BY <1>1, <3>0, <3>1, <3>2
    <2> HIDE DEF P
    <2>7. Placed(q, r, P, wmsg)
      BY <1>2, <1>7, <2>4, <2>5, <2>6 DEF Placed
    <2> QED  BY <2>4, <2>7 DEF q, r
  <1> QED  BY <1>6, <1>7 DEF EnqueueAccepts, o, q, r

\* A message of a later number keeps the order.
LEMMA PlacedAscending ==
    ASSUME NEW q \in Seq(Messages), NEW r \in Seq(Messages), NEW P \in Nat,
           NEW m, Placed(q, r, P, m), NEW K, Ascending(q, K),
           m.kind \in K => \A i \in Positions(q, K) : i <= P /\ q[i].n < m.n
    PROVE  Ascending(r, K)
  <1> SUFFICES ASSUME NEW i \in Positions(r, K), NEW j \in Positions(r, K), i < j
               PROVE  r[i].n < r[j].n
    BY DEF Ascending
  <1>1. /\ i \in DOMAIN r /\ r[i].kind \in K /\ i \in Nat
        /\ j \in DOMAIN r /\ r[j].kind \in K /\ j \in Nat
    BY DEF Positions
  <1>2. r[P] = m
    BY DEF Placed
  <1>3. i # P => i \in Positions(q, K) /\ r[i] = q[i]
    BY <1>1 DEF Placed, Positions
  <1>4. j # P => j \in Positions(q, K) /\ r[j] = q[j]
    BY <1>1 DEF Placed, Positions
  <1>5. CASE i = P
    BY <1>1, <1>2, <1>4, <1>5
  <1>6. CASE j = P
    BY <1>1, <1>2, <1>3, <1>6
  <1>7. CASE i # P /\ j # P
    BY <1>3, <1>4, <1>7 DEF Ascending
  <1> QED  BY <1>5, <1>6, <1>7

\* The next token, or a message that is no token, keeps the count of the tokens.
LEMMA PlacedTokens ==
    ASSUME NEW q \in Seq(Messages), NEW r \in Seq(Messages), NEW P \in Nat,
           NEW m \in Messages, Placed(q, r, P, m), TokensCount(q),
           m.kind = "token" => m.k >= 1 /\ TokenNumbers(q) = 1 .. m.k - 1
    PROVE  /\ TokensCount(r)
           /\ TokenNumbers(r) = IF m.kind = "token" THEN 1 .. m.k
                                ELSE TokenNumbers(q)
  <1> DEFINE Q == Positions(q, {"token"})
             R == Positions(r, {"token"})
  <1>1. \A i \in R : i \in Nat /\ (i # P => i \in Q /\ r[i] = q[i])
    BY DEF Placed, Positions
  <1>2. \A i \in Q : i \in Nat /\ i # P /\ i \in R /\ r[i] = q[i]
    BY DEF Placed, Positions
  <1>3. P \in R <=> m.kind = "token"
    BY DEF Placed, Positions
  <1>4. r[P] = m /\ (m.kind = "token" => \A i \in Q : i < P) /\ m.k \in Nat
    <2>1. r[P] = m /\ (m.kind # "partial" => \A i \in DOMAIN q : i < P)
      BY DEF Placed
    <2>2. m.k \in Nat
      BY DEF Messages
    <2>3. \A i \in Q : i \in DOMAIN q
      BY DEF Positions
    <2> QED  BY <2>1, <2>2, <2>3
  <1>5. /\ \A i, j \in Q : i < j => q[i].k < q[j].k
        /\ \A i \in Q : \A c \in 1 .. q[i].k : \E j \in Q : q[j].k = c
    BY DEF TokensCount
  <1>6. TokenNumbers(q) = {q[i].k : i \in Q} /\ TokenNumbers(r) = {r[i].k : i \in R}
    BY DEF TokenNumbers
  <1>7. TokensCount(r) <=>
            /\ \A i, j \in R : i < j => r[i].k < r[j].k
            /\ \A i \in R : \A c \in 1 .. r[i].k : \E j \in R : r[j].k = c
    BY DEF TokensCount
  <1> HIDE DEF Q, R
  <1>8. CASE m.kind # "token"
    <2>1. R = Q /\ \A i \in R : r[i] = q[i]
      BY <1>1, <1>2, <1>3, <1>8
    <2> QED  BY <1>5, <1>6, <1>7, <1>8, <2>1
  <1>9. CASE m.kind = "token"
    <2>1. \A i \in Q : q[i].k \in 1 .. m.k - 1
      BY <1>6, <1>9
    <2>2. \A c \in 1 .. m.k - 1 : \E i \in Q : q[i].k = c
      BY <1>6, <1>9
    <2>3. \A c \in 1 .. m.k : \E j \in R : r[j].k = c
      <3> SUFFICES ASSUME NEW c \in 1 .. m.k  PROVE \E j \in R : r[j].k = c
        OBVIOUS
      <3>1. CASE c = m.k
        BY <1>3, <1>4, <1>9, <3>1
      <3>2. CASE c # m.k
        <4>1. c \in 1 .. m.k - 1
          BY <1>4, <3>2
        <4> QED  BY <1>2, <2>2, <4>1
      <3> QED  BY <3>1, <3>2
    <2>4. \A i \in R : r[i].k \in 1 .. m.k
      <3> SUFFICES ASSUME NEW i \in R  PROVE r[i].k \in 1 .. m.k
        OBVIOUS
      <3>1. CASE i = P
        BY <1>4, <1>9, <3>1
      <3>2. CASE i # P
        BY <1>1, <1>4, <2>1, <3>2
      <3> QED  BY <3>1, <3>2
    <2>5. \A i, j \in R : i < j => r[i].k < r[j].k
      <3> SUFFICES ASSUME NEW i \in R, NEW j \in R, i < j  PROVE r[i].k < r[j].k
        OBVIOUS
      <3>1. i # P
        BY <1>1, <1>4, <1>9
      <3>2. CASE j = P
        BY <1>1, <1>4, <2>1, <3>1, <3>2
      <3>3. CASE j # P
        BY <1>1, <1>5, <3>1, <3>3
      <3> QED  BY <3>2, <3>3
    <2>6. TokenNumbers(r) = 1 .. m.k
      BY <1>6, <2>3, <2>4
    <2>7. TokensCount(r)
      BY <1>4, <1>7, <2>3, <2>4, <2>5
    <2> QED  BY <1>9, <2>6, <2>7
  <1> QED  BY <1>8, <1>9

\* Queueing the worker's message keeps the transcript's order and its numbers.
LEMMA EnqueueNumbered ==
    ASSUME SessionConstants, Flags, Control, LeaseHeld, WorkerFlow,
           EventsQueued,
           HeldMessage, MessagesTyped, Numbered, EnqueueAccepts
    PROVE  Numbered'
  <1> DEFINE q == Outgoing
             r == Outgoing'
             m == wmsg
             T == {"token", "final", "completed"}
  <1>1. PICK P \in Nat \ {0} : Placed(q, r, P, m)
    BY EnqueuePlaced
  <1>2. q \in Seq(Messages) /\ r \in Seq(Messages) /\ m \in Messages
    BY OutgoingParts, EnqueuePlaced DEF EnqueueAccepts, HeldMessage
  <1>3. /\ UNCHANGED <<tokenEvents, closed, wphase, events, seq, tokenCount>>
        /\ ~closed /\ wpc = "enqueue" /\ wpc' = AfterEnqueue(TRUE)
    BY DEF EnqueueAccepts, ioVars, clientVars, configVars, streamVars, LeaseHeld
  <1>4. /\ m.n \in Nat /\ m.k \in Nat /\ seq \in Nat /\ tokenCount \in Nat
        /\ Len(events) \in Nat
    BY <1>2, LenProperties DEF Messages, EventsQueued, SessionConstants
  <1>5. /\ wfrom = "drain" => /\ m.kind \in {"token", "partial"}
                              /\ m.n = seq /\ m.k = tokenCount
                              /\ m.kind = "token" => tokenEvents /\ m.k >= 1
        /\ wfrom = "final" => m.kind = "final" /\ m.n = seq - 1
        /\ wfrom = "completed" => m.kind = "completed" /\ m.n = seq
        /\ wfrom \notin {"drain", "final", "completed"} => m.kind \notin Transcript
    <2>0. ASSUME wfrom = "drain"
          PROVE  /\ m.kind \in {"token", "partial"} /\ m.n = seq /\ m.k = tokenCount
                 /\ m.kind = "token" => tokenEvents /\ tokenCount >= 1
      <3>1. m.kind \in {"token", "partial"} /\ m.n = seq /\ m.k = tokenCount
        BY <1>3, <2>0 DEF HeldMessage
      <3>2. ASSUME m.kind = "token"  PROVE tokenEvents
        BY <1>3, <2>0, <3>2, Zenon DEF HeldMessage
      <3>3. ASSUME m.kind = "token"  PROVE tokenCount >= 1
        BY <1>3, <2>0, <3>3 DEF HeldMessage
      <3> QED  BY <3>1, <3>2, <3>3
    <2>1. /\ wfrom = "final" => m = FinalMessage
          /\ wfrom = "completed" => m = CompletedMessage
          /\ wfrom \notin {"drain", "final", "completed"} =>
                 m \in {Plain("warning"), Plain("cancelled"), Plain("error")}
      BY <1>3 DEF HeldMessage, Control
    <2>3. /\ Plain("warning").kind = "warning" /\ Plain("error").kind = "error"
          /\ Plain("cancelled").kind = "cancelled"
      BY DEF Plain, Message
    <2>2. /\ FinalMessage.kind = "final" /\ FinalMessage.n = seq - 1
          /\ CompletedMessage.kind = "completed" /\ CompletedMessage.n = seq
      BY DEF FinalMessage, CompletedMessage, Message
    <2> QED  BY <2>0, <2>1, <2>2, <2>3 DEF Transcript
  <1>6. \A i \in Positions(q, Transcript) :
            /\ q[i].n \in Nat /\ q[i].n <= seq
            /\ m.kind \in Transcript => q[i].n < m.n
            /\ wphase = "tail" /\ wfrom \in {"drain", "final"} =>
                   q[i].n <= seq + Len(events) - 2
    <2> SUFFICES ASSUME NEW i \in Positions(q, Transcript)
                 PROVE  /\ q[i].n \in Nat /\ q[i].n <= seq
                        /\ m.kind \in Transcript => q[i].n < m.n
                        /\ wphase = "tail" /\ wfrom \in {"drain", "final"} =>
                               q[i].n <= seq + Len(events) - 2
      OBVIOUS
    <2>1. q[i] \in Messages
      BY <1>2, ElementOfSeq DEF Positions
    <2>2. CameBefore(q[i].n)
      BY DEF Numbered
    <2> QED  BY <1>3, <1>5, <2>1, <2>2 DEF CameBefore, Messages
  <1>7. \A K \in SUBSET Transcript : \A i \in Positions(q, K) : i \in Positions(q, Transcript)
    BY DEF Positions
  <1>8. /\ wphase = "feed" => Positions(q, {"final", "completed"}) = {}
        /\ Ascending(q, {"partial"}) /\ Ascending(q, T) /\ TokensCount(q)
        /\ tokenEvents => TokenNumbers(q) = 1 .. TokensQueued
    BY <1>3 DEF Numbered, OrderKept
  <1> HIDE DEF q, r, m, T
  <1>9. wphase = "feed" => Positions(r, {"final", "completed"}) = {}
    <2> SUFFICES ASSUME wphase = "feed", NEW i \in Positions(r, {"final", "completed"})
                 PROVE  FALSE
      OBVIOUS
    <2>1. i = P \/ i \in Positions(q, {"final", "completed"})
      BY <1>1 DEF Placed, Positions
    <2>2. i # P
      BY <1>1, <1>3, <1>5 DEF Placed, Positions, WorkerFlow, Transcript, m
    <2> QED  BY <1>8, <2>1, <2>2
  <1>10. Ascending(r, {"partial"})
    <2>1. m.kind \in {"partial"} =>
              \A i \in Positions(q, {"partial"}) : i <= P /\ q[i].n < m.n
      BY <1>1, <1>6, <1>7 DEF Placed, Transcript
    <2> QED  BY <1>1, <1>2, <1>8, <2>1, PlacedAscending
  <1>11. Ascending(r, T)
    <2>1. m.kind \in T => \A i \in Positions(q, T) : i <= P /\ q[i].n < m.n
      <3>1. m.kind \in T => m.kind # "partial" /\ m.kind \in Transcript
        BY DEF T, Transcript
      <3>2. \A i \in Positions(q, T) : i \in DOMAIN q /\ i \in Positions(q, Transcript)
        BY <1>7 DEF Positions, T, Transcript
      <3>3. m.kind # "partial" => \A i \in DOMAIN q : i < P
        BY <1>1 DEF Placed
      <3>4. \A i \in DOMAIN q : i \in Nat
        BY <1>2
      <3> QED  BY <1>6, <3>1, <3>2, <3>3, <3>4
    <2> QED  BY <1>1, <1>2, <1>8, <2>1, PlacedAscending
  <1>12. /\ m.kind = "token" => wfrom = "drain" /\ tokenEvents /\ m.k = tokenCount
         /\ m.kind = "token" => TokensQueued = tokenCount - 1
         /\ m.kind # "token" => TokensQueued = tokenCount
    BY <1>3, <1>5 DEF TokensQueued, HoldsToken, Transcript, m
  <1>13. m.kind = "token" => m.k >= 1 /\ TokenNumbers(q) = 1 .. m.k - 1
    BY <1>5, <1>8, <1>12
  <1>14. /\ TokensCount(r)
         /\ TokenNumbers(r) = IF m.kind = "token" THEN 1 .. m.k ELSE TokenNumbers(q)
    BY <1>1, <1>2, <1>8, <1>13, PlacedTokens
  <1>15. TokensQueued' = tokenCount
    BY <1>3
    DEF TokensQueued, HoldsToken, AfterEnqueue, EnqueueAccepts, CompletedMessage,
        Message, Control
  <1>16. tokenEvents => TokenNumbers(r) = 1 .. tokenCount
    BY <1>8, <1>12, <1>14
  <1>17. ASSUME NEW i \in Positions(r, Transcript), NEW n, n = r[i].n
         PROVE  CameBefore(n)'
    <2>1. /\ r[i].n \in Nat /\ r[i].n <= seq
          /\ wphase = "tail" /\ wfrom = "drain" => r[i].n <= seq + Len(events) - 2
          /\ wfrom = "final" => r[i].n < seq
      <3>1. CASE i = P
        <4>1. r[i] = m /\ m.kind \in Transcript
          BY <1>1, <1>17, <3>1 DEF Placed, Positions
        <4>2. wfrom \in {"drain", "final", "completed"}
          BY <1>5, <4>1
        <4>3. wphase = "tail" /\ wfrom = "drain" => Len(events) >= 2
          BY <1>3 DEF EventsQueued
        <4> QED  BY <1>4, <1>5, <4>1, <4>2, <4>3
      <3>2. CASE i # P
        <4>1. i \in Positions(q, Transcript) /\ r[i] = q[i]
          BY <1>1, <1>17, <3>2 DEF Placed, Positions
        <4>2. wfrom = "final" => m.kind \in Transcript /\ m.n = seq - 1
          BY <1>5 DEF Transcript
        <4> QED  BY <1>4, <1>6, <4>1, <4>2
      <3> QED  BY <3>1, <3>2
    <2>2. /\ wfrom = "drain" => wpc' = "drain"
          /\ wfrom = "final" => wpc' = "enqueue" /\ wfrom' = "completed" /\ wmsg'.n = seq
          /\ wfrom \notin {"drain", "final"} => wpc' \notin {"drain", "enqueue"}
      BY <1>3
      DEF AfterEnqueue, EnqueueAccepts, CompletedMessage, Message, Control
    <2> QED  BY <1>3, <1>17, <2>1, <2>2 DEF CameBefore
  <1>18. /\ TokenNumbers(Outgoing)' = TokenNumbers(r)
         /\ TokensCount(Outgoing)' = TokensCount(r)
         /\ OrderKept' = (Ascending(r, {"partial"}) /\ Ascending(r, T))
         /\ Positions(Outgoing, {"final", "completed"})' = Positions(r, {"final", "completed"})
         /\ Positions(Outgoing, Transcript)' = Positions(r, Transcript)
    BY DEF r, T, TokenNumbers, TokensCount, OrderKept, Ascending, Positions
  <1>19. ASSUME NEW i \in Positions(Outgoing, Transcript)'
         PROVE  CameBefore(Outgoing[i].n)'
    <2>1. i \in Positions(r, Transcript)
      BY <1>18, <1>19
    <2>2. \A n : n = r[i].n => CameBefore(n)'
      BY <1>17, <2>1
    <2> QED  BY <2>2 DEF CameBefore, r
  <1> QED
    BY <1>3, <1>9, <1>10, <1>11, <1>14, <1>15, <1>16, <1>18, <1>19 DEF Numbered

\* A step of the worker keeps the transcript's order and its numbers.
LEMMA WorkerNumbered ==
    ASSUME SessionConstants, Flags, Control, LeaseHeld, WorkerFlow,
           EventsQueued,
           HeldMessage, MessagesTyped, MessagesTyped', Numbered, Worker
    PROVE  Numbered'
  <1> USE DEF configVars, audioVars, inputVars, idleVars, timerVars,
      closingVars, closeVars, pcmVars, outVars, postVars, streamVars, taskVars,
      workVars, countVars, fateVars, history, clientVars, restVars, vars,
      endVars, ioVars
  <1>1. ASSUME CreateStream  PROVE Numbered'
    BY <1>1, SameNumbered
    DEF CreateStream, Alone, TokensQueued, HoldsToken, CameBefore, HeldMessage,
        WorkerFlow, EventsQueued, Control, LeaseHeld, Running, Cancelling
  <1>2. ASSUME PopAudio  PROVE Numbered'
    BY <1>2, SameNumbered
    DEF PopAudio, TokensQueued, HoldsToken, CameBefore, HeldMessage,
        WorkerFlow, EventsQueued, Control, LeaseHeld, Running, Cancelling
  <1>3. ASSUME PopEnds  PROVE Numbered'
    BY <1>3, SameNumbered
    DEF PopEnds, TokensQueued, HoldsToken, CameBefore, HeldMessage, WorkerFlow,
        EventsQueued, Control, LeaseHeld, Running, Cancelling
  <1>4. ASSUME FeedStream  PROVE Numbered'
    BY <1>4, SameNumbered
    DEF FeedStream, Batches, Alone, TokensQueued, HoldsToken, CameBefore,
        HeldMessage, WorkerFlow, EventsQueued, Control, LeaseHeld, Running,
        Cancelling
  <1>5. ASSUME FinishStream  PROVE Numbered'
    BY <1>5, SameNumbered
    DEF FinishStream, Batches, Alone, TokensQueued, HoldsToken, CameBefore,
        HeldMessage, WorkerFlow, EventsQueued, Control, LeaseHeld, Running,
        Cancelling
  <1>6. ASSUME PollEvent  PROVE Numbered'
    <2>1. /\ UNCHANGED <<sent, writing, outbound, tokenEvents>>
          /\ closed' = closed /\ wphase' = wphase
      BY <1>6 DEF PollEvent, Alone
    <2>2. tokenEvents => TokensQueued' = TokensQueued
      BY <1>6
      DEF PollEvent, Alone, TokensQueued, HoldsToken, Enqueue, Plain, Message,
          FinalMessage, EventsQueued
    <2>3. \A n \in Nat : CameBefore(n) => CameBefore(n)'
      BY <1>6
      DEF PollEvent, Alone, CameBefore, Enqueue, Plain, Message, FinalMessage,
          Control, WorkerFlow, EventsQueued
    <2> QED  BY <2>1, <2>2, <2>3, SameNumbered
  <1>7. ASSUME DrainReturns  PROVE Numbered'
    <2>1. /\ UNCHANGED <<sent, writing, outbound, tokenEvents>>
          /\ closed' = closed /\ wphase' = wphase
      BY <1>7 DEF DrainReturns, Alone
    <2>2. tokenEvents => TokensQueued' = TokensQueued
      BY <1>7
      DEF DrainReturns, Alone, TokensQueued, HoldsToken, Enqueue, Plain,
          Message, FinalMessage, EventsQueued
    <2>3. \A n \in Nat : CameBefore(n) => CameBefore(n)'
      BY <1>7
      DEF DrainReturns, Alone, CameBefore, Enqueue, Plain, Message,
          FinalMessage, Control, WorkerFlow, EventsQueued
    <2> QED  BY <2>1, <2>2, <2>3, SameNumbered
  <1>8. ASSUME ReturnsFalse  PROVE Numbered'
    BY <1>8, SameNumbered
    DEF ReturnsFalse, Alone, TokensQueued, HoldsToken, CameBefore, HeldMessage,
        WorkerFlow, EventsQueued, Control, LeaseHeld, Running, Cancelling
  <1>9. ASSUME ObserveLag  PROVE Numbered'
    <2>1. /\ UNCHANGED <<sent, writing, outbound, tokenEvents>>
          /\ closed' = closed /\ wphase' = wphase
      BY <1>9 DEF ObserveLag
    <2>2. tokenEvents => TokensQueued' = TokensQueued
      BY <1>9
      DEF ObserveLag, TokensQueued, HoldsToken, Enqueue, Plain, Message,
          FinalMessage, EventsQueued
    <2>3. \A n \in Nat : CameBefore(n) => CameBefore(n)'
      BY <1>9
      DEF ObserveLag, CameBefore, Enqueue, Plain, Message, FinalMessage,
          Control, WorkerFlow, EventsQueued
    <2> QED  BY <2>1, <2>2, <2>3, SameNumbered
  <1>10. ASSUME EnqueueAccepts  PROVE Numbered'
    BY <1>10, EnqueueNumbered
  <1>11. ASSUME EnqueueFails  PROVE Numbered'
    BY <1>11, SameNumbered
    DEF EnqueueFails, AfterEnqueue, Alone, TokensQueued, HoldsToken,
        CameBefore, HeldMessage, WorkerFlow, EventsQueued, Control, LeaseHeld,
        Running, Cancelling
  <1>12. ASSUME EnqueueWaits  PROVE Numbered'
    BY <1>12, SameNumbered
    DEF EnqueueWaits, Alone, TokensQueued, HoldsToken, CameBefore, HeldMessage,
        WorkerFlow, EventsQueued, Control, LeaseHeld, Running, Cancelling
  <1>13. ASSUME RequestClose  PROVE Numbered'
    BY <1>13, SameNumbered
    DEF RequestClose, TokensQueued, HoldsToken, CameBefore, HeldMessage,
        WorkerFlow, EventsQueued, Control, LeaseHeld, Running, Cancelling
  <1>14. ASSUME HandleCancellation  PROVE Numbered'
    <2>1. /\ UNCHANGED <<sent, writing, outbound, tokenEvents>>
          /\ closed' = closed /\ wphase' = wphase
      BY <1>14 DEF HandleCancellation, Alone
    <2>2. tokenEvents => TokensQueued' = TokensQueued
      BY <1>14
      DEF HandleCancellation, Alone, TokensQueued, HoldsToken, Enqueue, Plain,
          Message, FinalMessage, EventsQueued
    <2>3. \A n \in Nat : CameBefore(n) => CameBefore(n)'
      BY <1>14
      DEF HandleCancellation, Alone, CameBefore, Enqueue, Plain, Message,
          FinalMessage, Control, WorkerFlow, EventsQueued
    <2> QED  BY <2>1, <2>2, <2>3, SameNumbered
  <1>15. ASSUME WorkerFailure  PROVE Numbered'
    <2>1. /\ UNCHANGED <<sent, writing, outbound, tokenEvents>>
          /\ closed' = closed /\ wphase' = wphase
      BY <1>15 DEF WorkerFailure, Alone
    <2>2. tokenEvents => TokensQueued' = TokensQueued
      BY <1>15
      DEF WorkerFailure, Alone, TokensQueued, HoldsToken, Enqueue, Plain,
          Message, FinalMessage, EventsQueued
    <2>3. \A n \in Nat : CameBefore(n) => CameBefore(n)'
      BY <1>15
      DEF WorkerFailure, Alone, CameBefore, Enqueue, Plain, Message,
          FinalMessage, Control, WorkerFlow, EventsQueued
    <2> QED  BY <2>1, <2>2, <2>3, SameNumbered
  <1>16. ASSUME ReleaseLease  PROVE Numbered'
    BY <1>16, SameNumbered
    DEF ReleaseLease, TokensQueued, HoldsToken, CameBefore, HeldMessage,
        WorkerFlow, EventsQueued, Control, LeaseHeld, Running, Cancelling
  <1>17. ASSUME WorkerExits  PROVE Numbered'
    BY <1>17, SameNumbered
    DEF WorkerExits, TokensQueued, HoldsToken, CameBefore, HeldMessage,
        WorkerFlow, EventsQueued, Control, LeaseHeld, Running, Cancelling
  <1> QED
    BY <1>1, <1>2, <1>3, <1>4, <1>5, <1>6, <1>7, <1>8, <1>9, <1>10, <1>11,
        <1>12, <1>13, <1>14, <1>15, <1>16, <1>17
    DEF Worker

\* What session.configure answers leaves the transcript empty.
LEMMA ConfigureNumbered ==
    ASSUME SessionConstants, Control, LeaseHeld, WorkerFlow, EventsQueued,
           MessagesTyped, MessagesTyped', Unconfigured, Numbered, Carried,
           ReadConfigure
    PROVE  Numbered'
  <1>1. Outgoing \in Seq(Messages) /\ Outgoing' \in Seq(Messages)
    <2>1. /\ sent' \in Seq(Messages) /\ writing' \in Seq(Messages)
          /\ outbound' \in Seq(Messages)
      BY DEF MessagesTyped
    <2>2. (sent' \o writing') \o outbound' \in Seq(Messages)
      BY <2>1, ConcatProperties
    <2> QED  BY <2>2, OutgoingParts DEF Outgoing
  <1>2. PICK p \in Nat \ {0} : Carries(Outgoing, Outgoing', p)
    BY DEF Carried
  <1>3. ~configured /\ Positions(Outgoing, Transcript) = {}
    BY DEF ReadConfigure, Unconfigured
  <1> DEFINE r == Outgoing'
  <1>4. Positions(r, Transcript) = {}
    BY <1>1, <1>2, <1>3, CarriesOnly
  <1>5. \A K \in SUBSET Transcript : Positions(r, K) = {}
    BY <1>4 DEF Positions
  <1> HIDE DEF r
  <1>6. /\ Positions(r, {"final", "completed"}) = {} /\ Positions(r, {"token"}) = {}
        /\ Positions(r, {"partial"}) = {}
        /\ Positions(r, {"token", "final", "completed"}) = {}
    BY <1>5 DEF Transcript
  <1>7. /\ Ascending(r, {"partial"}) /\ Ascending(r, {"token", "final", "completed"})
        /\ TokensCount(r) /\ TokenNumbers(r) = {}
    BY <1>6 DEF Ascending, TokensCount, TokenNumbers
  <1>8. tokenCount' = 0 /\ wpc' # "enqueue"
    BY <1>3 DEF ReadConfigure, EventsQueued, streamVars, LeaseHeld, Running
  <1>9. TokensQueued' = 0
    BY <1>8 DEF TokensQueued, HoldsToken
  <1>10. /\ TokenNumbers(Outgoing)' = TokenNumbers(r)
         /\ TokensCount(Outgoing)' = TokensCount(r)
         /\ OrderKept' = (Ascending(r, {"partial"})
                          /\ Ascending(r, {"token", "final", "completed"}))
         /\ Positions(Outgoing, {"final", "completed"})' = Positions(r, {"final", "completed"})
         /\ Positions(Outgoing, Transcript)' = Positions(r, Transcript)
    BY DEF r, TokenNumbers, TokensCount, OrderKept, Ascending, Positions
  <1>11. 1 .. 0 = {}
    OBVIOUS
  <1> QED  BY <1>4, <1>6, <1>7, <1>9, <1>10, <1>11 DEF Numbered, r

\* Every step keeps the transcript's order and its numbers.
LEMMA NumberedStep ==
    ASSUME SessionConstants, Flags, Control, LeaseHeld, WorkerFlow,
           EventsQueued,
           HeldMessage, MessagesTyped, MessagesTyped', Unconfigured, Numbered,
           [Next]_vars
    PROVE  Numbered'
  <1>1. CASE Worker
    BY <1>1, WorkerNumbered
  <1>2. CASE ReadConfigure
    <2>1. ~EnqueueAccepts
      BY <1>2
      DEF ReadConfigure, EnqueueAccepts, ioVars, clientVars, configVars,
          Control
    <2> QED  BY <1>2, <2>1, CarriedStep, ConfigureNumbered
  <1>3. CASE (Client \/ Ready \/ Timeouts \/ Shutdown) /\ ~ReadConfigure
    <2>1. WorkerUntouched
      BY <1>3, IoKeeps
    <2>2. ~EnqueueAccepts
      BY <2>1 DEF WorkerUntouched, EnqueueAccepts, AfterEnqueue, Control
    <2>3. Carried
      BY <2>2, CarriedStep
    <2> QED  BY <2>1, <2>3, CarriedNumbered DEF WorkerUntouched
  <1>4. CASE UNCHANGED vars
    <2>1. ~EnqueueAccepts
      BY <1>4
      DEF EnqueueAccepts, AfterEnqueue, Control, vars, workVars, taskVars
    <2>2. Carried
      BY <2>1, CarriedStep
    <2> QED
      BY <1>4, <2>2, CarriedNumbered
      DEF vars, workVars, taskVars, streamVars, clientVars, configVars, closeVars
  <1> QED  BY <1>1, <1>2, <1>3, <1>4 DEF Next


\* What is carried of an open session keeps what tells its end.
LEMMA CarriedTerminal ==
    ASSUME MessagesTyped, MessagesTyped', Carried, ~closed', Has(Outgoing,
           Terminal)
    PROVE  Has(Outgoing', Terminal)
  <1>1. Outgoing \in Seq(Messages) /\ Outgoing' \in Seq(Messages)
    <2>1. /\ sent' \in Seq(Messages) /\ writing' \in Seq(Messages)
          /\ outbound' \in Seq(Messages)
      BY DEF MessagesTyped
    <2>2. (sent' \o writing') \o outbound' \in Seq(Messages)
      BY <2>1, ConcatProperties
    <2> QED  BY <2>2, OutgoingParts DEF Outgoing
  <1>2. PICK p \in Nat \ {0} :
            Carries(Outgoing, Outgoing', p) /\ CarriesAll(Outgoing, Outgoing', p)
    BY DEF Carried
  <1>3. PICK j \in Positions(Outgoing, Terminal) : TRUE
    BY DEF Has, Positions
  <1>4. "partial" \notin Terminal
    BY DEF Terminal
  <1> DEFINE q == Outgoing
             r == Outgoing'
  <1>5. \E i \in Positions(r, Terminal) : r[i] = q[j]
    <2> HIDE DEF q, r
    <2>1. /\ q \in Seq(Messages) /\ r \in Seq(Messages) /\ j \in Positions(q, Terminal)
          /\ Carries(q, r, p) /\ CarriesAll(q, r, p)
      BY <1>1, <1>2 DEF q, r
    <2> QED  BY <1>4, <2>1, CarriesAllKinds
  <1> QED  BY <1>5 DEF Has, Positions

\* A terminal message at the end of the queue tells the session's end.
LEMMA AppendedTerminal ==
    ASSUME NEW past \in Seq(Messages), NEW o \in Seq(Messages), NEW m \in
           Messages,
           m.kind \in Terminal
    PROVE  Has(past \o Append(o, m), Terminal)
  <1>1. /\ Append(o, m) \in Seq(Messages) /\ Len(Append(o, m)) = Len(o) + 1
        /\ Append(o, m)[Len(o) + 1] = m
    BY AppendProperties
  <1>2. Len(past) \in Nat /\ Len(o) \in Nat
    BY LenProperties
  <1> DEFINE a == Append(o, m)
             r == past \o a
             i == Len(past) + Len(o) + 1
  <1> HIDE DEF a
  <1>3. /\ DOMAIN r = 1 .. Len(past) + Len(a)
        /\ \A k \in 1 .. Len(a) : r[Len(past) + k] = a[k]
    BY <1>1 DEF a
  <1>4. i \in DOMAIN r /\ r[i] = m
    <2>1. r[Len(past) + (Len(o) + 1)] = m
      BY <1>1, <1>2, <1>3 DEF a
    <2> HIDE DEF r
    <2> QED  BY <1>1, <1>2, <1>3, <2>1 DEF a
  <1> HIDE DEF i, r
  <1> QED  BY <1>4 DEF Has, r, a

\* The message of a failure does.
LEMMA FailureTold ==
    ASSUME SessionConstants, MessagesTyped, UNCHANGED <<sent, writing>>,
           outbound' = Append(Trimmed(outbound), Plain("error"))
    PROVE  Has(Outgoing', Terminal)
  <1>1. Plain("error") \in Messages /\ Plain("error").kind \in Terminal
    BY PlainTyped DEF MessageKinds, Plain, Message, Terminal
  <1>2. Trimmed(outbound) \in Seq(Messages) /\ sent \o writing \in Seq(Messages)
    BY TrimmedProperty, OutgoingParts
  <1>3. Outgoing' = (sent \o writing) \o Append(Trimmed(outbound), Plain("error"))
    BY DEF Outgoing
  <1> QED  BY <1>1, <1>2, <1>3, AppendedTerminal

\* A session that is no nearer its end needs nothing new to tell it.
LEMMA EndKept ==
    ASSUME EndTold, MessagesTyped, MessagesTyped', Carried,
           server' = "up" => server = "up", closed => closed', sent' = sent,
           closeStarted' => closeStarted, Ending' /\ ~closed' => Ending
    PROVE  EndTold'
  <1>1. ASSUME server' = "up", closeStarted'  PROVE Has(sent', Terminal)
    BY <1>1 DEF EndTold
  <1>2. ASSUME server' = "up", ~closed', Ending'
        PROVE  Has(Outgoing', Terminal)
    BY <1>2, CarriedTerminal DEF EndTold
  <1> QED  BY <1>1, <1>2 DEF EndTold, Has

\* The messages taken are only the more.
LEMMA TakenKeeps ==
    ASSUME MessagesTyped, Has(sent, Terminal)
    PROVE  Has(sent \o writing, Terminal)
  <1>1. /\ sent \in Seq(Messages) /\ writing \in Seq(Messages)
        /\ Len(sent) \in Nat /\ Len(writing) \in Nat
    BY LenProperties DEF MessagesTyped
  <1>2. PICK i \in 1 .. Len(sent) : sent[i].kind \in Terminal
    BY <1>1 DEF Has
  <1>3. i \in DOMAIN (sent \o writing) /\ (sent \o writing)[i] = sent[i]
    BY <1>1
  <1> QED  BY <1>2, <1>3 DEF Has

\* The next write starts the closing handshake behind the last message.
LEMMA WriteEndTold ==
    ASSUME SessionConstants, Flags, Control, LeaseHeld, EndTold,
           MessagesTyped, MessagesTyped', WriteNext,
           \/ writing = <<>> /\ sent' = sent
           \/ sent' = sent \o writing,
           UNCHANGED <<closeAfterDrain, wpc, wfrom>>
    PROVE  EndTold'
  <1>0. /\ sent \in Seq(Messages) /\ writing \in Seq(Messages)
        /\ outbound \in Seq(Messages)
    BY DEF MessagesTyped
  <1>1. sent' = sent \o writing
    BY <1>0, ConcatEmptySeq
  <1>2. Carried
    BY WriteCarried
  <1>3. server' = "up" => server = "up"
    BY DEF WriteNext, CloseTransport, FinishSession, endVars
  <1>4. closed => closed'
    BY DEF WriteNext, CloseTransport, FinishSession, endVars
  <1>5. ~closed' => reason' = reason
    BY DEF WriteNext, CloseTransport, FinishSession, endVars
  <1>6. ASSUME server' = "up", closeStarted'  PROVE Has(sent', Terminal)
    <2>1. CASE closeStarted
      BY <1>1, <1>3, <1>6, <2>1, TakenKeeps DEF EndTold
    <2>2. CASE ~closeStarted
      <3>1. ~closed /\ outbound = <<>> /\ closeAfterDrain
        BY <1>6, <2>2 DEF WriteNext, CloseTransport
      <3>2. Outgoing = sent'
        BY <1>0, <1>1, <3>1, ConcatProperties, ConcatEmptySeq DEF Outgoing
      <3>3. Has(Outgoing, Terminal)
        BY <1>3, <1>6, <3>1 DEF EndTold, Ending
      <3> QED  BY <3>2, <3>3
    <2> QED  BY <2>1, <2>2
  <1>7. ASSUME server' = "up", ~closed', Ending'
        PROVE  Has(Outgoing', Terminal)
    <2>1. Ending
      BY <1>5, <1>7 DEF Ending
    <2>2. Has(Outgoing, Terminal)
      BY <1>3, <1>4, <1>7, <2>1 DEF EndTold
    <2> QED  BY <1>2, <1>7, <2>2, CarriedTerminal
  <1> QED  BY <1>6, <1>7 DEF EndTold, Has

\* The worker's terminal message tells the end, and its others lose nothing.
LEMMA EnqueueEndTold ==
    ASSUME SessionConstants, Control, LeaseHeld, HeldMessage, EndTold,
           MessagesTyped, EnqueueAccepts
    PROVE  EndTold'
  <1> DEFINE q == Outgoing
             r == Outgoing'
  <1>1. PICK P \in Nat \ {0} : Placed(q, r, P, wmsg)
    BY EnqueuePlaced
  <1> HIDE DEF q, r
  <1>2. Has(q, Terminal) \/ wmsg.kind \in Terminal => Has(r, Terminal)
    BY <1>1 DEF Placed, Has, Terminal
  <1>3. /\ UNCHANGED <<server, closed, closeStarted, closeAfterDrain, reason, sent>>
        /\ wpc = "enqueue" /\ wpc' = AfterEnqueue(TRUE)
    BY DEF EnqueueAccepts, ioVars
  <1>4. wfrom \in {"lag", "completed", "cancelled", "error"} => wmsg.kind \in Terminal
    <2>1. wfrom \in {"lag", "completed", "cancelled", "error"} =>
              wmsg \in {Plain("error"), Plain("cancelled"), CompletedMessage}
      BY <1>3 DEF HeldMessage
    <2>2. /\ Plain("error").kind \in Terminal /\ Plain("cancelled").kind \in Terminal
          /\ CompletedMessage.kind \in Terminal
      BY DEF Plain, Message, CompletedMessage, Terminal
    <2> QED  BY <2>1, <2>2
  <1>5. Ending' => Ending \/ wfrom \in {"lag", "completed", "cancelled", "error"}
    BY <1>3 DEF Ending, AfterEnqueue, Control
  <1>6. (closeStarted' <=> closeStarted) /\ (closed' <=> closed) /\ sent' = sent
    BY <1>3
  <1>7. server' = "up" /\ ~closed' /\ Ending' => Has(r, Terminal)
    BY <1>2, <1>3, <1>4, <1>5 DEF EndTold, q
  <1>8. server' = "up" /\ closeStarted' => Has(sent', Terminal)
    BY <1>3 DEF EndTold
  <1> QED  BY <1>7, <1>8 DEF EndTold, r, Has

\* A protocol failure tells the client, or ends the session at once.
LEMMA FailureEndTold ==
    ASSUME SessionConstants, Flags, Control, EndTold, MessagesTyped,
           MessagesTyped',
           Carried, NEW why \in {"protocol"}, ProtocolFailure(why),
           UNCHANGED <<sent, writing, closeStarted>>
    PROVE  EndTold'
  <1>1. server' = "up" => server = "up"
    BY DEF ProtocolFailure, FinishSession, endVars
  <1>2. \/ closed'
        \/ outbound' = Append(Trimmed(outbound), Plain("error"))
    BY FailureKeeps
  <1>3. ~closed' => Has(Outgoing', Terminal)
    BY <1>2, FailureTold
  <1> QED  BY <1>1, <1>3 DEF EndTold, Has

\* So does a session whose worker slot is still taken.
LEMMA CreatedThenError ==
    ASSUME SessionConstants, MessagesTyped, UNCHANGED <<sent, writing>>,
           outbound' = outbound \o <<Plain("created"), Plain("error")>>
    PROVE  Has(Outgoing', Terminal)
  <1>1. /\ Plain("created") \in Messages /\ Plain("error") \in Messages
        /\ Plain("error").kind \in Terminal
    BY PlainTyped DEF MessageKinds, Plain, Message, Terminal
  <1>2. outbound \in Seq(Messages) /\ sent \o writing \in Seq(Messages)
    BY OutgoingParts DEF MessagesTyped
  <1> DEFINE c == Plain("created")
             e == Plain("error")
  <1> HIDE DEF c, e
  <1>3. outbound \o <<c, e>> = Append(Append(outbound, c), e)
    BY <1>1, <1>2 DEF c, e
  <1>4. Append(outbound, c) \in Seq(Messages)
    BY <1>1, <1>2, AppendProperties DEF c
  <1>5. Outgoing' = (sent \o writing) \o Append(Append(outbound, c), e)
    BY <1>3 DEF Outgoing, c, e
  <1> QED  BY <1>1, <1>2, <1>4, <1>5, AppendedTerminal DEF e

\* Every step but that of the worker that queues a message keeps what tells the
\* end.
LEMMA EndStep ==
    ASSUME SessionConstants, Flags, Control, LeaseHeld, WorkerFlow, EndTold,
           MessagesTyped, MessagesTyped', Carried, ~EnqueueAccepts, [Next]_vars
    PROVE  EndTold'
  <1> USE DEF configVars, audioVars, inputVars, idleVars, timerVars,
      closingVars, closeVars, pcmVars, outVars, postVars, streamVars, taskVars,
      workVars, countVars, fateVars, history, clientVars, restVars, vars,
      endVars, ioVars
  <1>1. ASSUME ReadFails  PROVE EndTold'
    BY <1>1, EndKept
    DEF ReadFails, FinishSession, Requested, WakeOnClose, Running, Ending
  <1>2. ASSUME ReadInvalid  PROVE EndTold'
    BY <1>2, FailureEndTold DEF ReadInvalid
  <1>3. ASSUME ReadConfigure  PROVE EndTold'
    <2>1. CASE outbound' # outbound \o <<Plain("created"), Plain("error")>>
      <3>1. /\ server' = "up" => server = "up"
            /\ closed => closed'
            /\ sent' = sent /\ closeStarted' = closeStarted
            /\ Ending' /\ ~closed' => Ending
        <4>1. /\ server' = "up" => server = "up"
              /\ closed => closed'
              /\ sent' = sent /\ closeStarted' = closeStarted
          BY <1>3, <2>1 DEF ReadConfigure, FinishSession
        <4>2. \/ closed'
              \/ /\ closeAfterDrain' = closeAfterDrain /\ reason' = reason
                 /\ wpc' = "create"
          BY <1>3, <2>1 DEF ReadConfigure, FinishSession
        <4>3. wpc = "none"
          BY <1>3 DEF ReadConfigure, LeaseHeld, Running
        <4> QED  BY <4>1, <4>2, <4>3 DEF Ending
      <3> QED  BY <1>3, <3>1, EndKept
    <2>2. CASE outbound' = outbound \o <<Plain("created"), Plain("error")>>
      <3>1. Has(Outgoing', Terminal)
        BY <1>3, <2>2, CreatedThenError DEF ReadConfigure
      <3>2. /\ server' = "up" => server = "up"
            /\ sent' = sent /\ closeStarted' = closeStarted
        BY <1>3 DEF ReadConfigure, FinishSession
      <3> QED  BY <3>1, <3>2 DEF EndTold, Has
    <2> QED  BY <2>1, <2>2
  <1>4. ASSUME ReadPing  PROVE EndTold'
    BY <1>4, EndKept
    DEF ReadPing, TouchIdleTimeout, CanRead, FinishSession, WakeOnClose,
        Running, Ending
  <1>5. ASSUME ReadFinish  PROVE EndTold'
    BY <1>5, EndKept DEF ReadFinish, Ending
  <1>6. ASSUME ReadCancel  PROVE EndTold'
    BY <1>6, EndKept DEF ReadCancel, TouchIdleTimeout, Requested, Ending
  <1>7. ASSUME NEW n \in FrameSizes, ReadAudio(n)  PROVE EndTold'
    BY <1>7, EndKept
    DEF ReadAudio, TouchIdleTimeout, PumpPendingAudio, Accepted, CanRead,
        Ending
  <1>8. ASSUME Accept  PROVE EndTold'
    BY <1>8, EndKept DEF Accept, CanRead, Ending
  <1>9. ASSUME AcceptFails  PROVE EndTold'
    BY <1>9, EndKept
    DEF AcceptFails, FinishSession, WakeOnClose, Running, Ending
  <1>10. ASSUME IdleHandler  PROVE EndTold'
    <2>1. CASE inputEnded
      BY <1>10, <2>1, EndKept DEF IdleHandler, Ending
    <2>2. CASE ~inputEnded
      <3>1. ProtocolFailure("protocol")
        BY <1>10, <2>2 DEF IdleHandler
      <3> QED  BY <1>10, <3>1, FailureEndTold DEF IdleHandler
    <2> QED  BY <2>1, <2>2
  <1>11. ASSUME ReadAborted  PROVE EndTold'
    BY <1>11, EndKept DEF ReadAborted, Ending
  <1>12. ASSUME InputSpace  PROVE EndTold'
    BY <1>12, EndKept
    DEF InputSpace, PumpPendingAudio, Accepted, CanRead, Ending
  <1>13. ASSUME MaybeWrite  PROVE EndTold'
    <2>1. CASE writing # <<>>
      BY <1>13, <2>1, EndKept DEF MaybeWrite, Ending
    <2>2. CASE writing = <<>>
      BY <1>13, <2>2, WriteEndTold DEF MaybeWrite
    <2> QED  BY <2>1, <2>2
  <1>14. ASSUME WriteDone  PROVE EndTold'
    BY <1>14, WriteEndTold DEF WriteDone
  <1>15. ASSUME WriteFails  PROVE EndTold'
    BY <1>15, EndKept DEF WriteFails, FinishSession, Requested, Running, Ending
  <1>16. ASSUME CloseDone  PROVE EndTold'
    BY <1>16, EndKept
    DEF CloseDone, FinishSession, WakeOnClose, Running, Ending
  <1>17. ASSUME LastReference  PROVE EndTold'
    BY <1>17, EndKept DEF LastReference, Running, Ending
  <1>18. ASSUME WorkerFinished  PROVE EndTold'
    BY <1>18, EndKept DEF WorkerFinished, Gone, Ending
  <1>19. ASSUME ConfigTimeout  PROVE EndTold'
    BY <1>19, FailureEndTold DEF ConfigTimeout
  <1>20. ASSUME IdleExpires  PROVE EndTold'
    BY <1>20, EndKept DEF IdleExpires, Ending
  <1>21. ASSUME ShutdownTimeout  PROVE EndTold'
    BY <1>21 DEF ShutdownTimeout, EndTold
  <1>22. ASSUME Shutdown  PROVE EndTold'
    BY <1>22 DEF Shutdown, EndTold
  <1>23. ASSUME CreateStream  PROVE EndTold'
    BY <1>23, EndKept
    DEF CreateStream, Alone, LeaseHeld, Cancelling, WorkerFlow, Ending
  <1>24. ASSUME PopAudio  PROVE EndTold'
    BY <1>24, EndKept DEF PopAudio, Cancelling, LeaseHeld, WorkerFlow, Ending
  <1>25. ASSUME PopEnds  PROVE EndTold'
    BY <1>25, EndKept DEF PopEnds, Cancelling, LeaseHeld, WorkerFlow, Ending
  <1>26. ASSUME FeedStream  PROVE EndTold'
    BY <1>26, EndKept
    DEF FeedStream, Cancelling, Batches, Alone, LeaseHeld, WorkerFlow, Ending
  <1>27. ASSUME FinishStream  PROVE EndTold'
    BY <1>27, EndKept
    DEF FinishStream, Cancelling, Batches, Alone, LeaseHeld, WorkerFlow, Ending
  <1>28. ASSUME PollEvent  PROVE EndTold'
    BY <1>28, EndKept
    DEF PollEvent, Cancelling, Enqueue, Alone, LeaseHeld, WorkerFlow, Ending
  <1>29. ASSUME DrainReturns  PROVE EndTold'
    BY <1>29, EndKept
    DEF DrainReturns, Cancelling, Enqueue, FinalMessage, Alone, LeaseHeld,
        WorkerFlow, Ending
  <1>30. ASSUME ReturnsFalse  PROVE EndTold'
    BY <1>30, EndKept
    DEF ReturnsFalse, Cancelling, Alone, LeaseHeld, WorkerFlow, Ending
  <1>31. ASSUME ObserveLag  PROVE EndTold'
    BY <1>31, EndKept
    DEF ObserveLag, Enqueue, Requested, LeaseHeld, Cancelling, WorkerFlow,
        Ending
  <1>32. ASSUME EnqueueFails  PROVE EndTold'
    BY <1>32, EndKept
    DEF EnqueueFails, AfterEnqueue, Alone, LeaseHeld, Cancelling, WorkerFlow,
        Ending
  <1>33. ASSUME EnqueueWaits  PROVE EndTold'
    BY <1>33, EndKept
    DEF EnqueueWaits, Alone, LeaseHeld, Cancelling, WorkerFlow, Ending
  <1>34. ASSUME RequestClose  PROVE EndTold'
    BY <1>34, EndKept
    DEF RequestClose, LeaseHeld, Cancelling, WorkerFlow, Ending
  <1>35. ASSUME HandleCancellation  PROVE EndTold'
    BY <1>35, EndKept
    DEF HandleCancellation, Enqueue, Alone, LeaseHeld, Cancelling, WorkerFlow,
        Ending
  <1>36. ASSUME WorkerFailure  PROVE EndTold'
    BY <1>36, EndKept
    DEF WorkerFailure, Cancelling, Enqueue, Alone, LeaseHeld, WorkerFlow,
        Ending
  <1>37. ASSUME ReleaseLease  PROVE EndTold'
    BY <1>37, EndKept
    DEF ReleaseLease, LeaseHeld, Cancelling, WorkerFlow, Ending
  <1>38. ASSUME WorkerExits  PROVE EndTold'
    BY <1>38, EndKept
    DEF WorkerExits, LeaseHeld, Cancelling, WorkerFlow, Ending
  <1>39. ASSUME UNCHANGED vars  PROVE EndTold'
    BY <1>39, EndKept DEF Ending
  <1> QED
    BY <1>1, <1>2, <1>3, <1>4, <1>5, <1>6, <1>7, <1>8, <1>9, <1>10, <1>11,
        <1>12, <1>13, <1>14, <1>15, <1>16, <1>17, <1>18, <1>19, <1>20, <1>21,
        <1>22, <1>23, <1>24, <1>25, <1>26, <1>27, <1>28, <1>29, <1>30, <1>31,
        <1>32, <1>33, <1>34, <1>35, <1>36, <1>37, <1>38, <1>39
    DEF Next, Client, Ready, Timeouts, Worker

\* A session is configured once.
LEMMA ConfiguredStays ==
    ASSUME configured, [Next]_vars
    PROVE  configured'
  <1> USE DEF configVars, audioVars, inputVars, idleVars, timerVars,
      closingVars, closeVars, pcmVars, outVars, postVars, streamVars, taskVars,
      workVars, countVars, fateVars, history, clientVars, restVars, vars,
      endVars, ioVars
  <1>1. ASSUME ReadFails  PROVE configured'
    BY <1>1 DEF ReadFails, FinishSession, Requested, WakeOnClose, Running
  <1>2. ASSUME ReadInvalid  PROVE configured'
    BY <1>2 DEF ReadInvalid, ProtocolFailure, Requested, FinishSession, Running
  <1>3. ASSUME ReadConfigure  PROVE configured'
    BY <1>3 DEF ReadConfigure, FinishSession, CanRead, Requested, Running
  <1>4. ASSUME ReadPing  PROVE configured'
    BY <1>4
    DEF ReadPing, TouchIdleTimeout, CanRead, FinishSession, WakeOnClose,
        Running
  <1>5. ASSUME ReadFinish  PROVE configured'
    BY <1>5 DEF ReadFinish
  <1>6. ASSUME ReadCancel  PROVE configured'
    BY <1>6 DEF ReadCancel, TouchIdleTimeout, Requested
  <1>7. ASSUME NEW n \in FrameSizes, ReadAudio(n)  PROVE configured'
    BY <1>7
    DEF ReadAudio, TouchIdleTimeout, PumpPendingAudio, Accepted, CanRead
  <1>8. ASSUME Accept  PROVE configured'
    BY <1>8 DEF Accept, CanRead
  <1>9. ASSUME AcceptFails  PROVE configured'
    BY <1>9 DEF AcceptFails, FinishSession, WakeOnClose, Running
  <1>10. ASSUME IdleHandler  PROVE configured'
    BY <1>10
    DEF IdleHandler, ProtocolFailure, Requested, FinishSession, Running
  <1>11. ASSUME ReadAborted  PROVE configured'
    BY <1>11 DEF ReadAborted
  <1>12. ASSUME InputSpace  PROVE configured'
    BY <1>12 DEF InputSpace, PumpPendingAudio, Accepted, CanRead
  <1>13. ASSUME MaybeWrite  PROVE configured'
    BY <1>13
    DEF MaybeWrite, WriteNext, WakeOnClose, CloseTransport, FinishSession,
        Running
  <1>14. ASSUME WriteDone  PROVE configured'
    BY <1>14 DEF WriteDone, WriteNext, CloseTransport, FinishSession, Running
  <1>15. ASSUME WriteFails  PROVE configured'
    BY <1>15 DEF WriteFails, FinishSession, Requested, Running
  <1>16. ASSUME CloseDone  PROVE configured'
    BY <1>16 DEF CloseDone, FinishSession, WakeOnClose, Running
  <1>17. ASSUME LastReference  PROVE configured'
    BY <1>17 DEF LastReference, Running
  <1>18. ASSUME WorkerFinished  PROVE configured'
    BY <1>18 DEF WorkerFinished, Gone
  <1>19. ASSUME ConfigTimeout  PROVE configured'
    BY <1>19
    DEF ConfigTimeout, ProtocolFailure, Requested, FinishSession, Running
  <1>20. ASSUME IdleExpires  PROVE configured'
    BY <1>20 DEF IdleExpires
  <1>21. ASSUME ShutdownTimeout  PROVE configured'
    BY <1>21 DEF ShutdownTimeout, Gone, Requested, InitiateShutdown
  <1>22. ASSUME Shutdown  PROVE configured'
    BY <1>22 DEF Shutdown, Gone, Requested, InitiateShutdown, Running
  <1>23. ASSUME CreateStream  PROVE configured'
    BY <1>23 DEF CreateStream, Alone
  <1>24. ASSUME PopAudio  PROVE configured'
    BY <1>24 DEF PopAudio, Cancelling
  <1>25. ASSUME PopEnds  PROVE configured'
    BY <1>25 DEF PopEnds, Cancelling
  <1>26. ASSUME FeedStream  PROVE configured'
    BY <1>26 DEF FeedStream, Cancelling, Batches, Alone
  <1>27. ASSUME FinishStream  PROVE configured'
    BY <1>27 DEF FinishStream, Cancelling, Batches, Alone
  <1>28. ASSUME PollEvent  PROVE configured'
    BY <1>28 DEF PollEvent, Cancelling, Enqueue, Alone
  <1>29. ASSUME DrainReturns  PROVE configured'
    BY <1>29 DEF DrainReturns, Cancelling, Enqueue, FinalMessage, Alone
  <1>30. ASSUME ReturnsFalse  PROVE configured'
    BY <1>30 DEF ReturnsFalse, Cancelling, Alone
  <1>31. ASSUME ObserveLag  PROVE configured'
    BY <1>31 DEF ObserveLag, Enqueue, Requested
  <1>32. ASSUME EnqueueAccepts  PROVE configured'
    BY <1>32 DEF EnqueueAccepts, Coalesced, AfterEnqueue, CompletedMessage
  <1>33. ASSUME EnqueueFails  PROVE configured'
    BY <1>33 DEF EnqueueFails, AfterEnqueue, Alone
  <1>34. ASSUME EnqueueWaits  PROVE configured'
    BY <1>34 DEF EnqueueWaits, Alone
  <1>35. ASSUME RequestClose  PROVE configured'
    BY <1>35 DEF RequestClose
  <1>36. ASSUME HandleCancellation  PROVE configured'
    BY <1>36 DEF HandleCancellation, Enqueue, Alone
  <1>37. ASSUME WorkerFailure  PROVE configured'
    BY <1>37 DEF WorkerFailure, Cancelling, Enqueue, Alone
  <1>38. ASSUME ReleaseLease  PROVE configured'
    BY <1>38 DEF ReleaseLease
  <1>39. ASSUME WorkerExits  PROVE configured'
    BY <1>39 DEF WorkerExits
  <1>40. ASSUME UNCHANGED vars  PROVE configured'
    BY <1>40
  <1> QED
    BY <1>1, <1>2, <1>3, <1>4, <1>5, <1>6, <1>7, <1>8, <1>9, <1>10, <1>11,
        <1>12, <1>13, <1>14, <1>15, <1>16, <1>17, <1>18, <1>19, <1>20, <1>21,
        <1>22, <1>23, <1>24, <1>25, <1>26, <1>27, <1>28, <1>29, <1>30, <1>31,
        <1>32, <1>33, <1>34, <1>35, <1>36, <1>37, <1>38, <1>39, <1>40
    DEF Next, Client, Ready, Timeouts, Worker

\* Nothing of a transcript comes before session.configure.
LEMMA UnconfiguredStep ==
    ASSUME SessionConstants, Flags, Control, LeaseHeld, MessagesTyped,
           MessagesTyped',
           Unconfigured, [Next]_vars
    PROVE  Unconfigured'
  <1> SUFFICES ASSUME ~configured'
               PROVE  Positions(Outgoing', Transcript) = {}
    BY DEF Unconfigured, Positions
  <1>1. ~configured
    BY ConfiguredStays
  <1>2. ~EnqueueAccepts
    BY <1>1 DEF EnqueueAccepts, LeaseHeld, Running
  <1>3. PICK p \in Nat \ {0} : Carries(Outgoing, Outgoing', p)
    BY <1>2, CarriedStep DEF Carried
  <1>4. Outgoing \in Seq(Messages) /\ Outgoing' \in Seq(Messages)
    <2>1. /\ sent' \in Seq(Messages) /\ writing' \in Seq(Messages)
          /\ outbound' \in Seq(Messages)
      BY DEF MessagesTyped
    <2>2. (sent' \o writing') \o outbound' \in Seq(Messages)
      BY <2>1, ConcatProperties
    <2> QED  BY <2>2, OutgoingParts DEF Outgoing
  <1>5. Positions(Outgoing, Transcript) = {}
    BY <1>1 DEF Unconfigured
  <1> DEFINE r == Outgoing'
  <1> HIDE DEF r
  <1>6. Positions(r, Transcript) = {}
    BY <1>3, <1>4, <1>5, CarriesOnly DEF r
  <1> QED  BY <1>6 DEF r

-----------------------------------------------------------------------------
(* The theorems. *)

\* The inductive invariant of a session.
IInv ==
    /\ Flags /\ Control /\ LeaseHeld /\ AudioKept /\ WorkerFlow /\ EventsQueued
    /\ MessagesTyped /\ HeldMessage /\ Unconfigured /\ Numbered /\ EndTold

\* A session that was just accepted satisfies it.
LEMMA InitIInv == ASSUME SessionConstants, Init  PROVE IInv
  <1>1. /\ sent = <<>> /\ writing = <<>> /\ outbound = <<>> /\ wpc = "none"
        /\ ~configured /\ ~closed /\ ~closeStarted /\ ~closeAfterDrain
        /\ reason = "none" /\ wphase = "feed" /\ seq = 0 /\ tokenCount = 0
        /\ events = <<>> /\ ~tokenEvents
    BY DEF Init
  <1>2. Flags
    BY DEF Init, Flags
  <1>3. Control
    BY DEF Init, Control, Reasons, SessionConstants
  <1>4. LeaseHeld
    BY DEF Init, LeaseHeld, LeaseNotLeaked, Gone, Running
  <1>5. AudioKept
    BY DEF Init, AudioKept, FramesNotDropped, Cancelling, SessionConstants
  <1>6. WorkerFlow
    BY DEF Init, WorkerFlow, Cancelling
  <1>7. EventsQueued
    BY DEF Init, EventsQueued, SessionConstants
  <1>8. MessagesTyped
    BY DEF Init, MessagesTyped, SessionConstants
  <1>9. HeldMessage
    BY <1>1 DEF HeldMessage
  <1>10. Outgoing = <<>> /\ DOMAIN Outgoing = {}
    BY <1>1 DEF Outgoing
  <1>11. \A K : Positions(Outgoing, K) = {}
    BY <1>10 DEF Positions
  <1>12. Unconfigured
    BY <1>11 DEF Unconfigured
  <1>13. Numbered
    BY <1>1, <1>11 DEF Numbered, OrderKept, Ascending, TokensCount
  <1>14. EndTold
    BY <1>1 DEF EndTold, Ending
  <1> QED
    BY <1>2, <1>3, <1>4, <1>5, <1>6, <1>7, <1>8, <1>9, <1>12, <1>13, <1>14
    DEF IInv

\* Every step keeps it.
LEMMA NextIInv == ASSUME SessionConstants, IInv, [Next]_vars  PROVE IInv'
  <1>1. Flags'
    BY FlagsStep DEF IInv
  <1>2. Control'
    BY ControlStep DEF IInv
  <1>3. LeaseHeld'
    BY LeaseStep DEF IInv
  <1>4. AudioKept'
    BY AudioStep DEF IInv
  <1>5. WorkerFlow'
    BY FlowStep DEF IInv
  <1>6. EventsQueued'
    BY EventsStep DEF IInv
  <1>7. HeldMessage'
    BY HeldStep DEF IInv
  <1>8. MessagesTyped'
    BY <1>7, MessagesStep DEF IInv
  <1>9. Unconfigured'
    BY <1>8, UnconfiguredStep DEF IInv
  <1>10. Numbered'
    BY <1>8, NumberedStep DEF IInv
  <1>11. EndTold'
    <2>1. CASE EnqueueAccepts
      BY <2>1, EnqueueEndTold DEF IInv
    <2>2. CASE ~EnqueueAccepts
      <3>1. Carried
        BY <2>2, CarriedStep DEF IInv
      <3> QED  BY <1>8, <2>2, <3>1, EndStep DEF IInv
    <2> QED  BY <2>1, <2>2
  <1> QED
    BY <1>1, <1>2, <1>3, <1>4, <1>5, <1>6, <1>7, <1>8, <1>9, <1>10, <1>11
    DEF IInv

\* The session's handlers and its worker keep the invariant wherever they
\* interleave.
THEOREM Inductive == Spec => []IInv
  <1>1. Init => IInv
    BY InitIInv, SessionConstants
  <1>2. IInv /\ [Next]_vars => IInv'
    BY NextIInv, SessionConstants
  <1> QED  BY <1>1, <1>2, PTL DEF Spec

\* The session's state keeps its type; the outbound queue and the PCM queue keep
\* their bounds.
THEOREM TypeCorrect == Spec => []TypeOK
  <1>1. IInv => TypeOK
    <2> SUFFICES ASSUME IInv  PROVE TypeOK
      OBVIOUS
    <2>1. /\ queued \in 0 .. Capacity
          /\ {pending, received, fed} \subseteq 0 .. MaxAudio
      BY SessionConstants DEF IInv, AudioKept, SessionConstants
    <2>2. /\ \A i \in DOMAIN outbound : outbound[i] \in Messages
          /\ \A i \in DOMAIN writing : writing[i] \in Messages
          /\ Len(writing) <= 1 /\ Len(outbound) + Len(writing) <= MaxOut
          /\ wmsg \in Messages \cup {NoMessage}
      BY DEF IInv, MessagesTyped
    <2>3. seq \in 0 .. MaxSeq + 3 /\ tokenCount \in 0 .. MaxSeq
      <3>1. events \in Seq({"token", "partial", "error", "final", "completed"})
        BY DEF IInv, EventsQueued
      <3>2. Len(events) \in Nat
        BY <3>1, LenProperties
      <3> QED
        BY <3>2, SessionConstants
        DEF IInv, EventsQueued, Control, SessionConstants
    <2>4. Flags /\ Control
      BY DEF IInv
    <2>5. \A b \in {accepted, configured, tokenEvents, partialEvents, inputEnded,
                    reading, configTimer, idleTimer, idleDue, closed, closeStarted,
                    closeAfterDrain, pcmFinishing, pcmCancelled, outboundClosed,
                    postedWrite, postedSpace, postedDone, asleep, stalled,
                    clientCancelled, broken, destroyed} : b \in BOOLEAN
      BY <2>4 DEF Flags
    <2> QED  BY <2>1, <2>2, <2>3, <2>4, <2>5 DEF TypeOK, Control
  <1> QED  BY <1>1, Inductive, PTL

\* What the session reads reaches the stream, all of it before a final transcript
\* (pump_pending_audio, PcmQueue::push_some and pop, inference_worker).
THEOREM InputKept == Spec => []InputNotLost
  <1>1. IInv => InputNotLost
    <2> SUFFICES ASSUME IInv  PROVE InputNotLost
      OBVIOUS
    <2>1. FramesNotDropped
      BY DEF IInv, AudioKept
    <2>2. ASSUME Has(Outgoing, {"final", "completed"})  PROVE fed = received
      <3>1. Positions(Outgoing, {"final", "completed"}) # {}
        BY <2>2 DEF Has, Positions
      <3>2. wphase = "tail"
        BY <3>1 DEF IInv, Numbered, Control
      <3> QED  BY <3>2 DEF IInv, AudioKept
    <2> QED  BY <2>1, <2>2 DEF InputNotLost, FinalCoversInput
  <1> QED  BY <1>1, Inductive, PTL

\* What the stream produces reaches the client's queue, each token once and in
\* order (enqueue_from_worker, enqueue_from_io, remove_optional_partial_locked).
THEOREM OutputKept == Spec => []OutputNotLost
  <1>1. IInv => OutputNotLost
    <2> SUFFICES ASSUME IInv  PROVE OutputNotLost
      OBVIOUS
    <2>1. OrderKept /\ TokensCount(Outgoing)
      BY DEF IInv, Numbered
    <2>2. ASSUME tokenEvents, ~outboundClosed
          PROVE  TokenNumbers(Outgoing) = 1 .. TokensQueued
      BY <2>2 DEF IInv, Numbered, LeaseHeld
    <2> QED
      BY <2>1, <2>2
      DEF OutputNotLost, TokensNotLost, TokenNumbers, TokensQueued
  <1> QED  BY <1>1, Inductive, PTL

\* A cancelled session never produces a final transcript, wherever its worker is
\* when session.cancel is read (handle_control).
THEOREM NoFinalAfterCancel == Spec => []CancelWithoutFinal
  <1>1. IInv => CancelWithoutFinal
    <2> SUFFICES ASSUME IInv, clientCancelled, Has(Outgoing, {"final", "completed"})
                 PROVE  FALSE
      BY DEF CancelWithoutFinal
    <2>1. Positions(Outgoing, {"final", "completed"}) # {}
      BY DEF Has, Positions
    <2>2. wphase = "feed"
      BY DEF IInv, AudioKept
    <2> QED  BY <2>1, <2>2 DEF IInv, Numbered
  <1> QED  BY <1>1, Inductive, PTL

\* A session leaves nothing open when it ends: the client was told why, the lease
\* is free or with a running worker (request_close_after_drain, finish_session).
THEOREM CleanEnd == Spec => []EndsCleanly
  <1>1. IInv => EndsCleanly
    BY DEF IInv, EndTold, Terminal, LeaseHeld, EndsCleanly, CloseAfterTerminal
  <1> QED  BY <1>1, Inductive, PTL

=============================================================================
