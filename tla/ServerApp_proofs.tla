-------------------------- MODULE ServerApp_proofs --------------------------
(***************************************************************************)
(* Proofs about the server around its sessions, for every finite set of    *)
(* connections.  The invariant says whose the lease, the token, the result *)
(* and the answer are, and which sessions the server still knows.          *)
(***************************************************************************)
EXTENDS ServerApp, TLAPS

-----------------------------------------------------------------------------
(* The inductive invariant. *)

\* Which stages a connection's lease, result and answer belong to.
StagesAgree ==
    \A c \in Conns :
        /\ lease[c] = "worker" => stage[c] \in {"batch", "realtime", "ended"}
        /\ outcome[c] # "none" => stage[c] = "batch"
        /\ outcome[c] # "none" /\ owner = c => wpc \notin {"task", "release", "post"}
        /\ sent[c] # "none" => stage[c] \in {"writing", "over"}
        /\ stage[c] = "writing" => sent[c] # "none"

\* The worker's result is the result of a batch.
ResultOfBatch ==
    /\ wpc = "release" /\ wresult # "none" => stage[owner] = "batch"
    /\ wpc = "post" => stage[owner] = "batch"

\* A served connection is registered until it is closed, and a closed one is not;
\* once the server stops, only sessions that will still unregister are left.
SessionsRegistered ==
    \A c \in Conns :
        /\ closed[c] => c \notin sessions
        /\ closed[c] \/ c \in sessions => stage[c] \notin {"none", "accepted"}
        /\ stage[c] \in {"reading", "batch", "writing", "realtime"} =>
               c \in sessions \/ closed[c]
        /\ server # "up" /\ c \in sessions => stage[c] \in {"reading", "writing", "realtime"}

\* Where a cancellation comes from.
CancelHasCause ==
    /\ \A c \in Conns :
        /\ token[c] = "shutdown" => server # "up"
        /\ token[c] = "disconnect" => closed[c]
        /\ token[c] = "disconnect" /\ stage[c] = "batch" => stirred[c]
        /\ watch[c] = "ready" => stirred[c]
        /\ closed[c] /\ stage[c] = "reading" => server # "up"
        /\ closed[c] /\ stage[c] = "batch" => stirred[c] \/ server # "up"
        /\ outcome[c] = "cancelled" => token[c] # "none"
    /\ wresult = "cancelled" /\ wpc \in {"release", "post"} => token[owner] # "none"

IInv == /\ TypeOK /\ OneEngineUser /\ ShutdownReachesHolder /\ ShutdownNotLost
        /\ AnsweredForItself
        /\ StagesAgree /\ ResultOfBatch /\ SessionsRegistered /\ CancelHasCause

-----------------------------------------------------------------------------
(* What the shared steps of the handlers do. *)

\* Closing a session unregisters it, and may only end a shutdown that waits.
LEMMA CloseProperty ==
    ASSUME TypeOK, NEW c \in Conns, Close(c)
    PROVE  /\ closed' \in [Conns -> BOOLEAN] /\ closed'[c]
           /\ sessions' \subseteq Conns
           /\ server' \in {"up", "stopping", "stopped", "exited"}
  BY DEF TypeOK, Close, Settled

\* Acquiring or releasing a lease keeps the types of the manager's state.
LEMMA LeaseProperty ==
    ASSUME TypeOK, NEW c \in Conns,
           \/ Acquired(c, "batch", "worker")
           \/ Acquired(c, "realtime", "session")
           \/ Released(c) /\ token' \in [Conns -> Reasons]
    PROVE  /\ mode' \in {"free", "batch", "realtime", "shutdown"}
           /\ active' \in Conns \cup {Nobody}
           /\ lease' \in [Conns -> {"none", "session", "worker"}]
           /\ token' \in [Conns -> Reasons]
  BY DEF TypeOK, Acquired, Released, ModeAfter, Reasons

\* Telling the sessions keeps the types and leaves only realtime sessions.
LEMMA TellProperty ==
    ASSUME TypeOK, TellSessions
    PROVE  /\ closed' \in [Conns -> BOOLEAN]
           /\ watch' \in [Conns -> {"off", "armed", "ready", "aborted"}]
           /\ sessions' = { c \in sessions : Alive(c) /\ stage[c] = "realtime" }
           /\ token' \in [Conns -> Reasons]
           /\ \A c \in Conns :
                closed'[c] <=> closed[c] \/ (c \in sessions /\ Alive(c) /\ stage[c] # "realtime")
  <1>1. closed' \in [Conns -> BOOLEAN] /\ watch' \in [Conns -> {"off", "armed", "ready", "aborted"}]
    BY DEF TypeOK, TellSessions, Aborted
  <1>2. token' \in [Conns -> Reasons]
    BY DEF TypeOK, TellSessions, Requested, Reasons
  <1>3. sessions' = { c \in sessions : Alive(c) /\ stage[c] = "realtime" }
    BY DEF TellSessions
  <1>4. \A c \in Conns :
          closed'[c] <=> closed[c] \/ (c \in sessions /\ Alive(c) /\ stage[c] # "realtime")
    BY DEF TypeOK, TellSessions
  <1> QED  BY <1>1, <1>2, <1>3, <1>4

-----------------------------------------------------------------------------
(* Every step keeps the invariant: one lemma for each of its parts. *)

\* Every handler and every step of the worker keeps the types.
LEMMA TypeStep ==
    ASSUME IInv, [Next]_vars
    PROVE  TypeOK'
  <1> USE ServerAssumption DEF IInv, TypeOK, vars, appVars, leaseVars, connVars,
          workerVars
  <1>1. ASSUME NEW c \in Conns, Connect(c)  PROVE TypeOK'
    BY <1>1 DEF Connect
  <1>2. ASSUME NEW c \in Conns, OnAccept(c)  PROVE TypeOK'
    BY <1>2 DEF OnAccept, IoRuns
  <1>3. ASSUME NEW c \in Conns, ReadFails(c)  PROVE TypeOK'
    BY <1>3, CloseProperty DEF ReadFails
  <1>4. ASSUME NEW c \in Conns, ReadOther(c)  PROVE TypeOK'
    BY <1>4 DEF ReadOther, IoRuns, Respond
  <1>5. ASSUME NEW c \in Conns, ReadRefused(c)  PROVE TypeOK'
    BY <1>5 DEF ReadRefused, IoRuns, Respond
  <1>6. ASSUME NEW c \in Conns, ReadBatch(c)  PROVE TypeOK'
    BY <1>6, LeaseProperty DEF ReadBatch, Launched, JoinOld
  <1>7. ASSUME NEW c \in Conns, ReadBatchUnstarted(c)  PROVE TypeOK'
    BY <1>7 DEF ReadBatchUnstarted, IoRuns, Respond, StartThrows, JoinOld, Running
  <1>8. ASSUME NEW c \in Conns, ReadRealtime(c)  PROVE TypeOK'
    BY <1>8, LeaseProperty DEF ReadRealtime
  <1>9. ASSUME NEW c \in Conns, WriteEnds(c)  PROVE TypeOK'
    BY <1>9, CloseProperty DEF WriteEnds
  <1>10. ASSUME NEW c \in Conns, ClientStirs(c)  PROVE TypeOK'
    BY <1>10 DEF ClientStirs
  <1>11. ASSUME NEW c \in Conns, OnWatch(c)  PROVE TypeOK'
    <2>1. CASE stage[c] = "batch"
      BY <1>11, <2>1, CloseProperty DEF OnWatch, Requested, Reasons
    <2>2. CASE stage[c] # "batch"
      BY <1>11, <2>2 DEF OnWatch
    <2> QED  BY <2>1, <2>2
  <1>12. ASSUME NEW c \in Conns, OnWatchAborted(c)  PROVE TypeOK'
    BY <1>12 DEF OnWatchAborted, IoRuns
  <1>13. ASSUME NEW c \in Conns, OnBatchResult(c)  PROVE TypeOK'
    <2>1. CASE Close(c)
      BY <1>13, <2>1, CloseProperty DEF OnBatchResult, Aborted, Respond
    <2>2. CASE UNCHANGED << server, sessions, closed >>
      BY <1>13, <2>2 DEF OnBatchResult, Aborted, Respond
    <2> QED  BY <1>13, <2>1, <2>2 DEF OnBatchResult
  <1>14. ASSUME NEW c \in Conns, RtConfigure(c)  PROVE TypeOK'
    BY <1>14 DEF RtConfigure, IoRuns, Launched, JoinOld, StartThrows, Released, ModeAfter, Running
  <1>15. ASSUME NEW c \in Conns, RtFinish(c)  PROVE TypeOK'
    <2>1. CASE lease[c] = "session"
      <3>1. token' \in [Conns -> Reasons]
        BY <1>15, <2>1 DEF RtFinish, Requested, Reasons
      <3> QED  BY <1>15, <2>1, <3>1, CloseProperty, LeaseProperty DEF RtFinish
    <2>2. CASE lease[c] # "session"
      BY <1>15, <2>2, CloseProperty DEF RtFinish
    <2> QED  BY <2>1, <2>2
  <1>16. ASSUME NEW c \in Conns, RtVanish(c)  PROVE TypeOK'
    BY <1>16 DEF RtVanish
  <1>17. ASSUME WorkerFinished  PROVE TypeOK'
    BY <1>17 DEF WorkerFinished, IoRuns, Settled
  <1>18. ASSUME InitiateShutdown  PROVE TypeOK'
    BY <1>18, TellProperty DEF InitiateShutdown
  <1>19. ASSUME ForceShutdown  PROVE TypeOK'
    BY <1>19, TellProperty DEF ForceShutdown
  <1>20. ASSUME MainExits  PROVE TypeOK'
    BY <1>20 DEF MainExits
  <1>21. ASSUME TaskEnds  PROVE TypeOK'
    BY <1>21 DEF TaskEnds
  <1>22. ASSUME ReleaseLease  PROVE TypeOK'
    BY <1>22 DEF ReleaseLease, Released, ModeAfter
  <1>23. ASSUME PostResult  PROVE TypeOK'
    BY <1>23 DEF PostResult
  <1>24. ASSUME FreeSlot  PROVE TypeOK'
    BY <1>24 DEF FreeSlot
  <1>25. ASSUME Notify  PROVE TypeOK'
    BY <1>25 DEF Notify
  <1>26. ASSUME ThreadEnds  PROVE TypeOK'
    BY <1>26 DEF ThreadEnds
  <1>27. ASSUME UNCHANGED vars  PROVE TypeOK'
    BY <1>27
  <1> QED
    BY <1>1, <1>2, <1>3, <1>4, <1>5, <1>6, <1>7, <1>8, <1>9, <1>10, <1>11, <1>12,
        <1>13, <1>14, <1>15, <1>16, <1>17, <1>18, <1>19, <1>20, <1>21, <1>22, <1>23,
        <1>24, <1>25, <1>26, <1>27 DEF Next, Peers, Ready, Worker

\* The lease, the manager's mode and the task stay with one connection: a lease is
\* acquired only when the mode is free, and given back by whoever holds it.
LEMMA EngineStep ==
    ASSUME IInv, [Next]_vars
    PROVE  OneEngineUser'
  <1> USE ServerAssumption DEF IInv, TypeOK, OneEngineUser, Holders, ModeOf,
          StagesAgree, ResultOfBatch, vars, appVars, leaseVars, connVars, workerVars
  <1>1. ASSUME NEW c \in Conns, Connect(c)  PROVE OneEngineUser'
    BY <1>1 DEF Connect
  <1>2. ASSUME NEW c \in Conns, OnAccept(c)  PROVE OneEngineUser'
    BY <1>2 DEF OnAccept, IoRuns
  <1>3. ASSUME NEW c \in Conns, ReadFails(c)  PROVE OneEngineUser'
    BY <1>3 DEF ReadFails, IoRuns, Close, Settled
  <1>4. ASSUME NEW c \in Conns, ReadOther(c)  PROVE OneEngineUser'
    BY <1>4 DEF ReadOther, IoRuns, Respond
  <1>5. ASSUME NEW c \in Conns, ReadRefused(c)  PROVE OneEngineUser'
    BY <1>5 DEF ReadRefused, IoRuns, Respond
  <1>6. ASSUME NEW c \in Conns, ReadBatch(c)  PROVE OneEngineUser'
    BY <1>6 DEF ReadBatch, IoRuns, Acquired, Launched, JoinOld, Running
  <1>7. ASSUME NEW c \in Conns, ReadBatchUnstarted(c)  PROVE OneEngineUser'
    BY <1>7 DEF ReadBatchUnstarted, IoRuns, Respond, StartThrows, JoinOld, Running
  <1>8. ASSUME NEW c \in Conns, ReadRealtime(c)  PROVE OneEngineUser'
    BY <1>8 DEF ReadRealtime, IoRuns, Acquired
  <1>9. ASSUME NEW c \in Conns, WriteEnds(c)  PROVE OneEngineUser'
    BY <1>9 DEF WriteEnds, IoRuns, Close, Settled
  <1>10. ASSUME NEW c \in Conns, ClientStirs(c)  PROVE OneEngineUser'
    BY <1>10 DEF ClientStirs
  <1>11. ASSUME NEW c \in Conns, OnWatch(c)  PROVE OneEngineUser'
    BY <1>11 DEF OnWatch, IoRuns, Close, Settled, Requested
  <1>12. ASSUME NEW c \in Conns, OnWatchAborted(c)  PROVE OneEngineUser'
    BY <1>12 DEF OnWatchAborted, IoRuns
  <1>13. ASSUME NEW c \in Conns, OnBatchResult(c)  PROVE OneEngineUser'
    BY <1>13 DEF OnBatchResult, IoRuns, Aborted, Respond, Close, Settled
  <1>14. ASSUME NEW c \in Conns, RtConfigure(c)  PROVE OneEngineUser'
    BY <1>14 DEF RtConfigure, IoRuns, Launched, JoinOld, StartThrows, Released, ModeAfter, Running
  <1>15. ASSUME NEW c \in Conns, RtFinish(c)  PROVE OneEngineUser'
    BY <1>15 DEF RtFinish, IoRuns, Close, Settled, Released, ModeAfter, Requested
  <1>16. ASSUME NEW c \in Conns, RtVanish(c)  PROVE OneEngineUser'
    BY <1>16 DEF RtVanish
  <1>17. ASSUME WorkerFinished  PROVE OneEngineUser'
    BY <1>17 DEF WorkerFinished, IoRuns, Settled
  <1>18. ASSUME InitiateShutdown  PROVE OneEngineUser'
    BY <1>18 DEF InitiateShutdown, TellSessions, Aborted, Requested, Running
  <1>19. ASSUME ForceShutdown  PROVE OneEngineUser'
    BY <1>19 DEF ForceShutdown, TellSessions, Aborted, Requested
  <1>20. ASSUME MainExits  PROVE OneEngineUser'
    BY <1>20 DEF MainExits
  <1>21. ASSUME TaskEnds  PROVE OneEngineUser'
    BY <1>21 DEF TaskEnds
  <1>22. ASSUME ReleaseLease  PROVE OneEngineUser'
    BY <1>22 DEF ReleaseLease, Released, ModeAfter
  <1>23. ASSUME PostResult  PROVE OneEngineUser'
    BY <1>23 DEF PostResult
  <1>24. ASSUME FreeSlot  PROVE OneEngineUser'
    BY <1>24 DEF FreeSlot
  <1>25. ASSUME Notify  PROVE OneEngineUser'
    BY <1>25 DEF Notify
  <1>26. ASSUME ThreadEnds  PROVE OneEngineUser'
    BY <1>26 DEF ThreadEnds
  <1>27. ASSUME UNCHANGED vars  PROVE OneEngineUser'
    BY <1>27
  <1> QED
    BY <1>1, <1>2, <1>3, <1>4, <1>5, <1>6, <1>7, <1>8, <1>9, <1>10, <1>11, <1>12,
        <1>13, <1>14, <1>15, <1>16, <1>17, <1>18, <1>19, <1>20, <1>21, <1>22, <1>23,
        <1>24, <1>25, <1>26, <1>27 DEF Next, Peers, Ready, Worker

\* Nobody acquires a lease once the server stops, and who holds one was told.
LEMMA HolderStep ==
    ASSUME IInv, [Next]_vars
    PROVE  ShutdownReachesHolder'
  <1> USE ServerAssumption DEF IInv, TypeOK, OneEngineUser, ShutdownReachesHolder,
          Holders, ModeOf, StagesAgree, vars, appVars, leaseVars, connVars, workerVars
  <1>1. ASSUME NEW c \in Conns, Connect(c)  PROVE ShutdownReachesHolder'
    BY <1>1 DEF Connect
  <1>2. ASSUME NEW c \in Conns, OnAccept(c)  PROVE ShutdownReachesHolder'
    BY <1>2 DEF OnAccept, IoRuns
  <1>3. ASSUME NEW c \in Conns, ReadFails(c)  PROVE ShutdownReachesHolder'
    BY <1>3 DEF ReadFails, IoRuns, Close, Settled
  <1>4. ASSUME NEW c \in Conns, ReadOther(c)  PROVE ShutdownReachesHolder'
    BY <1>4 DEF ReadOther, IoRuns, Respond
  <1>5. ASSUME NEW c \in Conns, ReadRefused(c)  PROVE ShutdownReachesHolder'
    BY <1>5 DEF ReadRefused, IoRuns, Respond
  <1>6. ASSUME NEW c \in Conns, ReadBatch(c)  PROVE ShutdownReachesHolder'
    BY <1>6 DEF ReadBatch, IoRuns, Acquired, Launched, JoinOld, Running
  <1>7. ASSUME NEW c \in Conns, ReadBatchUnstarted(c)  PROVE ShutdownReachesHolder'
    BY <1>7 DEF ReadBatchUnstarted, IoRuns, Respond, StartThrows, JoinOld, Running
  <1>8. ASSUME NEW c \in Conns, ReadRealtime(c)  PROVE ShutdownReachesHolder'
    BY <1>8 DEF ReadRealtime, IoRuns, Acquired
  <1>9. ASSUME NEW c \in Conns, WriteEnds(c)  PROVE ShutdownReachesHolder'
    BY <1>9 DEF WriteEnds, IoRuns, Close, Settled
  <1>10. ASSUME NEW c \in Conns, ClientStirs(c)  PROVE ShutdownReachesHolder'
    BY <1>10 DEF ClientStirs
  <1>11. ASSUME NEW c \in Conns, OnWatch(c)  PROVE ShutdownReachesHolder'
    BY <1>11 DEF OnWatch, IoRuns, Close, Settled, Requested
  <1>12. ASSUME NEW c \in Conns, OnWatchAborted(c)  PROVE ShutdownReachesHolder'
    BY <1>12 DEF OnWatchAborted, IoRuns
  <1>13. ASSUME NEW c \in Conns, OnBatchResult(c)  PROVE ShutdownReachesHolder'
    BY <1>13 DEF OnBatchResult, IoRuns, Aborted, Respond, Close, Settled
  <1>14. ASSUME NEW c \in Conns, RtConfigure(c)  PROVE ShutdownReachesHolder'
    BY <1>14 DEF RtConfigure, IoRuns, Launched, JoinOld, StartThrows, Released, ModeAfter, Running
  <1>15. ASSUME NEW c \in Conns, RtFinish(c)  PROVE ShutdownReachesHolder'
    BY <1>15 DEF RtFinish, IoRuns, Close, Settled, Released, ModeAfter, Requested
  <1>16. ASSUME NEW c \in Conns, RtVanish(c)  PROVE ShutdownReachesHolder'
    BY <1>16 DEF RtVanish
  <1>17. ASSUME WorkerFinished  PROVE ShutdownReachesHolder'
    BY <1>17 DEF WorkerFinished, IoRuns, Settled
  <1>18. ASSUME InitiateShutdown  PROVE ShutdownReachesHolder'
    BY <1>18 DEF InitiateShutdown, TellSessions, Aborted, Requested, Running
  <1>19. ASSUME ForceShutdown  PROVE ShutdownReachesHolder'
    BY <1>19 DEF ForceShutdown, TellSessions, Aborted, Requested
  <1>20. ASSUME MainExits  PROVE ShutdownReachesHolder'
    BY <1>20 DEF MainExits
  <1>21. ASSUME TaskEnds  PROVE ShutdownReachesHolder'
    BY <1>21 DEF TaskEnds
  <1>22. ASSUME ReleaseLease  PROVE ShutdownReachesHolder'
    BY <1>22 DEF ReleaseLease, Released, ModeAfter
  <1>23. ASSUME PostResult  PROVE ShutdownReachesHolder'
    BY <1>23 DEF PostResult
  <1>24. ASSUME FreeSlot  PROVE ShutdownReachesHolder'
    BY <1>24 DEF FreeSlot
  <1>25. ASSUME Notify  PROVE ShutdownReachesHolder'
    BY <1>25 DEF Notify
  <1>26. ASSUME ThreadEnds  PROVE ShutdownReachesHolder'
    BY <1>26 DEF ThreadEnds
  <1>27. ASSUME UNCHANGED vars  PROVE ShutdownReachesHolder'
    BY <1>27
  <1> QED
    BY <1>1, <1>2, <1>3, <1>4, <1>5, <1>6, <1>7, <1>8, <1>9, <1>10, <1>11, <1>12,
        <1>13, <1>14, <1>15, <1>16, <1>17, <1>18, <1>19, <1>20, <1>21, <1>22, <1>23,
        <1>24, <1>25, <1>26, <1>27 DEF Next, Peers, Ready, Worker

\* A result belongs to a batch that has released its lease, and an answer to a
\* session that writes it.
LEMMA StagesStep ==
    ASSUME IInv, [Next]_vars
    PROVE  (StagesAgree /\ ResultOfBatch)'
  <1> USE ServerAssumption DEF IInv, TypeOK, OneEngineUser, Holders, StagesAgree,
          ResultOfBatch, vars, appVars, leaseVars, connVars, workerVars
  <1>1. ASSUME NEW c \in Conns, Connect(c)  PROVE (StagesAgree /\ ResultOfBatch)'
    BY <1>1 DEF Connect
  <1>2. ASSUME NEW c \in Conns, OnAccept(c)  PROVE (StagesAgree /\ ResultOfBatch)'
    BY <1>2 DEF OnAccept, IoRuns
  <1>3. ASSUME NEW c \in Conns, ReadFails(c)  PROVE (StagesAgree /\ ResultOfBatch)'
    BY <1>3 DEF ReadFails, IoRuns, Close, Settled
  <1>4. ASSUME NEW c \in Conns, ReadOther(c)  PROVE (StagesAgree /\ ResultOfBatch)'
    BY <1>4 DEF ReadOther, IoRuns, Respond
  <1>5. ASSUME NEW c \in Conns, ReadRefused(c)  PROVE (StagesAgree /\ ResultOfBatch)'
    BY <1>5 DEF ReadRefused, IoRuns, Respond
  <1>6. ASSUME NEW c \in Conns, ReadBatch(c)  PROVE (StagesAgree /\ ResultOfBatch)'
    BY <1>6 DEF ReadBatch, IoRuns, Acquired, Launched, JoinOld, Running
  <1>7. ASSUME NEW c \in Conns, ReadBatchUnstarted(c)  PROVE (StagesAgree /\ ResultOfBatch)'
    BY <1>7 DEF ReadBatchUnstarted, IoRuns, Respond, StartThrows, JoinOld, Running
  <1>8. ASSUME NEW c \in Conns, ReadRealtime(c)  PROVE (StagesAgree /\ ResultOfBatch)'
    BY <1>8 DEF ReadRealtime, IoRuns, Acquired
  <1>9. ASSUME NEW c \in Conns, WriteEnds(c)  PROVE (StagesAgree /\ ResultOfBatch)'
    BY <1>9 DEF WriteEnds, IoRuns, Close, Settled
  <1>10. ASSUME NEW c \in Conns, ClientStirs(c)  PROVE (StagesAgree /\ ResultOfBatch)'
    BY <1>10 DEF ClientStirs
  <1>11. ASSUME NEW c \in Conns, OnWatch(c)  PROVE (StagesAgree /\ ResultOfBatch)'
    BY <1>11 DEF OnWatch, IoRuns, Close, Settled, Requested
  <1>12. ASSUME NEW c \in Conns, OnWatchAborted(c)  PROVE (StagesAgree /\ ResultOfBatch)'
    BY <1>12 DEF OnWatchAborted, IoRuns
  <1>13. ASSUME NEW c \in Conns, OnBatchResult(c)  PROVE (StagesAgree /\ ResultOfBatch)'
    BY <1>13 DEF OnBatchResult, IoRuns, Aborted, Respond, Close, Settled
  <1>14. ASSUME NEW c \in Conns, RtConfigure(c)  PROVE (StagesAgree /\ ResultOfBatch)'
    BY <1>14 DEF RtConfigure, IoRuns, Launched, JoinOld, StartThrows, Released, ModeAfter, Running
  <1>15. ASSUME NEW c \in Conns, RtFinish(c)  PROVE (StagesAgree /\ ResultOfBatch)'
    BY <1>15 DEF RtFinish, IoRuns, Close, Settled, Released, ModeAfter, Requested
  <1>16. ASSUME NEW c \in Conns, RtVanish(c)  PROVE (StagesAgree /\ ResultOfBatch)'
    BY <1>16 DEF RtVanish
  <1>17. ASSUME WorkerFinished  PROVE (StagesAgree /\ ResultOfBatch)'
    BY <1>17 DEF WorkerFinished, IoRuns, Settled
  <1>18. ASSUME InitiateShutdown  PROVE (StagesAgree /\ ResultOfBatch)'
    BY <1>18 DEF InitiateShutdown, TellSessions, Aborted, Requested, Running
  <1>19. ASSUME ForceShutdown  PROVE (StagesAgree /\ ResultOfBatch)'
    BY <1>19 DEF ForceShutdown, TellSessions, Aborted, Requested
  <1>20. ASSUME MainExits  PROVE (StagesAgree /\ ResultOfBatch)'
    BY <1>20 DEF MainExits
  <1>21. ASSUME TaskEnds  PROVE (StagesAgree /\ ResultOfBatch)'
    BY <1>21 DEF TaskEnds
  <1>22. ASSUME ReleaseLease  PROVE (StagesAgree /\ ResultOfBatch)'
    BY <1>22 DEF ReleaseLease, Released, ModeAfter
  <1>23. ASSUME PostResult  PROVE (StagesAgree /\ ResultOfBatch)'
    BY <1>23 DEF PostResult
  <1>24. ASSUME FreeSlot  PROVE (StagesAgree /\ ResultOfBatch)'
    BY <1>24 DEF FreeSlot
  <1>25. ASSUME Notify  PROVE (StagesAgree /\ ResultOfBatch)'
    BY <1>25 DEF Notify
  <1>26. ASSUME ThreadEnds  PROVE (StagesAgree /\ ResultOfBatch)'
    BY <1>26 DEF ThreadEnds
  <1>27. ASSUME UNCHANGED vars  PROVE (StagesAgree /\ ResultOfBatch)'
    BY <1>27
  <1> QED
    BY <1>1, <1>2, <1>3, <1>4, <1>5, <1>6, <1>7, <1>8, <1>9, <1>10, <1>11, <1>12,
        <1>13, <1>14, <1>15, <1>16, <1>17, <1>18, <1>19, <1>20, <1>21, <1>22, <1>23,
        <1>24, <1>25, <1>26, <1>27 DEF Next, Peers, Ready, Worker

\* A session is registered from its accept to its close.
LEMMA SessionsStep ==
    ASSUME IInv, [Next]_vars
    PROVE  SessionsRegistered'
  <1> USE ServerAssumption DEF IInv, TypeOK, SessionsRegistered, StagesAgree, Alive,
          vars, appVars, leaseVars, connVars, workerVars
  <1>1. ASSUME NEW c \in Conns, Connect(c)  PROVE SessionsRegistered'
    BY <1>1 DEF Connect
  <1>2. ASSUME NEW c \in Conns, OnAccept(c)  PROVE SessionsRegistered'
    BY <1>2 DEF OnAccept, IoRuns
  <1>3. ASSUME NEW c \in Conns, ReadFails(c)  PROVE SessionsRegistered'
    BY <1>3 DEF ReadFails, IoRuns, Close, Settled
  <1>4. ASSUME NEW c \in Conns, ReadOther(c)  PROVE SessionsRegistered'
    BY <1>4 DEF ReadOther, IoRuns, Respond
  <1>5. ASSUME NEW c \in Conns, ReadRefused(c)  PROVE SessionsRegistered'
    BY <1>5 DEF ReadRefused, IoRuns, Respond
  <1>6. ASSUME NEW c \in Conns, ReadBatch(c)  PROVE SessionsRegistered'
    BY <1>6 DEF ReadBatch, IoRuns, Acquired, Launched, JoinOld, Running
  <1>7. ASSUME NEW c \in Conns, ReadBatchUnstarted(c)  PROVE SessionsRegistered'
    BY <1>7 DEF ReadBatchUnstarted, IoRuns, Respond, StartThrows, JoinOld, Running
  <1>8. ASSUME NEW c \in Conns, ReadRealtime(c)  PROVE SessionsRegistered'
    BY <1>8 DEF ReadRealtime, IoRuns, Acquired
  <1>9. ASSUME NEW c \in Conns, WriteEnds(c)  PROVE SessionsRegistered'
    BY <1>9 DEF WriteEnds, IoRuns, Close, Settled
  <1>10. ASSUME NEW c \in Conns, ClientStirs(c)  PROVE SessionsRegistered'
    BY <1>10 DEF ClientStirs
  <1>11. ASSUME NEW c \in Conns, OnWatch(c)  PROVE SessionsRegistered'
    BY <1>11 DEF OnWatch, IoRuns, Close, Settled, Requested
  <1>12. ASSUME NEW c \in Conns, OnWatchAborted(c)  PROVE SessionsRegistered'
    BY <1>12 DEF OnWatchAborted, IoRuns
  <1>13. ASSUME NEW c \in Conns, OnBatchResult(c)  PROVE SessionsRegistered'
    BY <1>13 DEF OnBatchResult, IoRuns, Aborted, Respond, Close, Settled
  <1>14. ASSUME NEW c \in Conns, RtConfigure(c)  PROVE SessionsRegistered'
    BY <1>14 DEF RtConfigure, IoRuns, Launched, JoinOld, StartThrows, Released, ModeAfter, Running
  <1>15. ASSUME NEW c \in Conns, RtFinish(c)  PROVE SessionsRegistered'
    BY <1>15 DEF RtFinish, IoRuns, Close, Settled, Released, ModeAfter, Requested
  <1>16. ASSUME NEW c \in Conns, RtVanish(c)  PROVE SessionsRegistered'
    BY <1>16 DEF RtVanish
  <1>17. ASSUME WorkerFinished  PROVE SessionsRegistered'
    BY <1>17 DEF WorkerFinished, IoRuns, Settled
  <1>18. ASSUME InitiateShutdown  PROVE SessionsRegistered'
    <2>1. \A c \in sessions' : stage'[c] = "realtime" /\ c \in sessions
      BY <1>18, TellProperty DEF InitiateShutdown
    <2>2. \A c \in Conns : closed'[c] => c \notin sessions'
      BY <1>18, TellProperty DEF InitiateShutdown
    <2>3. \A c \in Conns : closed'[c] => stage'[c] \notin {"none", "accepted"}
      BY <1>18, TellProperty DEF InitiateShutdown
    <2>4. ASSUME NEW c \in Conns, stage'[c] \in {"reading", "batch", "writing", "realtime"}
          PROVE  c \in sessions' \/ closed'[c]
      BY <1>18, <2>4, TellProperty DEF InitiateShutdown
    <2> QED  BY <2>1, <2>2, <2>3, <2>4
  <1>19. ASSUME ForceShutdown  PROVE SessionsRegistered'
    BY <1>19, TellProperty DEF ForceShutdown
  <1>20. ASSUME MainExits  PROVE SessionsRegistered'
    BY <1>20 DEF MainExits
  <1>21. ASSUME TaskEnds  PROVE SessionsRegistered'
    BY <1>21 DEF TaskEnds
  <1>22. ASSUME ReleaseLease  PROVE SessionsRegistered'
    BY <1>22 DEF ReleaseLease, Released, ModeAfter
  <1>23. ASSUME PostResult  PROVE SessionsRegistered'
    BY <1>23 DEF PostResult
  <1>24. ASSUME FreeSlot  PROVE SessionsRegistered'
    BY <1>24 DEF FreeSlot
  <1>25. ASSUME Notify  PROVE SessionsRegistered'
    BY <1>25 DEF Notify
  <1>26. ASSUME ThreadEnds  PROVE SessionsRegistered'
    BY <1>26 DEF ThreadEnds
  <1>27. ASSUME UNCHANGED vars  PROVE SessionsRegistered'
    BY <1>27
  <1> QED
    BY <1>1, <1>2, <1>3, <1>4, <1>5, <1>6, <1>7, <1>8, <1>9, <1>10, <1>11, <1>12,
        <1>13, <1>14, <1>15, <1>16, <1>17, <1>18, <1>19, <1>20, <1>21, <1>22, <1>23,
        <1>24, <1>25, <1>26, <1>27 DEF Next, Peers, Ready, Worker

\* A token is cancelled only by its own client or by the shutdown.
LEMMA CancelStep ==
    ASSUME IInv, [Next]_vars
    PROVE  CancelHasCause'
  <1> USE ServerAssumption DEF IInv, TypeOK, OneEngineUser, ResultOfBatch,
          StagesAgree, SessionsRegistered, CancelHasCause, Holders, Alive, vars,
          appVars, leaseVars, connVars, workerVars
  <1>1. ASSUME NEW c \in Conns, Connect(c)  PROVE CancelHasCause'
    BY <1>1 DEF Connect
  <1>2. ASSUME NEW c \in Conns, OnAccept(c)  PROVE CancelHasCause'
    BY <1>2 DEF OnAccept, IoRuns
  <1>3. ASSUME NEW c \in Conns, ReadFails(c)  PROVE CancelHasCause'
    BY <1>3 DEF ReadFails, IoRuns, Close, Settled
  <1>4. ASSUME NEW c \in Conns, ReadOther(c)  PROVE CancelHasCause'
    BY <1>4 DEF ReadOther, IoRuns, Respond
  <1>5. ASSUME NEW c \in Conns, ReadRefused(c)  PROVE CancelHasCause'
    BY <1>5 DEF ReadRefused, IoRuns, Respond
  <1>6. ASSUME NEW c \in Conns, ReadBatch(c)  PROVE CancelHasCause'
    BY <1>6 DEF ReadBatch, IoRuns, Acquired, Launched, JoinOld, Running
  <1>7. ASSUME NEW c \in Conns, ReadBatchUnstarted(c)  PROVE CancelHasCause'
    BY <1>7 DEF ReadBatchUnstarted, IoRuns, Respond, StartThrows, JoinOld, Running
  <1>8. ASSUME NEW c \in Conns, ReadRealtime(c)  PROVE CancelHasCause'
    BY <1>8 DEF ReadRealtime, IoRuns, Acquired
  <1>9. ASSUME NEW c \in Conns, WriteEnds(c)  PROVE CancelHasCause'
    BY <1>9 DEF WriteEnds, IoRuns, Close, Settled
  <1>10. ASSUME NEW c \in Conns, ClientStirs(c)  PROVE CancelHasCause'
    BY <1>10 DEF ClientStirs
  <1>11. ASSUME NEW c \in Conns, OnWatch(c)  PROVE CancelHasCause'
    BY <1>11 DEF OnWatch, IoRuns, Close, Settled, Requested
  <1>12. ASSUME NEW c \in Conns, OnWatchAborted(c)  PROVE CancelHasCause'
    BY <1>12 DEF OnWatchAborted, IoRuns
  <1>13. ASSUME NEW c \in Conns, OnBatchResult(c)  PROVE CancelHasCause'
    BY <1>13 DEF OnBatchResult, IoRuns, Aborted, Respond, Close, Settled
  <1>14. ASSUME NEW c \in Conns, RtConfigure(c)  PROVE CancelHasCause'
    BY <1>14 DEF RtConfigure, IoRuns, Launched, JoinOld, StartThrows, Released, ModeAfter, Running
  <1>15. ASSUME NEW c \in Conns, RtFinish(c)  PROVE CancelHasCause'
    BY <1>15 DEF RtFinish, IoRuns, Close, Settled, Released, ModeAfter, Requested
  <1>16. ASSUME NEW c \in Conns, RtVanish(c)  PROVE CancelHasCause'
    BY <1>16 DEF RtVanish
  <1>17. ASSUME WorkerFinished  PROVE CancelHasCause'
    BY <1>17 DEF WorkerFinished, IoRuns, Settled
  <1>18. ASSUME InitiateShutdown  PROVE CancelHasCause'
    BY <1>18 DEF InitiateShutdown, TellSessions, Aborted, Requested, Running
  <1>19. ASSUME ForceShutdown  PROVE CancelHasCause'
    BY <1>19 DEF ForceShutdown, TellSessions, Aborted, Requested
  <1>20. ASSUME MainExits  PROVE CancelHasCause'
    BY <1>20 DEF MainExits
  <1>21. ASSUME TaskEnds  PROVE CancelHasCause'
    BY <1>21 DEF TaskEnds
  <1>22. ASSUME ReleaseLease  PROVE CancelHasCause'
    BY <1>22 DEF ReleaseLease, Released, ModeAfter
  <1>23. ASSUME PostResult  PROVE CancelHasCause'
    BY <1>23 DEF PostResult
  <1>24. ASSUME FreeSlot  PROVE CancelHasCause'
    BY <1>24 DEF FreeSlot
  <1>25. ASSUME Notify  PROVE CancelHasCause'
    BY <1>25 DEF Notify
  <1>26. ASSUME ThreadEnds  PROVE CancelHasCause'
    BY <1>26 DEF ThreadEnds
  <1>27. ASSUME UNCHANGED vars  PROVE CancelHasCause'
    BY <1>27
  <1> QED
    BY <1>1, <1>2, <1>3, <1>4, <1>5, <1>6, <1>7, <1>8, <1>9, <1>10, <1>11, <1>12,
        <1>13, <1>14, <1>15, <1>16, <1>17, <1>18, <1>19, <1>20, <1>21, <1>22, <1>23,
        <1>24, <1>25, <1>26, <1>27 DEF Next, Peers, Ready, Worker

\* So no request takes the answer, or the cancellation, of another.
LEMMA AnswerStep ==
    ASSUME IInv, [Next]_vars
    PROVE  AnsweredForItself'
  <1> USE ServerAssumption DEF IInv, TypeOK, OneEngineUser, StagesAgree,
          ResultOfBatch, SessionsRegistered, CancelHasCause, AnsweredForItself,
          Holders, Alive, vars, appVars, leaseVars, connVars, workerVars
  <1>1. ASSUME NEW c \in Conns, Connect(c)  PROVE AnsweredForItself'
    BY <1>1 DEF Connect
  <1>2. ASSUME NEW c \in Conns, OnAccept(c)  PROVE AnsweredForItself'
    BY <1>2 DEF OnAccept, IoRuns
  <1>3. ASSUME NEW c \in Conns, ReadFails(c)  PROVE AnsweredForItself'
    BY <1>3 DEF ReadFails, IoRuns, Close, Settled
  <1>4. ASSUME NEW c \in Conns, ReadOther(c)  PROVE AnsweredForItself'
    BY <1>4 DEF ReadOther, IoRuns, Respond
  <1>5. ASSUME NEW c \in Conns, ReadRefused(c)  PROVE AnsweredForItself'
    BY <1>5 DEF ReadRefused, IoRuns, Respond
  <1>6. ASSUME NEW c \in Conns, ReadBatch(c)  PROVE AnsweredForItself'
    BY <1>6 DEF ReadBatch, IoRuns, Acquired, Launched, JoinOld, Running
  <1>7. ASSUME NEW c \in Conns, ReadBatchUnstarted(c)  PROVE AnsweredForItself'
    BY <1>7 DEF ReadBatchUnstarted, IoRuns, Respond, StartThrows, JoinOld, Running
  <1>8. ASSUME NEW c \in Conns, ReadRealtime(c)  PROVE AnsweredForItself'
    BY <1>8 DEF ReadRealtime, IoRuns, Acquired
  <1>9. ASSUME NEW c \in Conns, WriteEnds(c)  PROVE AnsweredForItself'
    BY <1>9 DEF WriteEnds, IoRuns, Close, Settled
  <1>10. ASSUME NEW c \in Conns, ClientStirs(c)  PROVE AnsweredForItself'
    BY <1>10 DEF ClientStirs
  <1>11. ASSUME NEW c \in Conns, OnWatch(c)  PROVE AnsweredForItself'
    BY <1>11 DEF OnWatch, IoRuns, Close, Settled, Requested
  <1>12. ASSUME NEW c \in Conns, OnWatchAborted(c)  PROVE AnsweredForItself'
    BY <1>12 DEF OnWatchAborted, IoRuns
  <1>13. ASSUME NEW c \in Conns, OnBatchResult(c)  PROVE AnsweredForItself'
    <2>0. stage[c] = "batch" /\ sent[c] = "none" /\ c \in Conns
      BY <1>13 DEF OnBatchResult
    <2>1. CASE closed[c] \/ server = "stopping" \/ outcome[c] = "cancelled"
      <3>1. UNCHANGED << token, sent, stirred >> /\ stage' = [stage EXCEPT ![c] = "over"]
        BY <1>13, <2>1 DEF OnBatchResult
      <3>2. \A d \in Conns : closed[d] => closed'[d]
        BY <1>13, <2>1 DEF OnBatchResult, Close
      <3>3. server # "up" => server' # "up"
        BY <1>13, <2>1 DEF OnBatchResult, Close, Settled
      <3>4. stirred[c] \/ server # "up"
        BY <2>0, <2>1 DEF Reasons
      <3> QED  BY <3>1, <3>2, <3>3, <3>4
    <2>2. CASE ~(closed[c] \/ server = "stopping" \/ outcome[c] = "cancelled")
      <3>1. token[c] = "none"
        BY <1>13, <2>0, <2>2 DEF OnBatchResult, IoRuns, Reasons
      <3>2. /\ UNCHANGED << token, stirred, closed, server >>
            /\ stage' = [stage EXCEPT ![c] = "writing"]
            /\ sent' = [sent EXCEPT ![c] = IF outcome[c] = "ok" THEN "result" ELSE "error"]
        BY <1>13, <2>2 DEF OnBatchResult, Respond
      <3> QED  BY <3>1, <3>2
    <2> QED  BY <2>1, <2>2
  <1>14. ASSUME NEW c \in Conns, RtConfigure(c)  PROVE AnsweredForItself'
    BY <1>14 DEF RtConfigure, IoRuns, Launched, JoinOld, StartThrows, Released, ModeAfter, Running
  <1>15. ASSUME NEW c \in Conns, RtFinish(c)  PROVE AnsweredForItself'
    BY <1>15 DEF RtFinish, IoRuns, Close, Settled, Released, ModeAfter, Requested
  <1>16. ASSUME NEW c \in Conns, RtVanish(c)  PROVE AnsweredForItself'
    BY <1>16 DEF RtVanish
  <1>17. ASSUME WorkerFinished  PROVE AnsweredForItself'
    BY <1>17 DEF WorkerFinished, IoRuns, Settled
  <1>18. ASSUME InitiateShutdown  PROVE AnsweredForItself'
    BY <1>18 DEF InitiateShutdown, TellSessions, Aborted, Requested, Running
  <1>19. ASSUME ForceShutdown  PROVE AnsweredForItself'
    BY <1>19 DEF ForceShutdown, TellSessions, Aborted, Requested
  <1>20. ASSUME MainExits  PROVE AnsweredForItself'
    BY <1>20 DEF MainExits
  <1>21. ASSUME TaskEnds  PROVE AnsweredForItself'
    BY <1>21 DEF TaskEnds
  <1>22. ASSUME ReleaseLease  PROVE AnsweredForItself'
    BY <1>22 DEF ReleaseLease, Released, ModeAfter
  <1>23. ASSUME PostResult  PROVE AnsweredForItself'
    BY <1>23 DEF PostResult
  <1>24. ASSUME FreeSlot  PROVE AnsweredForItself'
    BY <1>24 DEF FreeSlot
  <1>25. ASSUME Notify  PROVE AnsweredForItself'
    BY <1>25 DEF Notify
  <1>26. ASSUME ThreadEnds  PROVE AnsweredForItself'
    BY <1>26 DEF ThreadEnds
  <1>27. ASSUME UNCHANGED vars  PROVE AnsweredForItself'
    BY <1>27
  <1> QED
    BY <1>1, <1>2, <1>3, <1>4, <1>5, <1>6, <1>7, <1>8, <1>9, <1>10, <1>11, <1>12,
        <1>13, <1>14, <1>15, <1>16, <1>17, <1>18, <1>19, <1>20, <1>21, <1>22, <1>23,
        <1>24, <1>25, <1>26, <1>27 DEF Next, Peers, Ready, Worker

\* While the server stops, something is left that will call maybe_finish_shutdown.
LEMMA ShutdownStep ==
    ASSUME IInv, [Next]_vars
    PROVE  ShutdownNotLost'
  <1> USE ServerAssumption DEF IInv, TypeOK, SessionsRegistered, ShutdownNotLost,
          StagesAgree, Alive, Running, vars, appVars, leaseVars, connVars, workerVars
  <1>1. ASSUME NEW c \in Conns, Connect(c)  PROVE ShutdownNotLost'
    BY <1>1 DEF Connect
  <1>2. ASSUME NEW c \in Conns, OnAccept(c)  PROVE ShutdownNotLost'
    BY <1>2 DEF OnAccept, IoRuns
  <1>3. ASSUME NEW c \in Conns, ReadFails(c)  PROVE ShutdownNotLost'
    BY <1>3 DEF ReadFails, IoRuns, Close, Settled
  <1>4. ASSUME NEW c \in Conns, ReadOther(c)  PROVE ShutdownNotLost'
    BY <1>4 DEF ReadOther, IoRuns, Respond
  <1>5. ASSUME NEW c \in Conns, ReadRefused(c)  PROVE ShutdownNotLost'
    BY <1>5 DEF ReadRefused, IoRuns, Respond
  <1>6. ASSUME NEW c \in Conns, ReadBatch(c)  PROVE ShutdownNotLost'
    BY <1>6 DEF ReadBatch, IoRuns, Acquired, Launched, JoinOld
  <1>7. ASSUME NEW c \in Conns, ReadBatchUnstarted(c)  PROVE ShutdownNotLost'
    BY <1>7 DEF ReadBatchUnstarted, IoRuns, Respond, StartThrows, JoinOld
  <1>8. ASSUME NEW c \in Conns, ReadRealtime(c)  PROVE ShutdownNotLost'
    BY <1>8 DEF ReadRealtime, IoRuns, Acquired
  <1>9. ASSUME NEW c \in Conns, WriteEnds(c)  PROVE ShutdownNotLost'
    BY <1>9 DEF WriteEnds, IoRuns, Close, Settled
  <1>10. ASSUME NEW c \in Conns, ClientStirs(c)  PROVE ShutdownNotLost'
    BY <1>10 DEF ClientStirs
  <1>11. ASSUME NEW c \in Conns, OnWatch(c)  PROVE ShutdownNotLost'
    BY <1>11 DEF OnWatch, IoRuns, Close, Settled, Requested
  <1>12. ASSUME NEW c \in Conns, OnWatchAborted(c)  PROVE ShutdownNotLost'
    BY <1>12 DEF OnWatchAborted, IoRuns
  <1>13. ASSUME NEW c \in Conns, OnBatchResult(c)  PROVE ShutdownNotLost'
    BY <1>13 DEF OnBatchResult, IoRuns, Aborted, Respond, Close, Settled
  <1>14. ASSUME NEW c \in Conns, RtConfigure(c)  PROVE ShutdownNotLost'
    BY <1>14 DEF RtConfigure, IoRuns, Launched, JoinOld, StartThrows, Released, ModeAfter
  <1>15. ASSUME NEW c \in Conns, RtFinish(c)  PROVE ShutdownNotLost'
    BY <1>15 DEF RtFinish, IoRuns, Close, Settled, Released, ModeAfter, Requested
  <1>16. ASSUME NEW c \in Conns, RtVanish(c)  PROVE ShutdownNotLost'
    BY <1>16 DEF RtVanish
  <1>17. ASSUME WorkerFinished  PROVE ShutdownNotLost'
    BY <1>17 DEF WorkerFinished, IoRuns, Settled
  <1>18. ASSUME InitiateShutdown  PROVE ShutdownNotLost'
    BY <1>18 DEF InitiateShutdown, TellSessions, Aborted, Requested
  <1>19. ASSUME ForceShutdown  PROVE ShutdownNotLost'
    BY <1>19 DEF ForceShutdown, TellSessions, Aborted, Requested
  <1>20. ASSUME MainExits  PROVE ShutdownNotLost'
    BY <1>20 DEF MainExits
  <1>21. ASSUME TaskEnds  PROVE ShutdownNotLost'
    BY <1>21 DEF TaskEnds
  <1>22. ASSUME ReleaseLease  PROVE ShutdownNotLost'
    BY <1>22 DEF ReleaseLease, Released, ModeAfter
  <1>23. ASSUME PostResult  PROVE ShutdownNotLost'
    BY <1>23 DEF PostResult
  <1>24. ASSUME FreeSlot  PROVE ShutdownNotLost'
    BY <1>24 DEF FreeSlot
  <1>25. ASSUME Notify  PROVE ShutdownNotLost'
    BY <1>25 DEF Notify
  <1>26. ASSUME ThreadEnds  PROVE ShutdownNotLost'
    BY <1>26 DEF ThreadEnds
  <1>27. ASSUME UNCHANGED vars  PROVE ShutdownNotLost'
    BY <1>27
  <1> QED
    BY <1>1, <1>2, <1>3, <1>4, <1>5, <1>6, <1>7, <1>8, <1>9, <1>10, <1>11, <1>12,
        <1>13, <1>14, <1>15, <1>16, <1>17, <1>18, <1>19, <1>20, <1>21, <1>22, <1>23,
        <1>24, <1>25, <1>26, <1>27 DEF Next, Peers, Ready, Worker

-----------------------------------------------------------------------------
(* The theorems. *)

\* The inductive invariant: lease, token, task, answer and registration of every
\* connection agree in every reachable state.
THEOREM Inductive == Spec => []IInv
  <1>1. Init => IInv
    BY ServerAssumption
    DEF Init, IInv, TypeOK, Reasons, OneEngineUser, Holders, ShutdownReachesHolder,
        ShutdownNotLost, AnsweredForItself, StagesAgree, ResultOfBatch,
        SessionsRegistered, CancelHasCause
  <1>2. IInv /\ [Next]_vars => IInv'
    <2> SUFFICES ASSUME IInv, [Next]_vars  PROVE IInv'
      OBVIOUS
    <2> QED  BY TypeStep, EngineStep, HolderStep, StagesStep, SessionsStep, CancelStep,
                AnswerStep, ShutdownStep DEF IInv
  <1> QED  BY <1>1, <1>2, PTL DEF Spec

\* The server's state has its types, and a task runs exactly while somebody owns it.
THEOREM TypeCorrect == Spec => []TypeOK
  <1>1. IInv => TypeOK
    BY DEF IInv
  <1> QED  BY <1>1, Inductive, PTL

\* However many connections compete, at most one holds the GPU lease, and only its
\* task touches the engine (GpuLeaseManager, WorkerSlot).
THEOREM EngineHasOneUser == Spec => []OneEngineUser
  <1>1. IInv => OneEngineUser
    BY DEF IInv
  <1> QED  BY <1>1, Inductive, PTL

\* Whoever holds the lease when a shutdown begins has its token cancelled, and
\* nobody acquires the lease afterwards (begin_shutdown).
THEOREM HolderIsTold == Spec => []ShutdownReachesHolder
  <1>1. IInv => ShutdownReachesHolder
    BY DEF IInv
  <1> QED  BY <1>1, Inductive, PTL

\* No connection gets another's result or is cancelled for another, and one that
\* gets no answer has a reason of its own (on_batch_result).
THEOREM EachAnsweredForItself == Spec => []AnsweredForItself
  <1>1. IInv => AnsweredForItself
    BY DEF IInv
  <1> QED  BY <1>1, Inductive, PTL

\* A server that stops always has something left that will look whether it may end
\* (maybe_finish_shutdown).
THEOREM ShutdownIsNotLost == Spec => []ShutdownNotLost
  <1>1. IInv => ShutdownNotLost
    BY DEF IInv
  <1> QED  BY <1>1, Inductive, PTL
=============================================================================
