------------------------ MODULE SignalingServer_proofs -----------------------
(* Theorems about SignalingServer, for every value of its constants.       *)
EXTENDS SignalingServer, TLAPS

\* The steps that only move one thread keep the types.
LEMMA ReadOnType ==
  ASSUME TypeOK, NEW c \in Conn, NEW from, NEW to \in ReadPlace, ReadOn(c, from, to)
  PROVE  TypeOK'
BY DEF TypeOK, ConnTypeOK, SessTypeOK, SentTypeOK, UITypeOK, ReadOn, Read, Running,
       netVars, talkVars, workVars, uiVars

LEMMA WorkOnType ==
  ASSUME TypeOK, NEW s \in Session, NEW from, NEW to \in WorkPlace, WorkOn(s, from, to)
  PROVE  TypeOK'
BY DEF TypeOK, ConnTypeOK, SessTypeOK, SentTypeOK, UITypeOK, WorkOn, Work, Running,
       readVars, talkVars, uiVars

LEMMA CrashType ==
  ASSUME TypeOK, NEW c \in Conn, NEW at, Crash(c, at)
  PROVE  TypeOK'
BY DEF TypeOK, ConnTypeOK, SessTypeOK, SentTypeOK, UITypeOK, Crash,
       connVars, netVars, readVars, sessVars, talkVars, workVars, uiVars

\* Every reachable state is well typed: no handler leaves a thread, a socket or
\* a conductor of WebRTCServer.cs in a state that the others do not expect.
THEOREM TypeCorrect == Spec => []TypeOK
<1>1. Init => TypeOK
  BY CandAssumption
  DEF Init, TypeOK, ConnTypeOK, SessTypeOK, SentTypeOK, UITypeOK,
      SockState, ReadPlace, DropPlace, GoState, WorkPlace, CdState
<1>2. TypeOK /\ [Next]_vars => TypeOK'
  <2> SUFFICES ASSUME TypeOK, [Next]_vars PROVE TypeOK'
    OBVIOUS
  <2> USE NoneAssumption, LimitsAssumption, CandAssumption
      DEF TypeOK, ConnTypeOK, SessTypeOK, SentTypeOK, UITypeOK,
          vars, connVars, netVars, readVars, sessVars, talkVars, workVars, uiVars,
          Running, Ended, Pumping, Calling, Peer,
          SockState, ReadPlace, DropPlace, GoState, WorkPlace, CdState
  <2>1. ASSUME NEW c \in Conn, BrowserCloses(c) PROVE TypeOK'
    BY <2>1 DEF BrowserCloses, Closed
  <2>2. ASSUME NEW c \in Conn, OnConnected(c) PROVE TypeOK'
    BY <2>2 DEF OnConnected
  <2>3. ASSUME NEW c \in Conn, OnClose(c) PROVE TypeOK'
    BY <2>3 DEF OnClose, Drop
  <2>4. ASSUME NEW c \in Conn, OnError(c) PROVE TypeOK'
    BY <2>4 DEF OnError, Drop
  <2>5. ASSUME NEW c \in Conn, Admit(c) PROVE TypeOK'
    BY <2>5 DEF Admit
  <2>6. ASSUME NEW c \in Conn, Reject(c) PROVE TypeOK'
    BY <2>6 DEF Reject, Closed
  <2>7. ASSUME NEW c \in Conn, CheckLimit(c) PROVE TypeOK'
    BY <2>7 DEF CheckLimit, ReadOn, Read
  <2>8. ASSUME NEW c \in Conn, CreateSession(c) PROVE TypeOK'
    <3>1. CASE ReadOn(c, "create", "idle")
      BY <3>1, ReadOnType
    <3>2. CASE NewSession(c)
      BY <3>2 DEF NewSession, Unused
    <3> QED
      BY <2>8, <3>1, <3>2 DEF CreateSession
  <2>9. ASSUME NEW c \in Conn, StartWorker(c) PROVE TypeOK'
    BY <2>9 DEF StartWorker, Read
  <2>10. ASSUME NEW c \in Conn, GoTaken(c) PROVE TypeOK'
    BY <2>10 DEF GoTaken, ReadOn, Read
  <2>11. ASSUME NEW c \in Conn, GoTimeout(c) PROVE TypeOK'
    BY <2>11 DEF GoTimeout, ReadOn, Read
  <2>12. ASSUME NEW c \in Conn, AttachHandlers(c) PROVE TypeOK'
    BY <2>12 DEF AttachHandlers
  <2>13. ASSUME NEW c \in Conn, CallRemote(c) PROVE TypeOK'
    <3>1. CASE Crash(c, "remote")
      BY <3>1, CrashType
    <3>2. CASE ReadOn(c, "remote", "leave")
      BY <3>2, ReadOnType
    <3>3. CASE ReadOn(c, "remote", "remoteCall")
      BY <3>3, ReadOnType
    <3> QED
      BY <2>13, <3>1, <3>2, <3>3 DEF CallRemote
  <2>14. ASSUME NEW c \in Conn, CallAnswer(c) PROVE TypeOK'
    <3>1. CASE Crash(c, "answer")
      BY <3>1, CrashType
    <3>2. CASE ReadOn(c, "answer", "leave")
      BY <3>2, ReadOnType
    <3>3. CASE ReadOn(c, "answer", "answerCall")
      BY <3>3, ReadOnType
    <3> QED
      BY <2>14, <3>1, <3>2, <3>3 DEF CallAnswer
  <2>15. ASSUME NEW c \in Conn, LeaveOffer(c) PROVE TypeOK'
    BY <2>15 DEF LeaveOffer, Read
  <2>16. ASSUME NEW c \in Conn, CallCandidate(c) PROVE TypeOK'
    <3>1. CASE Crash(c, "cand")
      BY <3>1, CrashType
    <3>2. CASE ReadOn(c, "cand", "candCall")
      BY <3>2, ReadOnType
    <3>3. CASE /\ Read(c, "cand", "idle")
               /\ rses' = [rses EXCEPT ![c] = None]
               /\ UNCHANGED workVars
      BY <3>3 DEF Read
    <3> QED
      BY <2>16, <3>1, <3>2, <3>3 DEF CallCandidate
  <2>17. ASSUME NEW c \in Conn, RemoveUser(c) PROVE TypeOK'
    BY <2>17 DEF RemoveUser, Drop
  <2>18. ASSUME NEW c \in Conn, RemoveStream(c) PROVE TypeOK'
    <3>1. /\ Drop(c, "streams", "idle") \/ Drop(c, "streams", "cancel")
          /\ sock' = sock \/ sock' = Closed(c)
          /\ streams' = [streams EXCEPT ![c] = None]
          /\ dses' = [dses EXCEPT ![c] = streams[c]]
          /\ UNCHANGED <<userList, cancel>>
      BY <2>18 DEF RemoveStream
    <3>2. dpc' \in [Conn -> DropPlace]
      <4>1. \E to \in DropPlace : dpc' = [dpc EXCEPT ![c] = to]
        BY <3>1 DEF Drop
      <4> QED
        BY <4>1
    <3>3. sock' \in [Conn -> SockState]
      <4>1. \E to \in SockState : sock' \in {sock, [sock EXCEPT ![c] = to]}
        BY <3>1 DEF Closed
      <4> QED
        BY <4>1
    <3>4. UNCHANGED <<readVars, workVars, owner, hooked, sent, gathered, uiVars, alive>>
      BY <3>1 DEF Drop
    <3> QED
      BY <3>1, <3>2, <3>3, <3>4
  <2>19. ASSUME NEW c \in Conn, CancelRemoved(c) PROVE TypeOK'
    BY <2>19 DEF CancelRemoved, Closed, Drop
  <2>20. ASSUME NEW c \in Conn, ReceiveOffer(c) PROVE TypeOK'
    BY <2>20 DEF ReceiveOffer, ReadOn, Read
  <2>21. ASSUME NEW c \in Conn, ReceiveCandidate(c) PROVE TypeOK'
    BY <2>21 DEF ReceiveCandidate, Read
  <2>22. ASSUME NEW s \in Session, WorkerStart(s) PROVE TypeOK'
    BY <2>22 DEF WorkerStart, WorkOn, Work
  <2>23. ASSUME NEW s \in Session, WorkerInit(s) PROVE TypeOK'
    <3>1. CASE WorkOn(s, "init", "failing")
      BY <3>1, WorkOnType
    <3>2. CASE /\ Work(s, "init", "set")
               /\ cd' = [cd EXCEPT ![s] = "peer"]
               /\ UNCHANGED <<sock, go>>
      BY <3>2 DEF Work
    <3> QED
      BY <2>23, <3>1, <3>2 DEF WorkerInit
  <2>24. ASSUME NEW s \in Session, WorkerSetGo(s) PROVE TypeOK'
    <3>1. CASE WorkOn(s, "set", "lateDispose")
      BY <3>1, WorkOnType
    <3>2. CASE /\ Work(s, "set", "test")
               /\ go' = [go EXCEPT ![s] = "set"]
               /\ UNCHANGED <<sock, cd>>
      BY <3>2 DEF Work
    <3> QED
      BY <2>24, <3>1, <3>2 DEF WorkerSetGo
  <2>25. ASSUME NEW s \in Session, WorkerFail(s) PROVE TypeOK'
    BY <2>25 DEF WorkerFail, Closed, Work
  <2>26. ASSUME NEW s \in Session, WorkerTest(s) PROVE TypeOK'
    BY <2>26 DEF WorkerTest, WorkOn, Work
  <2>27. ASSUME NEW s \in Session, PumpEnd(s) PROVE TypeOK'
    <3>1. CASE WorkOn(s, "pump", "test")
      BY <3>1, WorkOnType
    <3>2. CASE WorkOn(s, "final", "dispose")
      BY <3>2, WorkOnType
    <3> QED
      BY <2>27, <3>1, <3>2 DEF PumpEnd
  <2>28. ASSUME NEW s \in Session, WorkerDispose(s) PROVE TypeOK'
    <3>1. cd' = [cd EXCEPT ![s] = "freed"] /\ UNCHANGED <<sock, go>>
      BY <2>28 DEF WorkerDispose
    <3>2. CASE Work(s, "dispose", "done")
      BY <3>1, <3>2 DEF Work
    <3>3. CASE Work(s, "failDispose", "failed")
      BY <3>1, <3>3 DEF Work
    <3>4. CASE Work(s, "lateDispose", "late")
      BY <3>1, <3>4 DEF Work
    <3> QED
      BY <2>28, <3>2, <3>3, <3>4 DEF WorkerDispose
  <2>29. ASSUME NEW s \in Session, ServeRemote(s) PROVE TypeOK'
    BY <2>29 DEF ServeRemote, Waiting, Read
  <2>30. ASSUME NEW s \in Session, ServeAnswer(s) PROVE TypeOK'
    BY <2>30 DEF ServeAnswer, Waiting, Read
  <2>31. ASSUME NEW s \in Session, ServeCandidate(s) PROVE TypeOK'
    BY <2>31 DEF ServeCandidate, Waiting, Read
  <2>32. ASSUME NEW s \in Session, CreateAnswerDone(s) PROVE TypeOK'
    <3>1. UNCHANGED <<connVars, owner, cancel, go, hooked, wpc, gathered, uiVars, alive>>
      BY <2>32 DEF CreateAnswerDone
    <3>2. CASE cd' = [cd EXCEPT ![s] = "answered"] /\ Send(s, "answer")
      BY <3>1, <3>2 DEF Send
    <3>3. CASE cd' = [cd EXCEPT ![s] = "refused"] /\ UNCHANGED sent
      BY <3>1, <3>3
    <3> QED
      BY <2>32, <3>2, <3>3 DEF CreateAnswerDone
  <2>33. ASSUME NEW s \in Session, GatherCandidate(s) PROVE TypeOK'
    BY <2>33 DEF GatherCandidate, Gather, Send
  <2>34. ASSUME NEW n \in Limits, SetClientLimit(n) PROVE TypeOK'
    BY <2>34 DEF SetClientLimit, Limit
  <2>35. ASSUME NEW c \in Conn, UIBuffer(c) PROVE TypeOK'
    <3>1. UNCHANGED <<connVars, sessVars, clientLimit, todo>>
      BY <2>35 DEF UIBuffer
    <3>2. CASE UICrash
      BY <3>1, <3>2 DEF UICrash
    <3>3. CASE Running /\ UNCHANGED <<upc, uses>>
      BY <3>1, <3>3
    <3>4. CASE Running /\ streams[c] # None /\ upc' = "push" /\ uses' = streams[c]
      BY <3>1, <3>4
    <3> QED
      BY <2>35, <3>2, <3>3, <3>4 DEF UIBuffer
  <2>36. ASSUME NEW c \in Conn, DisposeCancel(c) PROVE TypeOK'
    BY <2>36 DEF DisposeCancel, Visit
  <2>37. ASSUME NEW c \in Conn, DisposeClose(c) PROVE TypeOK'
    BY <2>37 DEF DisposeClose, Closed
  <2>38. ASSUME UIPush PROVE TypeOK'
    BY <2>38 DEF UIPush, UICrash
  <2>39. ASSUME Dispose PROVE TypeOK'
    BY <2>39 DEF Dispose
  <2>40. ASSUME DisposeSnapshot PROVE TypeOK'
    BY <2>40 DEF DisposeSnapshot
  <2>41. ASSUME DisposeServer PROVE TypeOK'
    BY <2>41 DEF DisposeServer
  <2>42. ASSUME ClearUsers PROVE TypeOK'
    BY <2>42 DEF ClearUsers
  <2>43. ASSUME ClearStreams PROVE TypeOK'
    BY <2>43 DEF ClearStreams
  <2>44. CASE UNCHANGED vars
    BY <2>44
  <2> QED
    BY <2>1, <2>2, <2>3, <2>4, <2>5, <2>6, <2>7, <2>8, <2>9, <2>10, <2>11,
       <2>12, <2>13, <2>14, <2>15, <2>16, <2>17, <2>18, <2>19, <2>20, <2>21,
       <2>22, <2>23, <2>24, <2>25, <2>26, <2>27, <2>28, <2>29, <2>30, <2>31,
       <2>32, <2>33, <2>34, <2>35, <2>36, <2>37, <2>38, <2>39, <2>40, <2>41,
       <2>42, <2>43, <2>44
    DEF Next, Network, ReadLoop, Offer, Disconnect, Worker, Serve, Camera, Disposing
<1>3. QED
  BY <1>1, <1>2, PTL DEF Spec

-----------------------------------------------------------------------------
(* The inductive invariant, in parts.                                      *)

\* Where a read loop has a session at hand.
Busy == Calling \cup {"start", "wait", "leave", "hook", "remote", "answer", "cand"}

\* A session belongs to one connection: whoever holds it is that connection's
\* read loop or OnDisconnect, and a session not created yet has no state.
Ownership ==
  /\ \A c \in Conn : streams[c] # None => owner[streams[c]] = c
  /\ \A c \in Conn : rpc[c] \in Busy => rses[c] \in Session /\ owner[rses[c]] = c
  /\ \A c \in Conn : dpc[c] = "cancel" => dses[c] \in Session /\ owner[dses[c]] = c
  /\ \A c \in Conn : rpc[c] = "start" => wpc[rses[c]] = "none" /\ cd[rses[c]] = "live"
  /\ \A s \in Session : owner[s] = None => wpc[s] = "none" /\ cd[s] = "none"
                                            /\ go[s] = "unset"

\* The threads that use a session are those of the connection it was created for
\* (Streams, rses and dses are indexed by ConnectionInfo.Id throughout).
LEMMA OwnershipCorrect == Spec => []Ownership
<1>1. Init => Ownership
  BY NoneAssumption DEF Init, Ownership, Busy, Calling, Pumping, Peer
<1>2. TypeOK /\ Ownership /\ [Next]_vars => Ownership'
  <2> SUFFICES ASSUME TypeOK, Ownership, [Next]_vars PROVE Ownership'
    OBVIOUS
  <2>a. ConnTypeOK /\ SessTypeOK
    BY DEF TypeOK
  <2> USE <2>a, NoneAssumption
      DEF vars, connVars, netVars, readVars, sessVars, talkVars, workVars, uiVars,
          Running, ConnTypeOK, SessTypeOK, Ownership, Busy, Calling, Pumping, Peer
  <2>1. ASSUME NEW c \in Conn, BrowserCloses(c) PROVE Ownership'
    BY <2>1 DEF BrowserCloses, Closed
  <2>2. ASSUME NEW c \in Conn, OnConnected(c) PROVE Ownership'
    BY <2>2 DEF OnConnected
  <2>3. ASSUME NEW c \in Conn, OnClose(c) PROVE Ownership'
    BY <2>3 DEF OnClose, Drop
  <2>4. ASSUME NEW c \in Conn, OnError(c) PROVE Ownership'
    BY <2>4 DEF OnError, Drop
  <2>5. ASSUME NEW c \in Conn, Admit(c) PROVE Ownership'
    BY <2>5 DEF Admit
  <2>6. ASSUME NEW c \in Conn, Reject(c) PROVE Ownership'
    BY <2>6 DEF Reject, Closed
  <2>7. ASSUME NEW c \in Conn, CheckLimit(c) PROVE Ownership'
    BY <2>7 DEF CheckLimit, ReadOn, Read
  <2>8. ASSUME NEW c \in Conn, CreateSession(c) PROVE Ownership'
    BY <2>8 DEF CreateSession, NewSession, Unused, ReadOn, Read
  <2>9. ASSUME NEW c \in Conn, StartWorker(c) PROVE Ownership'
    BY <2>9 DEF StartWorker, Read
  <2>10. ASSUME NEW c \in Conn, GoTaken(c) PROVE Ownership'
    BY <2>10 DEF GoTaken, ReadOn, Read
  <2>11. ASSUME NEW c \in Conn, GoTimeout(c) PROVE Ownership'
    BY <2>11 DEF GoTimeout, ReadOn, Read
  <2>12. ASSUME NEW c \in Conn, AttachHandlers(c) PROVE Ownership'
    BY <2>12 DEF AttachHandlers
  <2>13. ASSUME NEW c \in Conn, CallRemote(c) PROVE Ownership'
    BY <2>13 DEF CallRemote, Crash, ReadOn, Read
  <2>14. ASSUME NEW c \in Conn, CallAnswer(c) PROVE Ownership'
    BY <2>14 DEF CallAnswer, Crash, ReadOn, Read
  <2>15. ASSUME NEW c \in Conn, LeaveOffer(c) PROVE Ownership'
    BY <2>15 DEF LeaveOffer, Read
  <2>16. ASSUME NEW c \in Conn, CallCandidate(c) PROVE Ownership'
    BY <2>16 DEF CallCandidate, Crash, ReadOn, Read
  <2>17. ASSUME NEW c \in Conn, RemoveUser(c) PROVE Ownership'
    BY <2>17 DEF RemoveUser, Drop
  <2>18. ASSUME NEW c \in Conn, RemoveStream(c) PROVE Ownership'
    BY <2>18 DEF RemoveStream, Closed, Drop
  <2>19. ASSUME NEW c \in Conn, CancelRemoved(c) PROVE Ownership'
    BY <2>19 DEF CancelRemoved, Closed, Drop
  <2>20. ASSUME NEW c \in Conn, ReceiveOffer(c) PROVE Ownership'
    BY <2>20 DEF ReceiveOffer, ReadOn, Read
  <2>21. ASSUME NEW c \in Conn, ReceiveCandidate(c) PROVE Ownership'
    BY <2>21 DEF ReceiveCandidate, Read
  <2>22. ASSUME NEW s \in Session, WorkerStart(s) PROVE Ownership'
    BY <2>22 DEF WorkerStart, WorkOn, Work
  <2>23. ASSUME NEW s \in Session, WorkerInit(s) PROVE Ownership'
    BY <2>23 DEF WorkerInit, WorkOn, Work
  <2>24. ASSUME NEW s \in Session, WorkerSetGo(s) PROVE Ownership'
    BY <2>24 DEF WorkerSetGo, WorkOn, Work
  <2>25. ASSUME NEW s \in Session, WorkerFail(s) PROVE Ownership'
    BY <2>25 DEF WorkerFail, Closed, Work
  <2>26. ASSUME NEW s \in Session, WorkerTest(s) PROVE Ownership'
    BY <2>26 DEF WorkerTest, WorkOn, Work
  <2>27. ASSUME NEW s \in Session, PumpEnd(s) PROVE Ownership'
    BY <2>27 DEF PumpEnd, WorkOn, Work
  <2>28. ASSUME NEW s \in Session, WorkerDispose(s) PROVE Ownership'
    BY <2>28 DEF WorkerDispose, Work
  <2>29. ASSUME NEW s \in Session, ServeRemote(s) PROVE Ownership'
    BY <2>29 DEF ServeRemote, Waiting, Read
  <2>30. ASSUME NEW s \in Session, ServeAnswer(s) PROVE Ownership'
    BY <2>30 DEF ServeAnswer, Waiting, Read
  <2>31. ASSUME NEW s \in Session, ServeCandidate(s) PROVE Ownership'
    BY <2>31 DEF ServeCandidate, Waiting, Read
  <2>32. ASSUME NEW s \in Session, CreateAnswerDone(s) PROVE Ownership'
    BY <2>32 DEF CreateAnswerDone, Send
  <2>33. ASSUME NEW s \in Session, GatherCandidate(s) PROVE Ownership'
    BY <2>33 DEF GatherCandidate, Gather, Send
  <2>34. ASSUME NEW n \in Limits, SetClientLimit(n) PROVE Ownership'
    BY <2>34 DEF SetClientLimit, Limit
  <2>35. ASSUME NEW c \in Conn, UIBuffer(c) PROVE Ownership'
    BY <2>35 DEF UIBuffer, UICrash
  <2>36. ASSUME NEW c \in Conn, DisposeCancel(c) PROVE Ownership'
    BY <2>36 DEF DisposeCancel, Visit
  <2>37. ASSUME NEW c \in Conn, DisposeClose(c) PROVE Ownership'
    BY <2>37 DEF DisposeClose, Closed
  <2>38. ASSUME UIPush PROVE Ownership'
    BY <2>38 DEF UIPush, UICrash
  <2>39. ASSUME Dispose PROVE Ownership'
    BY <2>39 DEF Dispose
  <2>40. ASSUME DisposeSnapshot PROVE Ownership'
    BY <2>40 DEF DisposeSnapshot
  <2>41. ASSUME DisposeServer PROVE Ownership'
    BY <2>41 DEF DisposeServer
  <2>42. ASSUME ClearUsers PROVE Ownership'
    BY <2>42 DEF ClearUsers
  <2>43. ASSUME ClearStreams PROVE Ownership'
    BY <2>43 DEF ClearStreams
  <2>44. CASE UNCHANGED vars
    BY <2>44
  <2> QED
    BY <2>1, <2>2, <2>3, <2>4, <2>5, <2>6, <2>7, <2>8, <2>9, <2>10, <2>11,
       <2>12, <2>13, <2>14, <2>15, <2>16, <2>17, <2>18, <2>19, <2>20, <2>21,
       <2>22, <2>23, <2>24, <2>25, <2>26, <2>27, <2>28, <2>29, <2>30, <2>31,
       <2>32, <2>33, <2>34, <2>35, <2>36, <2>37, <2>38, <2>39, <2>40, <2>41,
       <2>42, <2>43, <2>44
    DEF Next, Network, ReadLoop, Offer, Disconnect, Worker, Serve, Camera, Disposing
<1>3. QED
  BY <1>1, <1>2, TypeCorrect, PTL DEF Spec

-----------------------------------------------------------------------------
\* The offer handler, between "go" and the end of OnOfferRequest.
Applying == {"hook", "remote", "remoteCall", "answer", "answerCall"}

\* What the place of the worker says about the rest of the session, and what
\* "go" says about the place of the worker.
Control ==
  /\ \A c \in Conn : rpc[c] \in Applying => go[rses[c]] = "set"
  /\ \A s \in Session :
       /\ go[s] = "set" => wpc[s] \in {"test", "pump", "final", "dispose", "done"}
       /\ wpc[s] \in {"set", "test", "pump", "final", "dispose", "lateDispose"} => cd[s] \in Peer
       /\ wpc[s] \in {"final", "dispose", "done"} => cancel[s]
       /\ wpc[s] = "done" => cd[s] = "freed"
       /\ cd[s] = "freed" => wpc[s] \in {"done", "failed", "late"}

\* The worker's place, its conductor, its token and "go" stay in step.
LEMMA ControlCorrect == Spec => []Control
<1>1. Init => Control
  BY NoneAssumption DEF Init, Control, Applying
<1>2. TypeOK /\ Ownership /\ Control /\ [Next]_vars => Control'
  <2> SUFFICES ASSUME TypeOK, Ownership, Control, [Next]_vars PROVE Control'
    OBVIOUS
  <2>a. ConnTypeOK /\ SessTypeOK
    BY DEF TypeOK
  <2>b. /\ \A c \in Conn : rpc[c] \in Busy => rses[c] \in Session /\ owner[rses[c]] = c
        /\ \A c \in Conn : rpc[c] = "start" => wpc[rses[c]] = "none" /\ cd[rses[c]] = "live"
        /\ \A c \in Conn : dpc[c] = "cancel" => dses[c] \in Session
        /\ \A s \in Session : owner[s] = None => wpc[s] = "none" /\ go[s] = "unset"
    BY DEF Ownership
  <2> USE <2>a, <2>b, NoneAssumption
      DEF vars, connVars, netVars, readVars, sessVars, talkVars, workVars, uiVars,
          Running, ConnTypeOK, SessTypeOK, Pumping, Calling, Busy, Peer,
          Control, Applying
  <2>1. ASSUME NEW c \in Conn, BrowserCloses(c) PROVE Control'
    BY <2>1 DEF BrowserCloses, Closed
  <2>2. ASSUME NEW c \in Conn, OnConnected(c) PROVE Control'
    BY <2>2 DEF OnConnected
  <2>3. ASSUME NEW c \in Conn, OnClose(c) PROVE Control'
    BY <2>3 DEF OnClose, Drop
  <2>4. ASSUME NEW c \in Conn, OnError(c) PROVE Control'
    BY <2>4 DEF OnError, Drop
  <2>5. ASSUME NEW c \in Conn, Admit(c) PROVE Control'
    BY <2>5 DEF Admit
  <2>6. ASSUME NEW c \in Conn, Reject(c) PROVE Control'
    BY <2>6 DEF Reject, Closed
  <2>7. ASSUME NEW c \in Conn, CheckLimit(c) PROVE Control'
    BY <2>7 DEF CheckLimit, ReadOn, Read
  <2>8. ASSUME NEW c \in Conn, CreateSession(c) PROVE Control'
    BY <2>8 DEF CreateSession, NewSession, Unused, ReadOn, Read
  <2>9. ASSUME NEW c \in Conn, StartWorker(c) PROVE Control'
    BY <2>9 DEF StartWorker, Read
  <2>10. ASSUME NEW c \in Conn, GoTaken(c) PROVE Control'
    BY <2>10 DEF GoTaken, ReadOn, Read
  <2>11. ASSUME NEW c \in Conn, GoTimeout(c) PROVE Control'
    BY <2>11 DEF GoTimeout, ReadOn, Read
  <2>12. ASSUME NEW c \in Conn, AttachHandlers(c) PROVE Control'
    BY <2>12 DEF AttachHandlers
  <2>13. ASSUME NEW c \in Conn, CallRemote(c) PROVE Control'
    BY <2>13 DEF CallRemote, Crash, ReadOn, Read
  <2>14. ASSUME NEW c \in Conn, CallAnswer(c) PROVE Control'
    BY <2>14 DEF CallAnswer, Crash, ReadOn, Read
  <2>15. ASSUME NEW c \in Conn, LeaveOffer(c) PROVE Control'
    BY <2>15 DEF LeaveOffer, Read
  <2>16. ASSUME NEW c \in Conn, CallCandidate(c) PROVE Control'
    BY <2>16 DEF CallCandidate, Crash, ReadOn, Read
  <2>17. ASSUME NEW c \in Conn, RemoveUser(c) PROVE Control'
    BY <2>17 DEF RemoveUser, Drop
  <2>18. ASSUME NEW c \in Conn, RemoveStream(c) PROVE Control'
    BY <2>18 DEF RemoveStream, Closed, Drop
  <2>19. ASSUME NEW c \in Conn, CancelRemoved(c) PROVE Control'
    BY <2>19 DEF CancelRemoved, Closed, Drop
  <2>20. ASSUME NEW c \in Conn, ReceiveOffer(c) PROVE Control'
    BY <2>20 DEF ReceiveOffer, ReadOn, Read
  <2>21. ASSUME NEW c \in Conn, ReceiveCandidate(c) PROVE Control'
    BY <2>21 DEF ReceiveCandidate, Read
  <2>22. ASSUME NEW s \in Session, WorkerStart(s) PROVE Control'
    BY <2>22 DEF WorkerStart, WorkOn, Work
  <2>23. ASSUME NEW s \in Session, WorkerInit(s) PROVE Control'
    BY <2>23 DEF WorkerInit, WorkOn, Work
  <2>24. ASSUME NEW s \in Session, WorkerSetGo(s) PROVE Control'
    BY <2>24 DEF WorkerSetGo, WorkOn, Work
  <2>25. ASSUME NEW s \in Session, WorkerFail(s) PROVE Control'
    BY <2>25 DEF WorkerFail, Closed, Work
  <2>26. ASSUME NEW s \in Session, WorkerTest(s) PROVE Control'
    BY <2>26 DEF WorkerTest, WorkOn, Work
  <2>27. ASSUME NEW s \in Session, PumpEnd(s) PROVE Control'
    BY <2>27 DEF PumpEnd, WorkOn, Work
  <2>28. ASSUME NEW s \in Session, WorkerDispose(s) PROVE Control'
    BY <2>28 DEF WorkerDispose, Work
  <2>29. ASSUME NEW s \in Session, ServeRemote(s) PROVE Control'
    BY <2>29 DEF ServeRemote, Waiting, Read
  <2>30. ASSUME NEW s \in Session, ServeAnswer(s) PROVE Control'
    BY <2>30 DEF ServeAnswer, Waiting, Read
  <2>31. ASSUME NEW s \in Session, ServeCandidate(s) PROVE Control'
    BY <2>31 DEF ServeCandidate, Waiting, Read
  <2>32. ASSUME NEW s \in Session, CreateAnswerDone(s) PROVE Control'
    BY <2>32 DEF CreateAnswerDone, Send
  <2>33. ASSUME NEW s \in Session, GatherCandidate(s) PROVE Control'
    BY <2>33 DEF GatherCandidate, Gather, Send
  <2>34. ASSUME NEW n \in Limits, SetClientLimit(n) PROVE Control'
    BY <2>34 DEF SetClientLimit, Limit
  <2>35. ASSUME NEW c \in Conn, UIBuffer(c) PROVE Control'
    BY <2>35 DEF UIBuffer, UICrash
  <2>36. ASSUME NEW c \in Conn, DisposeCancel(c) PROVE Control'
    BY <2>36 DEF DisposeCancel, Visit
  <2>37. ASSUME NEW c \in Conn, DisposeClose(c) PROVE Control'
    BY <2>37 DEF DisposeClose, Closed
  <2>38. ASSUME UIPush PROVE Control'
    BY <2>38 DEF UIPush, UICrash
  <2>39. ASSUME Dispose PROVE Control'
    BY <2>39 DEF Dispose
  <2>40. ASSUME DisposeSnapshot PROVE Control'
    BY <2>40 DEF DisposeSnapshot
  <2>41. ASSUME DisposeServer PROVE Control'
    BY <2>41 DEF DisposeServer
  <2>42. ASSUME ClearUsers PROVE Control'
    BY <2>42 DEF ClearUsers
  <2>43. ASSUME ClearStreams PROVE Control'
    BY <2>43 DEF ClearStreams
  <2>44. CASE UNCHANGED vars
    BY <2>44
  <2> QED
    BY <2>1, <2>2, <2>3, <2>4, <2>5, <2>6, <2>7, <2>8, <2>9, <2>10, <2>11,
       <2>12, <2>13, <2>14, <2>15, <2>16, <2>17, <2>18, <2>19, <2>20, <2>21,
       <2>22, <2>23, <2>24, <2>25, <2>26, <2>27, <2>28, <2>29, <2>30, <2>31,
       <2>32, <2>33, <2>34, <2>35, <2>36, <2>37, <2>38, <2>39, <2>40, <2>41,
       <2>42, <2>43, <2>44
    DEF Next, Network, ReadLoop, Offer, Disconnect, Worker, Serve, Camera, Disposing
<1>3. QED
  BY <1>1, <1>2, TypeCorrect, OwnershipCorrect, PTL DEF Spec

\* A conductor is deleted only after its session was cancelled, failed to
\* initialise, or was given up by the offer (WebRTCServer.cs:182-227).
THEOREM FreedAfterStop == Spec => []FreedOnlyAfterStop
<1>1. Control => FreedOnlyAfterStop
  BY DEF Control, FreedOnlyAfterStop
<1>2. QED
  BY <1>1, ControlCorrect, PTL

\* While the offer is applied its conductor has a peer connection, unless the
\* session was cancelled (WebRTCServer.cs:210-293).
THEOREM GoReady == Spec => []GoMeansReady
<1>1. TypeOK /\ Ownership /\ Control => GoMeansReady
  BY DEF TypeOK, ConnTypeOK, SessTypeOK, Ownership, Busy, Calling, Control, Applying,
         GoMeansReady, Peer
<1>2. QED
  BY <1>1, TypeCorrect, OwnershipCorrect, ControlCorrect, PTL

\* A session taken out of Streams is cancelled by whoever took it out, except by
\* the Clear at the end of Dispose (WebRTCServer.cs:139-152, 322-344).
THEOREM RemovedCancelled == Spec => []RemovedIsCancelled
<1>1. Init => RemovedIsCancelled
  BY NoneAssumption DEF Init, RemovedIsCancelled, Held, BeingCancelled
<1>2. TypeOK /\ Ownership /\ RemovedIsCancelled /\ [Next]_vars => RemovedIsCancelled'
  <2> SUFFICES ASSUME TypeOK, Ownership, RemovedIsCancelled, [Next]_vars PROVE RemovedIsCancelled'
    OBVIOUS
  <2>a. ConnTypeOK /\ SessTypeOK
    BY DEF TypeOK
  <2>b. /\ \A c \in Conn : streams[c] # None => owner[streams[c]] = c
        /\ \A c \in Conn : dpc[c] = "cancel" => dses[c] \in Session /\ owner[dses[c]] = c
    BY DEF Ownership
  <2> USE <2>a, <2>b, NoneAssumption
      DEF vars, connVars, netVars, readVars, sessVars, talkVars, workVars, uiVars,
          Running, ConnTypeOK, SessTypeOK, RemovedIsCancelled, Held, BeingCancelled
  <2>1. ASSUME NEW c \in Conn, BrowserCloses(c) PROVE RemovedIsCancelled'
    BY <2>1 DEF BrowserCloses, Closed
  <2>2. ASSUME NEW c \in Conn, OnConnected(c) PROVE RemovedIsCancelled'
    BY <2>2 DEF OnConnected
  <2>3. ASSUME NEW c \in Conn, OnClose(c) PROVE RemovedIsCancelled'
    BY <2>3 DEF OnClose, Drop
  <2>4. ASSUME NEW c \in Conn, OnError(c) PROVE RemovedIsCancelled'
    BY <2>4 DEF OnError, Drop
  <2>5. ASSUME NEW c \in Conn, Admit(c) PROVE RemovedIsCancelled'
    BY <2>5 DEF Admit
  <2>6. ASSUME NEW c \in Conn, Reject(c) PROVE RemovedIsCancelled'
    BY <2>6 DEF Reject, Closed
  <2>7. ASSUME NEW c \in Conn, CheckLimit(c) PROVE RemovedIsCancelled'
    BY <2>7 DEF CheckLimit, ReadOn, Read
  <2>8. ASSUME NEW c \in Conn, CreateSession(c) PROVE RemovedIsCancelled'
    BY <2>8 DEF CreateSession, NewSession, Unused, ReadOn, Read
  <2>9. ASSUME NEW c \in Conn, StartWorker(c) PROVE RemovedIsCancelled'
    BY <2>9 DEF StartWorker, Read
  <2>10. ASSUME NEW c \in Conn, GoTaken(c) PROVE RemovedIsCancelled'
    BY <2>10 DEF GoTaken, ReadOn, Read
  <2>11. ASSUME NEW c \in Conn, GoTimeout(c) PROVE RemovedIsCancelled'
    BY <2>11 DEF GoTimeout, ReadOn, Read
  <2>12. ASSUME NEW c \in Conn, AttachHandlers(c) PROVE RemovedIsCancelled'
    BY <2>12 DEF AttachHandlers
  <2>13. ASSUME NEW c \in Conn, CallRemote(c) PROVE RemovedIsCancelled'
    BY <2>13 DEF CallRemote, Crash, ReadOn, Read
  <2>14. ASSUME NEW c \in Conn, CallAnswer(c) PROVE RemovedIsCancelled'
    BY <2>14 DEF CallAnswer, Crash, ReadOn, Read
  <2>15. ASSUME NEW c \in Conn, LeaveOffer(c) PROVE RemovedIsCancelled'
    BY <2>15 DEF LeaveOffer, Read
  <2>16. ASSUME NEW c \in Conn, CallCandidate(c) PROVE RemovedIsCancelled'
    BY <2>16 DEF CallCandidate, Crash, ReadOn, Read
  <2>17. ASSUME NEW c \in Conn, RemoveUser(c) PROVE RemovedIsCancelled'
    BY <2>17 DEF RemoveUser, Drop
  <2>18. ASSUME NEW c \in Conn, RemoveStream(c) PROVE RemovedIsCancelled'
    BY <2>18 DEF RemoveStream, Closed, Drop
  <2>19. ASSUME NEW c \in Conn, CancelRemoved(c) PROVE RemovedIsCancelled'
    BY <2>19 DEF CancelRemoved, Closed, Drop
  <2>20. ASSUME NEW c \in Conn, ReceiveOffer(c) PROVE RemovedIsCancelled'
    BY <2>20 DEF ReceiveOffer, ReadOn, Read
  <2>21. ASSUME NEW c \in Conn, ReceiveCandidate(c) PROVE RemovedIsCancelled'
    BY <2>21 DEF ReceiveCandidate, Read
  <2>22. ASSUME NEW s \in Session, WorkerStart(s) PROVE RemovedIsCancelled'
    BY <2>22 DEF WorkerStart, WorkOn, Work
  <2>23. ASSUME NEW s \in Session, WorkerInit(s) PROVE RemovedIsCancelled'
    BY <2>23 DEF WorkerInit, WorkOn, Work
  <2>24. ASSUME NEW s \in Session, WorkerSetGo(s) PROVE RemovedIsCancelled'
    BY <2>24 DEF WorkerSetGo, WorkOn, Work
  <2>25. ASSUME NEW s \in Session, WorkerFail(s) PROVE RemovedIsCancelled'
    BY <2>25 DEF WorkerFail, Closed, Work
  <2>26. ASSUME NEW s \in Session, WorkerTest(s) PROVE RemovedIsCancelled'
    BY <2>26 DEF WorkerTest, WorkOn, Work
  <2>27. ASSUME NEW s \in Session, PumpEnd(s) PROVE RemovedIsCancelled'
    BY <2>27 DEF PumpEnd, WorkOn, Work
  <2>28. ASSUME NEW s \in Session, WorkerDispose(s) PROVE RemovedIsCancelled'
    BY <2>28 DEF WorkerDispose, Work
  <2>29. ASSUME NEW s \in Session, ServeRemote(s) PROVE RemovedIsCancelled'
    BY <2>29 DEF ServeRemote, Waiting, Read
  <2>30. ASSUME NEW s \in Session, ServeAnswer(s) PROVE RemovedIsCancelled'
    BY <2>30 DEF ServeAnswer, Waiting, Read
  <2>31. ASSUME NEW s \in Session, ServeCandidate(s) PROVE RemovedIsCancelled'
    BY <2>31 DEF ServeCandidate, Waiting, Read
  <2>32. ASSUME NEW s \in Session, CreateAnswerDone(s) PROVE RemovedIsCancelled'
    BY <2>32 DEF CreateAnswerDone, Send
  <2>33. ASSUME NEW s \in Session, GatherCandidate(s) PROVE RemovedIsCancelled'
    BY <2>33 DEF GatherCandidate, Gather, Send
  <2>34. ASSUME NEW n \in Limits, SetClientLimit(n) PROVE RemovedIsCancelled'
    BY <2>34 DEF SetClientLimit, Limit
  <2>35. ASSUME NEW c \in Conn, UIBuffer(c) PROVE RemovedIsCancelled'
    BY <2>35 DEF UIBuffer, UICrash
  <2>36. ASSUME NEW c \in Conn, DisposeCancel(c) PROVE RemovedIsCancelled'
    BY <2>36 DEF DisposeCancel, Visit
  <2>37. ASSUME NEW c \in Conn, DisposeClose(c) PROVE RemovedIsCancelled'
    BY <2>37 DEF DisposeClose, Closed
  <2>38. ASSUME UIPush PROVE RemovedIsCancelled'
    BY <2>38 DEF UIPush, UICrash
  <2>39. ASSUME Dispose PROVE RemovedIsCancelled'
    BY <2>39 DEF Dispose
  <2>40. ASSUME DisposeSnapshot PROVE RemovedIsCancelled'
    BY <2>40 DEF DisposeSnapshot
  <2>41. ASSUME DisposeServer PROVE RemovedIsCancelled'
    BY <2>41 DEF DisposeServer
  <2>42. ASSUME ClearUsers PROVE RemovedIsCancelled'
    BY <2>42 DEF ClearUsers
  <2>43. ASSUME ClearStreams PROVE RemovedIsCancelled'
    BY <2>43 DEF ClearStreams
  <2>44. CASE UNCHANGED vars
    BY <2>44
  <2> QED
    BY <2>1, <2>2, <2>3, <2>4, <2>5, <2>6, <2>7, <2>8, <2>9, <2>10, <2>11,
       <2>12, <2>13, <2>14, <2>15, <2>16, <2>17, <2>18, <2>19, <2>20, <2>21,
       <2>22, <2>23, <2>24, <2>25, <2>26, <2>27, <2>28, <2>29, <2>30, <2>31,
       <2>32, <2>33, <2>34, <2>35, <2>36, <2>37, <2>38, <2>39, <2>40, <2>41,
       <2>42, <2>43, <2>44
    DEF Next, Network, ReadLoop, Offer, Disconnect, Worker, Serve, Camera, Disposing
<1>3. QED
  BY <1>1, <1>2, TypeCorrect, OwnershipCorrect, PTL DEF Spec
-----------------------------------------------------------------------------
\* How far the description of a session has come, seen from the read loop, the
\* conductor and the handlers.
Talk ==
  /\ \A c \in Conn : rpc[c] \in {"start", "wait", "hook", "remote", "remoteCall"} =>
       cd[rses[c]] \in {"live", "peer", "freed"}
  /\ \A c \in Conn : rpc[c] \in {"answer", "answerCall"} => cd[rses[c]] \in {"remote", "freed"}
  /\ \A c \in Conn : rpc[c] \in {"remote", "remoteCall", "answer", "answerCall"} => hooked[rses[c]]
  /\ \A s \in Session :
       /\ owner[s] = None => ~hooked[s]
       /\ cd[s] \in {"remote", "answering", "answered", "refused"} => hooked[s]
       /\ hooked[s] => wpc[s] \in {"test", "pump", "final", "dispose", "done"}
       /\ wpc[s] \in {"none", "queued", "init", "failing", "failDispose", "skipped"} =>
            cd[s] \in {"none", "live"}
       /\ wpc[s] = "skipped" => cancel[s] /\ cd[s] = "live"
       /\ wpc[s] \in {"queued", "init", "failing", "failDispose"} => cd[s] = "live"
       /\ wpc[s] \in {"done", "failed", "late"} => cd[s] = "freed"

\* The stages of a session's offer are gone through once and in order, and the
\* handlers are attached before the first of them (WebRTCServer.cs:231-293).
LEMMA TalkCorrect == Spec => []Talk
<1>1. Init => Talk
  BY NoneAssumption DEF Init, Talk
<1>2. TypeOK /\ Ownership /\ Control /\ Talk /\ [Next]_vars => Talk'
  <2> SUFFICES ASSUME TypeOK, Ownership, Control, Talk, [Next]_vars PROVE Talk'
    OBVIOUS
  <2>a. ConnTypeOK /\ SessTypeOK
    BY DEF TypeOK
  <2>b. /\ \A c \in Conn : rpc[c] \in Busy => rses[c] \in Session /\ owner[rses[c]] = c
        /\ \A c \in Conn : rpc[c] = "start" => wpc[rses[c]] = "none" /\ cd[rses[c]] = "live"
        /\ \A c \in Conn : dpc[c] = "cancel" => dses[c] \in Session
        /\ \A s \in Session : owner[s] = None => wpc[s] = "none" /\ cd[s] = "none"
    BY DEF Ownership
  <2>c. /\ \A c \in Conn : rpc[c] \in {"hook", "remote", "remoteCall", "answer", "answerCall"} =>
             go[rses[c]] = "set"
        /\ \A s \in Session : go[s] = "set" => wpc[s] \in {"test", "pump", "final", "dispose", "done"}
    BY DEF Control, Applying
  <2> USE <2>a, <2>b, <2>c, NoneAssumption
      DEF vars, connVars, netVars, readVars, sessVars, talkVars, workVars, uiVars,
          Running, ConnTypeOK, SessTypeOK, Pumping, Calling, Busy, Talk
  <2>1. ASSUME NEW c \in Conn, BrowserCloses(c) PROVE Talk'
    BY <2>1 DEF BrowserCloses, Closed
  <2>2. ASSUME NEW c \in Conn, OnConnected(c) PROVE Talk'
    BY <2>2 DEF OnConnected
  <2>3. ASSUME NEW c \in Conn, OnClose(c) PROVE Talk'
    BY <2>3 DEF OnClose, Drop
  <2>4. ASSUME NEW c \in Conn, OnError(c) PROVE Talk'
    BY <2>4 DEF OnError, Drop
  <2>5. ASSUME NEW c \in Conn, Admit(c) PROVE Talk'
    BY <2>5 DEF Admit
  <2>6. ASSUME NEW c \in Conn, Reject(c) PROVE Talk'
    BY <2>6 DEF Reject, Closed
  <2>7. ASSUME NEW c \in Conn, CheckLimit(c) PROVE Talk'
    BY <2>7 DEF CheckLimit, ReadOn, Read
  <2>8. ASSUME NEW c \in Conn, CreateSession(c) PROVE Talk'
    BY <2>8 DEF CreateSession, NewSession, Unused, ReadOn, Read
  <2>9. ASSUME NEW c \in Conn, StartWorker(c) PROVE Talk'
    BY <2>9 DEF StartWorker, Read
  <2>10. ASSUME NEW c \in Conn, GoTaken(c) PROVE Talk'
    BY <2>10 DEF GoTaken, ReadOn, Read
  <2>11. ASSUME NEW c \in Conn, GoTimeout(c) PROVE Talk'
    BY <2>11 DEF GoTimeout, ReadOn, Read
  <2>12. ASSUME NEW c \in Conn, AttachHandlers(c) PROVE Talk'
    BY <2>12 DEF AttachHandlers
  <2>13. ASSUME NEW c \in Conn, CallRemote(c) PROVE Talk'
    BY <2>13 DEF CallRemote, Crash, ReadOn, Read
  <2>14. ASSUME NEW c \in Conn, CallAnswer(c) PROVE Talk'
    BY <2>14 DEF CallAnswer, Crash, ReadOn, Read
  <2>15. ASSUME NEW c \in Conn, LeaveOffer(c) PROVE Talk'
    BY <2>15 DEF LeaveOffer, Read
  <2>16. ASSUME NEW c \in Conn, CallCandidate(c) PROVE Talk'
    BY <2>16 DEF CallCandidate, Crash, ReadOn, Read
  <2>17. ASSUME NEW c \in Conn, RemoveUser(c) PROVE Talk'
    BY <2>17 DEF RemoveUser, Drop
  <2>18. ASSUME NEW c \in Conn, RemoveStream(c) PROVE Talk'
    BY <2>18 DEF RemoveStream, Closed, Drop
  <2>19. ASSUME NEW c \in Conn, CancelRemoved(c) PROVE Talk'
    BY <2>19 DEF CancelRemoved, Closed, Drop
  <2>20. ASSUME NEW c \in Conn, ReceiveOffer(c) PROVE Talk'
    BY <2>20 DEF ReceiveOffer, ReadOn, Read
  <2>21. ASSUME NEW c \in Conn, ReceiveCandidate(c) PROVE Talk'
    BY <2>21 DEF ReceiveCandidate, Read
  <2>22. ASSUME NEW s \in Session, WorkerStart(s) PROVE Talk'
    BY <2>22 DEF WorkerStart, WorkOn, Work
  <2>23. ASSUME NEW s \in Session, WorkerInit(s) PROVE Talk'
    BY <2>23 DEF WorkerInit, WorkOn, Work
  <2>24. ASSUME NEW s \in Session, WorkerSetGo(s) PROVE Talk'
    BY <2>24 DEF WorkerSetGo, WorkOn, Work
  <2>25. ASSUME NEW s \in Session, WorkerFail(s) PROVE Talk'
    BY <2>25 DEF WorkerFail, Closed, Work
  <2>26. ASSUME NEW s \in Session, WorkerTest(s) PROVE Talk'
    BY <2>26 DEF WorkerTest, WorkOn, Work
  <2>27. ASSUME NEW s \in Session, PumpEnd(s) PROVE Talk'
    BY <2>27 DEF PumpEnd, WorkOn, Work
  <2>28. ASSUME NEW s \in Session, WorkerDispose(s) PROVE Talk'
    BY <2>28 DEF WorkerDispose, Work
  <2>29. ASSUME NEW s \in Session, ServeRemote(s) PROVE Talk'
    BY <2>29 DEF ServeRemote, Waiting, Read
  <2>30. ASSUME NEW s \in Session, ServeAnswer(s) PROVE Talk'
    BY <2>30 DEF ServeAnswer, Waiting, Read
  <2>31. ASSUME NEW s \in Session, ServeCandidate(s) PROVE Talk'
    BY <2>31 DEF ServeCandidate, Waiting, Read
  <2>32. ASSUME NEW s \in Session, CreateAnswerDone(s) PROVE Talk'
    BY <2>32 DEF CreateAnswerDone, Send
  <2>33. ASSUME NEW s \in Session, GatherCandidate(s) PROVE Talk'
    BY <2>33 DEF GatherCandidate, Gather, Send
  <2>34. ASSUME NEW n \in Limits, SetClientLimit(n) PROVE Talk'
    BY <2>34 DEF SetClientLimit, Limit
  <2>35. ASSUME NEW c \in Conn, UIBuffer(c) PROVE Talk'
    BY <2>35 DEF UIBuffer, UICrash
  <2>36. ASSUME NEW c \in Conn, DisposeCancel(c) PROVE Talk'
    BY <2>36 DEF DisposeCancel, Visit
  <2>37. ASSUME NEW c \in Conn, DisposeClose(c) PROVE Talk'
    BY <2>37 DEF DisposeClose, Closed
  <2>38. ASSUME UIPush PROVE Talk'
    BY <2>38 DEF UIPush, UICrash
  <2>39. ASSUME Dispose PROVE Talk'
    BY <2>39 DEF Dispose
  <2>40. ASSUME DisposeSnapshot PROVE Talk'
    BY <2>40 DEF DisposeSnapshot
  <2>41. ASSUME DisposeServer PROVE Talk'
    BY <2>41 DEF DisposeServer
  <2>42. ASSUME ClearUsers PROVE Talk'
    BY <2>42 DEF ClearUsers
  <2>43. ASSUME ClearStreams PROVE Talk'
    BY <2>43 DEF ClearStreams
  <2>44. CASE UNCHANGED vars
    BY <2>44
  <2> QED
    BY <2>1, <2>2, <2>3, <2>4, <2>5, <2>6, <2>7, <2>8, <2>9, <2>10, <2>11,
       <2>12, <2>13, <2>14, <2>15, <2>16, <2>17, <2>18, <2>19, <2>20, <2>21,
       <2>22, <2>23, <2>24, <2>25, <2>26, <2>27, <2>28, <2>29, <2>30, <2>31,
       <2>32, <2>33, <2>34, <2>35, <2>36, <2>37, <2>38, <2>39, <2>40, <2>41,
       <2>42, <2>43, <2>44
    DEF Next, Network, ReadLoop, Offer, Disconnect, Worker, Serve, Camera, Disposing
<1>3. QED
  BY <1>1, <1>2, TypeCorrect, OwnershipCorrect, ControlCorrect, PTL DEF Spec

\* No answer and no candidate is raised before the handlers are attached
\* (WebRTCServer.cs:233-293).
THEOREM NothingLost == Spec => []NoEventLost
<1>1. Talk => NoEventLost
  BY DEF Talk, NoEventLost
<1>2. QED
  BY <1>1, TalkCorrect, PTL

-----------------------------------------------------------------------------
(***************************************************************************)
(* Who waits for whom: what the liveness property CallbackReturns rests on.*)
(***************************************************************************)
\* The places of the offer handler at which its "go" is not disposed yet.
Offering == Applying \cup {"start", "wait", "leave"}

\* "go" outlives the handler's use of it, a worker that finds it disposed has
\* given up, and a candidate is passed on to a worker that has initialised.
Awaited ==
  /\ \A c \in Conn : rpc[c] \in Offering => go[rses[c]] # "gone"
  /\ \A c \in Conn : rpc[c] = "candCall" =>
       wpc[rses[c]] \in Serves \cup {"dispose", "done", "lateDispose", "late"}
  /\ \A s \in Session : wpc[s] \in {"lateDispose", "late"} => go[s] = "gone"

\* A callback waits for a worker that comes to its call, except after a cancel or
\* a time-out of the offer: which calls may be lost, for any number of them.
THEOREM CallsServed == Spec => []CallsAreServed
<1>1. Init => Awaited
  BY NoneAssumption DEF Init, Awaited, Offering, Applying
<1>2. TypeOK /\ Ownership /\ Control /\ Talk /\ Awaited /\ [Next]_vars => Awaited'
  <2> SUFFICES ASSUME TypeOK, Ownership, Control, Talk, Awaited, [Next]_vars PROVE Awaited'
    OBVIOUS
  <2>a. ConnTypeOK /\ SessTypeOK
    BY DEF TypeOK
  <2>b. /\ \A c \in Conn : rpc[c] \in Busy => rses[c] \in Session /\ owner[rses[c]] = c
        /\ \A c \in Conn : rpc[c] = "start" => wpc[rses[c]] = "none"
        /\ \A s \in Session : owner[s] = None => wpc[s] = "none" /\ go[s] = "unset"
    BY DEF Ownership
  <2>c. \A s \in Session : cd[s] \in Peer => wpc[s] \in Serves \cup {"dispose", "lateDispose"}
    BY <2>a DEF Talk, SessTypeOK, WorkPlace, Ended, Pumping, Peer, Serves
  <2> USE <2>a, <2>b, NoneAssumption
      DEF vars, connVars, netVars, readVars, sessVars, talkVars, workVars, uiVars, Running,
          ConnTypeOK, SessTypeOK, Awaited, Offering, Applying, Serves, Busy, Calling
  <2>1. ASSUME NEW c \in Conn, BrowserCloses(c) PROVE Awaited'
    BY <2>1 DEF BrowserCloses, Closed
  <2>2. ASSUME NEW c \in Conn, OnConnected(c) PROVE Awaited'
    BY <2>2 DEF OnConnected
  <2>3. ASSUME NEW c \in Conn, OnClose(c) PROVE Awaited'
    BY <2>3 DEF OnClose, Drop
  <2>4. ASSUME NEW c \in Conn, OnError(c) PROVE Awaited'
    BY <2>4 DEF OnError, Drop
  <2>5. ASSUME NEW c \in Conn, Admit(c) PROVE Awaited'
    BY <2>5 DEF Admit
  <2>6. ASSUME NEW c \in Conn, Reject(c) PROVE Awaited'
    BY <2>6 DEF Reject, Closed
  <2>7. ASSUME NEW c \in Conn, CheckLimit(c) PROVE Awaited'
    BY <2>7 DEF CheckLimit, ReadOn, Read
  <2>8. ASSUME NEW c \in Conn, CreateSession(c) PROVE Awaited'
    BY <2>8 DEF CreateSession, NewSession, Unused, ReadOn, Read
  <2>9. ASSUME NEW c \in Conn, StartWorker(c) PROVE Awaited'
    BY <2>9 DEF StartWorker, Read
  <2>10. ASSUME NEW c \in Conn, GoTaken(c) PROVE Awaited'
    BY <2>10 DEF GoTaken, ReadOn, Read
  <2>11. ASSUME NEW c \in Conn, GoTimeout(c) PROVE Awaited'
    BY <2>11 DEF GoTimeout, ReadOn, Read
  <2>12. ASSUME NEW c \in Conn, AttachHandlers(c) PROVE Awaited'
    BY <2>12 DEF AttachHandlers
  <2>13. ASSUME NEW c \in Conn, CallRemote(c) PROVE Awaited'
    BY <2>13 DEF CallRemote, Crash, ReadOn, Read
  <2>14. ASSUME NEW c \in Conn, CallAnswer(c) PROVE Awaited'
    BY <2>14 DEF CallAnswer, Crash, ReadOn, Read
  <2>15. ASSUME NEW c \in Conn, LeaveOffer(c) PROVE Awaited'
    BY <2>15 DEF LeaveOffer, Read
  <2>16. ASSUME NEW c \in Conn, CallCandidate(c) PROVE Awaited'
    BY <2>c, <2>16 DEF CallCandidate, Crash, ReadOn, Read
  <2>17. ASSUME NEW c \in Conn, RemoveUser(c) PROVE Awaited'
    BY <2>17 DEF RemoveUser, Drop
  <2>18. ASSUME NEW c \in Conn, RemoveStream(c) PROVE Awaited'
    BY <2>18 DEF RemoveStream, Closed, Drop
  <2>19. ASSUME NEW c \in Conn, CancelRemoved(c) PROVE Awaited'
    BY <2>19 DEF CancelRemoved, Closed, Drop
  <2>20. ASSUME NEW c \in Conn, ReceiveOffer(c) PROVE Awaited'
    BY <2>20 DEF ReceiveOffer, ReadOn, Read
  <2>21. ASSUME NEW c \in Conn, ReceiveCandidate(c) PROVE Awaited'
    BY <2>21 DEF ReceiveCandidate, Read
  <2>22. ASSUME NEW s \in Session, WorkerStart(s) PROVE Awaited'
    BY <2>22 DEF WorkerStart, WorkOn, Work
  <2>23. ASSUME NEW s \in Session, WorkerInit(s) PROVE Awaited'
    BY <2>23 DEF WorkerInit, WorkOn, Work
  <2>24. ASSUME NEW s \in Session, WorkerSetGo(s) PROVE Awaited'
    BY <2>24 DEF WorkerSetGo, WorkOn, Work
  <2>25. ASSUME NEW s \in Session, WorkerFail(s) PROVE Awaited'
    BY <2>25 DEF WorkerFail, Closed, Work
  <2>26. ASSUME NEW s \in Session, WorkerTest(s) PROVE Awaited'
    BY <2>26 DEF WorkerTest, WorkOn, Work
  <2>27. ASSUME NEW s \in Session, PumpEnd(s) PROVE Awaited'
    BY <2>27 DEF PumpEnd, WorkOn, Work
  <2>28. ASSUME NEW s \in Session, WorkerDispose(s) PROVE Awaited'
    BY <2>28 DEF WorkerDispose, Work
  <2>29. ASSUME NEW s \in Session, ServeRemote(s) PROVE Awaited'
    BY <2>29 DEF ServeRemote, Waiting, Read
  <2>30. ASSUME NEW s \in Session, ServeAnswer(s) PROVE Awaited'
    BY <2>30 DEF ServeAnswer, Waiting, Read
  <2>31. ASSUME NEW s \in Session, ServeCandidate(s) PROVE Awaited'
    BY <2>31 DEF ServeCandidate, Waiting, Read
  <2>32. ASSUME NEW s \in Session, CreateAnswerDone(s) PROVE Awaited'
    BY <2>32 DEF CreateAnswerDone, Send
  <2>33. ASSUME NEW s \in Session, GatherCandidate(s) PROVE Awaited'
    BY <2>33 DEF GatherCandidate, Gather, Send
  <2>34. ASSUME NEW n \in Limits, SetClientLimit(n) PROVE Awaited'
    BY <2>34 DEF SetClientLimit, Limit
  <2>35. ASSUME NEW c \in Conn, UIBuffer(c) PROVE Awaited'
    BY <2>35 DEF UIBuffer, UICrash
  <2>36. ASSUME NEW c \in Conn, DisposeCancel(c) PROVE Awaited'
    BY <2>36 DEF DisposeCancel, Visit
  <2>37. ASSUME NEW c \in Conn, DisposeClose(c) PROVE Awaited'
    BY <2>37 DEF DisposeClose, Closed
  <2>38. ASSUME UIPush PROVE Awaited'
    BY <2>38 DEF UIPush, UICrash
  <2>39. ASSUME Dispose PROVE Awaited'
    BY <2>39 DEF Dispose
  <2>40. ASSUME DisposeSnapshot PROVE Awaited'
    BY <2>40 DEF DisposeSnapshot
  <2>41. ASSUME DisposeServer PROVE Awaited'
    BY <2>41 DEF DisposeServer
  <2>42. ASSUME ClearUsers PROVE Awaited'
    BY <2>42 DEF ClearUsers
  <2>43. ASSUME ClearStreams PROVE Awaited'
    BY <2>43 DEF ClearStreams
  <2>44. CASE UNCHANGED vars
    BY <2>44
  <2> QED
    BY <2>1, <2>2, <2>3, <2>4, <2>5, <2>6, <2>7, <2>8, <2>9, <2>10, <2>11,
       <2>12, <2>13, <2>14, <2>15, <2>16, <2>17, <2>18, <2>19, <2>20, <2>21,
       <2>22, <2>23, <2>24, <2>25, <2>26, <2>27, <2>28, <2>29, <2>30, <2>31,
       <2>32, <2>33, <2>34, <2>35, <2>36, <2>37, <2>38, <2>39, <2>40, <2>41,
       <2>42, <2>43, <2>44
    DEF Next, Network, ReadLoop, Offer, Disconnect, Worker, Serve, Camera, Disposing
<1>3. TypeOK /\ Ownership /\ Control /\ Awaited => CallsAreServed
  BY DEF TypeOK, ConnTypeOK, SessTypeOK, Ownership, Busy, Calling, Control, Applying, Awaited,
         Offering, Serves, CallsAreServed, Waiting, GoState
<1>4. QED
  BY <1>1, <1>2, <1>3, TypeCorrect, OwnershipCorrect, ControlCorrect, TalkCorrect, PTL DEF Spec

-----------------------------------------------------------------------------
\* What was sent agrees with the stage of the session, and a socket does not
\* open again: when the answer was not sent, nothing is.
Voice ==
  /\ \A c \in Conn : rpc[c] # "idle" => sock[c] # "new"
  /\ \A s \in Session :
       /\ owner[s] # None => sock[owner[s]] # "new"
       /\ cd[s] \notin {"answered", "freed"} => sent[s] = <<>>
       /\ cd[s] = "answered" => sent[s] # <<>> \/ sock[owner[s]] \in {"closing", "closed"}
       /\ \A i \in DOMAIN sent[s] : (sent[s][i] = "answer") <=> (i = 1)

\* The answer is the first message of a session (conductor.cc:385-426).
LEMMA VoiceCorrect == Spec => []Voice
<1>1. Init => Voice
  BY NoneAssumption DEF Init, Voice
<1>2. TypeOK /\ Ownership /\ Control /\ Talk /\ Voice /\ [Next]_vars => Voice'
  <2> SUFFICES ASSUME TypeOK, Ownership, Control, Talk, Voice, [Next]_vars PROVE Voice'
    OBVIOUS
  <2>a. ConnTypeOK /\ SessTypeOK /\ SentTypeOK
    BY DEF TypeOK
  <2>b. /\ \A c \in Conn : rpc[c] \in Busy => rses[c] \in Session /\ owner[rses[c]] = c
        /\ \A c \in Conn : rpc[c] = "start" => cd[rses[c]] = "live"
        /\ \A c \in Conn : dpc[c] = "cancel" => dses[c] \in Session
        /\ \A s \in Session : owner[s] = None => wpc[s] = "none" /\ cd[s] = "none"
    BY DEF Ownership
  <2>c. /\ \A c \in Conn : rpc[c] \in {"remote", "remoteCall"} =>
             cd[rses[c]] \in {"live", "peer", "freed"}
        /\ \A c \in Conn : rpc[c] \in {"answer", "answerCall"} => cd[rses[c]] \in {"remote", "freed"}
        /\ \A s \in Session : wpc[s] = "init" => cd[s] = "live"
    BY DEF Talk
  <2>d. /\ \A s \in Session : wpc[s] \in Pumping => cd[s] # "freed"
    BY DEF Control, Pumping, Peer
  <2> USE <2>a, <2>b, <2>c, <2>d, NoneAssumption
      DEF vars, connVars, netVars, readVars, sessVars, talkVars, workVars, uiVars,
          Running, ConnTypeOK, SessTypeOK, SentTypeOK, Pumping, Calling, Busy, Voice
  <2>1. ASSUME NEW c \in Conn, BrowserCloses(c) PROVE Voice'
    BY <2>1 DEF BrowserCloses, Closed
  <2>2. ASSUME NEW c \in Conn, OnConnected(c) PROVE Voice'
    BY <2>2 DEF OnConnected
  <2>3. ASSUME NEW c \in Conn, OnClose(c) PROVE Voice'
    BY <2>3 DEF OnClose, Drop
  <2>4. ASSUME NEW c \in Conn, OnError(c) PROVE Voice'
    BY <2>4 DEF OnError, Drop
  <2>5. ASSUME NEW c \in Conn, Admit(c) PROVE Voice'
    BY <2>5 DEF Admit
  <2>6. ASSUME NEW c \in Conn, Reject(c) PROVE Voice'
    BY <2>6 DEF Reject, Closed
  <2>7. ASSUME NEW c \in Conn, CheckLimit(c) PROVE Voice'
    BY <2>7 DEF CheckLimit, ReadOn, Read
  <2>8. ASSUME NEW c \in Conn, CreateSession(c) PROVE Voice'
    <3>1. CASE ReadOn(c, "create", "idle")
      BY <3>1 DEF ReadOn, Read
    <3>2. CASE NewSession(c)
      <4>1. PICK s \in Session : /\ owner[s] = None /\ owner' = [owner EXCEPT ![s] = c]
                                 /\ cd' = [cd EXCEPT ![s] = "live"]
        BY <3>2 DEF NewSession, Unused
      <4>2. sent' = sent /\ sock' = sock /\ rpc' = [rpc EXCEPT ![c] = "start"] /\ rpc[c] = "create"
        BY <3>2 DEF NewSession
      <4>3. sent[s] = <<>> /\ sock[c] # "new"
        BY <4>1, <4>2
      <4> QED
        BY <4>1, <4>2, <4>3
    <3> QED
      BY <2>8, <3>1, <3>2 DEF CreateSession
  <2>9. ASSUME NEW c \in Conn, StartWorker(c) PROVE Voice'
    BY <2>9 DEF StartWorker, Read
  <2>10. ASSUME NEW c \in Conn, GoTaken(c) PROVE Voice'
    BY <2>10 DEF GoTaken, ReadOn, Read
  <2>11. ASSUME NEW c \in Conn, GoTimeout(c) PROVE Voice'
    BY <2>11 DEF GoTimeout, ReadOn, Read
  <2>12. ASSUME NEW c \in Conn, AttachHandlers(c) PROVE Voice'
    BY <2>12 DEF AttachHandlers
  <2>13. ASSUME NEW c \in Conn, CallRemote(c) PROVE Voice'
    BY <2>13 DEF CallRemote, Crash, ReadOn, Read
  <2>14. ASSUME NEW c \in Conn, CallAnswer(c) PROVE Voice'
    BY <2>14 DEF CallAnswer, Crash, ReadOn, Read
  <2>15. ASSUME NEW c \in Conn, LeaveOffer(c) PROVE Voice'
    BY <2>15 DEF LeaveOffer, Read
  <2>16. ASSUME NEW c \in Conn, CallCandidate(c) PROVE Voice'
    BY <2>16 DEF CallCandidate, Crash, ReadOn, Read
  <2>17. ASSUME NEW c \in Conn, RemoveUser(c) PROVE Voice'
    BY <2>17 DEF RemoveUser, Drop
  <2>18. ASSUME NEW c \in Conn, RemoveStream(c) PROVE Voice'
    BY <2>18 DEF RemoveStream, Closed, Drop
  <2>19. ASSUME NEW c \in Conn, CancelRemoved(c) PROVE Voice'
    BY <2>19 DEF CancelRemoved, Closed, Drop
  <2>20. ASSUME NEW c \in Conn, ReceiveOffer(c) PROVE Voice'
    BY <2>20 DEF ReceiveOffer, ReadOn, Read
  <2>21. ASSUME NEW c \in Conn, ReceiveCandidate(c) PROVE Voice'
    BY <2>21 DEF ReceiveCandidate, Read
  <2>22. ASSUME NEW s \in Session, WorkerStart(s) PROVE Voice'
    BY <2>22 DEF WorkerStart, WorkOn, Work
  <2>23. ASSUME NEW s \in Session, WorkerInit(s) PROVE Voice'
    BY <2>23 DEF WorkerInit, WorkOn, Work
  <2>24. ASSUME NEW s \in Session, WorkerSetGo(s) PROVE Voice'
    BY <2>24 DEF WorkerSetGo, WorkOn, Work
  <2>25. ASSUME NEW s \in Session, WorkerFail(s) PROVE Voice'
    BY <2>25 DEF WorkerFail, Closed, Work
  <2>26. ASSUME NEW s \in Session, WorkerTest(s) PROVE Voice'
    BY <2>26 DEF WorkerTest, WorkOn, Work
  <2>27. ASSUME NEW s \in Session, PumpEnd(s) PROVE Voice'
    BY <2>27 DEF PumpEnd, WorkOn, Work
  <2>28. ASSUME NEW s \in Session, WorkerDispose(s) PROVE Voice'
    BY <2>28 DEF WorkerDispose, Work
  <2>29. ASSUME NEW s \in Session, ServeRemote(s) PROVE Voice'
    <3>1. rpc[owner[s]] = "remoteCall" /\ rses[owner[s]] = s /\ owner[s] \in Conn
      BY <2>29 DEF ServeRemote, Waiting, Read
    <3>2. cd[s] \in {"live", "peer"}
      BY <3>1, <2>29 DEF ServeRemote
    <3>3. cd' = [cd EXCEPT ![s] = "remote"] /\ sent' = sent /\ sock' = sock /\ owner' = owner
          /\ rpc' = [rpc EXCEPT ![owner[s]] = "answer"]
      BY <2>29 DEF ServeRemote, Read
    <3> QED
      BY <3>1, <3>2, <3>3
  <2>30. ASSUME NEW s \in Session, ServeAnswer(s) PROVE Voice'
    BY <2>30 DEF ServeAnswer, Waiting, Read
  <2>31. ASSUME NEW s \in Session, ServeCandidate(s) PROVE Voice'
    BY <2>31 DEF ServeCandidate, Waiting, Read
  <2>32. ASSUME NEW s \in Session, CreateAnswerDone(s) PROVE Voice'
    <3>1. sent[s] = <<>> /\ owner[s] # None /\ owner[s] \in Conn
      BY <2>32 DEF CreateAnswerDone
    <3>2. hooked[s]
      BY <2>32 DEF CreateAnswerDone, Talk
    <3>3. UNCHANGED <<rpc, sock, owner>>
      BY <2>32 DEF CreateAnswerDone
    <3>4. CASE cd' = [cd EXCEPT ![s] = "answered"] /\ Send(s, "answer")
      <4>1. CASE sock[owner[s]] = "open"
        <5>1. sent' = [sent EXCEPT ![s] = <<"answer">>]
          BY <3>1, <3>2, <3>4, <4>1 DEF Send
        <5> QED
          BY <3>1, <3>3, <3>4, <5>1
      <4>2. CASE sock[owner[s]] # "open"
        <5>1. sent' = sent /\ sock[owner[s]] \in {"closing", "closed"}
          BY <3>1, <3>4, <4>2 DEF Send, SockState
        <5> QED
          BY <3>1, <3>3, <3>4, <5>1
      <4> QED
        BY <4>1, <4>2
    <3>5. CASE cd' = [cd EXCEPT ![s] = "refused"] /\ UNCHANGED sent
      BY <3>1, <3>3, <3>5
    <3> QED
      BY <2>32, <3>4, <3>5 DEF CreateAnswerDone
  <2>33. ASSUME NEW s \in Session, GatherCandidate(s) PROVE Voice'
    <3>1. cd[s] = "answered" /\ UNCHANGED <<rpc, sock, owner, cd>>
      BY <2>33 DEF GatherCandidate, Gather
    <3>2. CASE sock[owner[s]] = "open" /\ hooked[s]
      <4>1. sent[s] # <<>> /\ sent' = [sent EXCEPT ![s] = Append(@, "candidate")]
        BY <2>33, <3>1, <3>2 DEF GatherCandidate, Gather, Send
      <4>2. sent[s] \in Seq({"answer", "candidate"}) /\ Len(sent[s]) \in Nat \ {0}
        BY <4>1
      <4>3. \A i \in DOMAIN sent'[s] : (sent'[s][i] = "answer") <=> (i = 1)
        BY <4>1, <4>2
      <4>4. sent'[s] # <<>>
        <5>1. sent'[s] = Append(sent[s], "candidate")
          BY <4>1
        <5>2. Len(sent'[s]) = Len(sent[s]) + 1
          BY <4>2, <5>1
        <5> QED
          BY <4>2, <5>2
      <4> QED
        BY <3>1, <4>1, <4>3, <4>4
    <3>3. CASE ~(sock[owner[s]] = "open" /\ hooked[s])
      BY <2>33, <3>1, <3>3 DEF GatherCandidate, Gather, Send
    <3> QED
      BY <3>2, <3>3
  <2>34. ASSUME NEW n \in Limits, SetClientLimit(n) PROVE Voice'
    BY <2>34 DEF SetClientLimit, Limit
  <2>35. ASSUME NEW c \in Conn, UIBuffer(c) PROVE Voice'
    BY <2>35 DEF UIBuffer, UICrash
  <2>36. ASSUME NEW c \in Conn, DisposeCancel(c) PROVE Voice'
    BY <2>36 DEF DisposeCancel, Visit
  <2>37. ASSUME NEW c \in Conn, DisposeClose(c) PROVE Voice'
    BY <2>37 DEF DisposeClose, Closed
  <2>38. ASSUME UIPush PROVE Voice'
    BY <2>38 DEF UIPush, UICrash
  <2>39. ASSUME Dispose PROVE Voice'
    BY <2>39 DEF Dispose
  <2>40. ASSUME DisposeSnapshot PROVE Voice'
    BY <2>40 DEF DisposeSnapshot
  <2>41. ASSUME DisposeServer PROVE Voice'
    BY <2>41 DEF DisposeServer
  <2>42. ASSUME ClearUsers PROVE Voice'
    BY <2>42 DEF ClearUsers
  <2>43. ASSUME ClearStreams PROVE Voice'
    BY <2>43 DEF ClearStreams
  <2>44. CASE UNCHANGED vars
    BY <2>44
  <2> QED
    BY <2>1, <2>2, <2>3, <2>4, <2>5, <2>6, <2>7, <2>8, <2>9, <2>10, <2>11,
       <2>12, <2>13, <2>14, <2>15, <2>16, <2>17, <2>18, <2>19, <2>20, <2>21,
       <2>22, <2>23, <2>24, <2>25, <2>26, <2>27, <2>28, <2>29, <2>30, <2>31,
       <2>32, <2>33, <2>34, <2>35, <2>36, <2>37, <2>38, <2>39, <2>40, <2>41,
       <2>42, <2>43, <2>44
    DEF Next, Network, ReadLoop, Offer, Disconnect, Worker, Serve, Camera, Disposing
<1>3. QED
  BY <1>1, <1>2, TypeCorrect, OwnershipCorrect, ControlCorrect, TalkCorrect, PTL DEF Spec

\* Only a task that never started leaves a conductor behind (WebRTCServer.cs:182, 229).
THEOREM LeakUnstarted == Spec => []LeakOnlyUnstarted
<1>1. TypeOK /\ Ownership /\ Control /\ Talk /\ Voice => LeakOnlyUnstarted
  BY DEF TypeOK, Ownership, Control, Talk, Voice, LeakOnlyUnstarted, Ended
<1>2. QED
  BY <1>1, TypeCorrect, OwnershipCorrect, ControlCorrect, TalkCorrect, VoiceCorrect, PTL

\* Of two sessions of a connection one is cancelled (WebRTCServer.cs:147-174).
THEOREM OneSession == Spec => []OneSessionPerConnection
<1>1. RemovedIsCancelled => OneSessionPerConnection
  BY DEF RemovedIsCancelled, OneSessionPerConnection, Held
<1>2. QED
  BY <1>1, RemovedCancelled, PTL
-----------------------------------------------------------------------------
(* The refinement: every step of the server is a step of SessionPromise    *)
(* under the mapping Life, or leaves what the promise speaks of alone.     *)

Lives == [s \in Session |-> Life(s)]

\* A step that leaves the conductors and the messages alone is a stutter.
LEMMA StutterKept ==
  ASSUME cd' = cd, sent' = sent
  PROVE  UNCHANGED Promise!vars
  BY DEF Promise!vars, Life

\* A step of one conductor changes one life.
LEMMA LifeStep ==
  ASSUME SessTypeOK, NEW s \in Session, NEW e \in CdState, cd' = [cd EXCEPT ![s] = e]
  PROVE  Lives' = [Lives EXCEPT ![s] = IF e \in Peer THEN "running"
                                       ELSE IF e = "live" THEN "starting"
                                       ELSE IF e = "freed" THEN "ended" ELSE "none"]
  BY DEF SessTypeOK, Lives, Life

\* The life of a session, read off its conductor.
LEMMA LifeOf ==
  ASSUME SessTypeOK, NEW s \in Session
  PROVE  /\ cd[s] = "none" => Lives[s] = "none"
         /\ cd[s] = "live" => Lives[s] = "starting"
         /\ cd[s] \in Peer => Lives[s] = "running"
  BY DEF SessTypeOK, Lives, Life, Peer

\* The server implements the promise of a session (WebRTCServer.cs:182-231,
\* conductor.cc:385-426): it starts, runs and ends once, and while it runs it sends
\* the answer and then the candidates, whatever the other threads do.
THEOREM PromiseKept == Spec => KeepsPromise
<1>1. Init => Promise!Init
  BY DEF Init, Promise!Init, Life, Peer
<1>2. TypeOK /\ Ownership /\ Control /\ Talk /\ Voice /\ [Next]_vars
        => [Promise!Next]_(Promise!vars)
  <2> DEFINE Kept == [Promise!Next]_(Promise!vars)
  <2> SUFFICES ASSUME TypeOK, Ownership, Control, Talk, Voice, [Next]_vars PROVE Kept
    OBVIOUS
  <2>a. SessTypeOK /\ SentTypeOK
    BY DEF TypeOK
  <2>r. ASSUME NEW s \in Session, NEW e \in Peer, cd[s] \in Peer,
               cd' = [cd EXCEPT ![s] = e]
        PROVE  Lives' = Lives /\ (sent' = sent => UNCHANGED Promise!vars)
    <3>1. Lives[s] = "running" /\ Lives' = [Lives EXCEPT ![s] = "running"]
      BY <2>a, <2>r, LifeOf, LifeStep DEF CdState, Peer
    <3>2. Lives' = Lives
      BY <3>1 DEF Lives
    <3> QED
      BY <3>2 DEF Promise!vars, Lives
  <2> USE <2>a DEF vars, connVars, netVars, readVars, sessVars, talkVars, workVars, uiVars,
          Promise!Next
  <2>1. ASSUME NEW c \in Conn, BrowserCloses(c) PROVE Kept
    BY <2>1, StutterKept DEF BrowserCloses, Closed
  <2>2. ASSUME NEW c \in Conn, OnConnected(c) PROVE Kept
    BY <2>2, StutterKept DEF OnConnected
  <2>3. ASSUME NEW c \in Conn, OnClose(c) PROVE Kept
    BY <2>3, StutterKept DEF OnClose, Drop
  <2>4. ASSUME NEW c \in Conn, OnError(c) PROVE Kept
    BY <2>4, StutterKept DEF OnError, Drop
  <2>5. ASSUME NEW c \in Conn, Admit(c) PROVE Kept
    BY <2>5, StutterKept DEF Admit
  <2>6. ASSUME NEW c \in Conn, Reject(c) PROVE Kept
    BY <2>6, StutterKept DEF Reject, Closed
  <2>7. ASSUME NEW c \in Conn, CheckLimit(c) PROVE Kept
    BY <2>7, StutterKept DEF CheckLimit, ReadOn, Read
  <2>8. ASSUME NEW c \in Conn, CreateSession(c) PROVE Kept
    <3>1. CASE ReadOn(c, "create", "idle")
      BY <3>1, StutterKept DEF ReadOn, Read
    <3>2. CASE NewSession(c)
      <4>1. PICK s \in Session : owner[s] = None /\ cd' = [cd EXCEPT ![s] = "live"]
        BY <3>2 DEF NewSession, Unused
      <4>2. sent' = sent
        BY <3>2 DEF NewSession
      <4>3. cd[s] = "none"
        BY <4>1 DEF Ownership
      <4>4. Lives[s] = "none" /\ Lives' = [Lives EXCEPT ![s] = "starting"]
        BY <4>1, <4>3, LifeOf, LifeStep DEF CdState, Peer
      <4> QED
        BY <4>2, <4>4 DEF Promise!Create, Promise!Become, Lives
    <3> QED
      BY <2>8, <3>1, <3>2 DEF CreateSession
  <2>9. ASSUME NEW c \in Conn, StartWorker(c) PROVE Kept
    BY <2>9, StutterKept DEF StartWorker, Read
  <2>10. ASSUME NEW c \in Conn, GoTaken(c) PROVE Kept
    BY <2>10, StutterKept DEF GoTaken, ReadOn, Read
  <2>11. ASSUME NEW c \in Conn, GoTimeout(c) PROVE Kept
    BY <2>11, StutterKept DEF GoTimeout, ReadOn, Read
  <2>12. ASSUME NEW c \in Conn, AttachHandlers(c) PROVE Kept
    BY <2>12, StutterKept DEF AttachHandlers
  <2>13. ASSUME NEW c \in Conn, CallRemote(c) PROVE Kept
    BY <2>13, StutterKept DEF CallRemote, Crash, ReadOn, Read
  <2>14. ASSUME NEW c \in Conn, CallAnswer(c) PROVE Kept
    BY <2>14, StutterKept DEF CallAnswer, Crash, ReadOn, Read
  <2>15. ASSUME NEW c \in Conn, LeaveOffer(c) PROVE Kept
    BY <2>15, StutterKept DEF LeaveOffer, Read
  <2>16. ASSUME NEW c \in Conn, CallCandidate(c) PROVE Kept
    BY <2>16, StutterKept DEF CallCandidate, Crash, ReadOn, Read
  <2>17. ASSUME NEW c \in Conn, RemoveUser(c) PROVE Kept
    BY <2>17, StutterKept DEF RemoveUser, Drop
  <2>18. ASSUME NEW c \in Conn, RemoveStream(c) PROVE Kept
    BY <2>18, StutterKept DEF RemoveStream, Drop
  <2>19. ASSUME NEW c \in Conn, CancelRemoved(c) PROVE Kept
    BY <2>19, StutterKept DEF CancelRemoved, Drop
  <2>20. ASSUME NEW c \in Conn, ReceiveOffer(c) PROVE Kept
    BY <2>20, StutterKept DEF ReceiveOffer, ReadOn, Read
  <2>21. ASSUME NEW c \in Conn, ReceiveCandidate(c) PROVE Kept
    BY <2>21, StutterKept DEF ReceiveCandidate, Read
  <2>22. ASSUME NEW s \in Session, WorkerStart(s) PROVE Kept
    BY <2>22, StutterKept DEF WorkerStart, WorkOn, Work
  <2>23. ASSUME NEW s \in Session, WorkerInit(s) PROVE Kept
    <3>1. CASE WorkOn(s, "init", "failing")
      BY <3>1, StutterKept DEF WorkOn, Work
    <3>2. CASE Work(s, "init", "set") /\ cd' = [cd EXCEPT ![s] = "peer"]
      <4>1. sent' = sent /\ cd[s] = "live"
        BY <3>2 DEF Work, Talk
      <4>2. Lives[s] = "starting" /\ Lives' = [Lives EXCEPT ![s] = "running"]
        BY <3>2, <4>1, LifeOf, LifeStep DEF CdState, Peer
      <4> QED
        BY <4>1, <4>2 DEF Promise!Run, Promise!Become, Lives
    <3> QED
      BY <2>23, <3>1, <3>2 DEF WorkerInit
  <2>24. ASSUME NEW s \in Session, WorkerSetGo(s) PROVE Kept
    BY <2>24, StutterKept DEF WorkerSetGo, WorkOn, Work
  <2>25. ASSUME NEW s \in Session, WorkerFail(s) PROVE Kept
    BY <2>25, StutterKept DEF WorkerFail, Work
  <2>26. ASSUME NEW s \in Session, WorkerTest(s) PROVE Kept
    BY <2>26, StutterKept DEF WorkerTest, WorkOn, Work
  <2>27. ASSUME NEW s \in Session, PumpEnd(s) PROVE Kept
    BY <2>27, StutterKept DEF PumpEnd, WorkOn, Work
  <2>28. ASSUME NEW s \in Session, WorkerDispose(s) PROVE Kept
    <3>1. sent' = sent /\ cd' = [cd EXCEPT ![s] = "freed"]
      BY <2>28 DEF WorkerDispose, Work
    <3>2. cd[s] \in Peer \cup {"live"}
      BY <2>28 DEF WorkerDispose, Work, Control, Talk
    <3>3. Lives[s] \in {"starting", "running"} /\ Lives' = [Lives EXCEPT ![s] = "ended"]
      BY <3>1, <3>2, LifeOf, LifeStep DEF CdState, Peer
    <3> QED
      BY <3>1, <3>3 DEF Promise!End, Promise!Become, Lives
  <2>29. ASSUME NEW s \in Session, ServeRemote(s) PROVE Kept
    <3>1. sent' = sent /\ cd' = [cd EXCEPT ![s] = "remote"] /\ cd[s] \in Peer
      BY <2>29 DEF ServeRemote, Read, Pumping, Control
    <3> QED
      BY <3>1, <2>r DEF Peer
  <2>30. ASSUME NEW s \in Session, ServeAnswer(s) PROVE Kept
    <3>1. sent' = sent /\ cd' = [cd EXCEPT ![s] = "answering"] /\ cd[s] \in Peer
      BY <2>30 DEF ServeAnswer, Read, Pumping, Control
    <3> QED
      BY <3>1, <2>r DEF Peer
  <2>31. ASSUME NEW s \in Session, ServeCandidate(s) PROVE Kept
    BY <2>31, StutterKept DEF ServeCandidate, Read
  <2>32. ASSUME NEW s \in Session, CreateAnswerDone(s) PROVE Kept
    <3>1. cd[s] \in Peer /\ sent[s] = <<>>
      BY <2>32 DEF CreateAnswerDone, Peer, Voice
    <3>2. PICK e \in Peer : cd' = [cd EXCEPT ![s] = e]
      BY <2>32 DEF CreateAnswerDone, Peer
    <3>3. Lives' = Lives /\ Lives[s] = "running"
      BY <3>1, <3>2, <2>r, LifeOf DEF Promise!vars, Lives
    <3>4. CASE sent' = sent
      BY <3>1, <3>2, <3>4, <2>r
    <3>5. CASE sent' = [sent EXCEPT ![s] = Append(@, "answer")]
      <4>1. sent' = [sent EXCEPT ![s] = <<"answer">>]
        BY <3>1, <3>5 DEF SentTypeOK
      <4> QED
        BY <3>1, <3>3, <4>1 DEF Promise!Answer, Lives
    <3> QED
      BY <2>32, <3>4, <3>5 DEF CreateAnswerDone, Send
  <2>33. ASSUME NEW s \in Session, GatherCandidate(s) PROVE Kept
    <3>1. cd[s] \in Peer /\ cd[s] = "answered" /\ cd' = cd
      BY <2>33 DEF GatherCandidate, Gather, Peer, workVars
    <3>2. CASE sent' = sent
      BY <3>1, <3>2, StutterKept
    <3>3. CASE sent' = [sent EXCEPT ![s] = Append(@, "candidate")] /\ sock[owner[s]] = "open"
      <4>1. sent[s] # <<>>
        BY <3>1, <3>3 DEF Voice
      <4>2. Lives[s] = "running" /\ Lives' = Lives
        BY <3>1, LifeOf DEF Lives, Life
      <4> QED
        BY <3>3, <4>1, <4>2 DEF Promise!Candidate, Lives
    <3> QED
      BY <2>33, <3>2, <3>3 DEF GatherCandidate, Gather, Send
  <2>34. ASSUME NEW c \in Conn, UIBuffer(c) PROVE Kept
    BY <2>34, StutterKept DEF UIBuffer, UICrash
  <2>35. ASSUME NEW c \in Conn, DisposeCancel(c) PROVE Kept
    BY <2>35, StutterKept DEF DisposeCancel, Visit
  <2>36. ASSUME NEW c \in Conn, DisposeClose(c) PROVE Kept
    BY <2>36, StutterKept DEF DisposeClose
  <2>37. ASSUME NEW n \in Limits, SetClientLimit(n) PROVE Kept
    BY <2>37, StutterKept DEF SetClientLimit, Limit
  <2>38. ASSUME UIPush PROVE Kept
    BY <2>38, StutterKept DEF UIPush, UICrash
  <2>39. ASSUME Dispose PROVE Kept
    BY <2>39, StutterKept DEF Dispose
  <2>40. ASSUME DisposeSnapshot PROVE Kept
    BY <2>40, StutterKept DEF DisposeSnapshot
  <2>41. ASSUME DisposeServer PROVE Kept
    BY <2>41, StutterKept DEF DisposeServer
  <2>42. ASSUME ClearUsers PROVE Kept
    BY <2>42, StutterKept DEF ClearUsers
  <2>43. ASSUME ClearStreams PROVE Kept
    BY <2>43, StutterKept DEF ClearStreams
  <2>44. CASE UNCHANGED vars
    BY <2>44, StutterKept
  <2> QED
    BY <2>1, <2>2, <2>3, <2>4, <2>5, <2>6, <2>7, <2>8, <2>9, <2>10, <2>11,
       <2>12, <2>13, <2>14, <2>15, <2>16, <2>17, <2>18, <2>19, <2>20, <2>21, <2>22,
       <2>23, <2>24, <2>25, <2>26, <2>27, <2>28, <2>29, <2>30, <2>31, <2>32, <2>33,
       <2>34, <2>35, <2>36, <2>37, <2>38, <2>39, <2>40, <2>41, <2>42, <2>43, <2>44
    DEF Next, Network, ReadLoop, Offer, Disconnect, Worker, Serve, Camera, Disposing
<1>3. QED
  BY <1>1, <1>2, TypeCorrect, OwnershipCorrect, ControlCorrect, TalkCorrect, VoiceCorrect, PTL
  DEF Spec, KeepsPromise, Promise!Spec
-----------------------------------------------------------------------------
(* The two interleavings that leave an entry behind, and that no other does. *)

\* Only an OnConnected that goes on after OnDisconnect leaves a user behind
\* (WebRTCServer.cs:91-95, 140-147).
THEOREM StaleUserByRacingOpen == Spec => StaleUserOnlyByRacingOpen
<1> DEFINE Fresh == \A c \in Conn : ~StaleUser(c) /\ StaleUser(c)' => rpc[c] = "admit"
<1>1. TypeOK /\ [Next]_vars => Fresh
  <2> SUFFICES ASSUME TypeOK, [Next]_vars PROVE Fresh
    OBVIOUS
  <2>a. ConnTypeOK /\ SessTypeOK
    BY DEF TypeOK
  <2>k. ASSUME UNCHANGED <<userList, sock, dpc>> PROVE Fresh
    BY <2>k DEF StaleUser
  <2> USE <2>a DEF vars, connVars, netVars, readVars, sessVars, talkVars, workVars, uiVars
  <2>1. ASSUME NEW c \in Conn, BrowserCloses(c) PROVE Fresh
    BY <2>1, NoneAssumption DEF BrowserCloses, Closed, StaleUser, Running, ConnTypeOK, Closed
  <2>2. ASSUME NEW c \in Conn, OnConnected(c) PROVE Fresh
    BY <2>2, NoneAssumption DEF OnConnected, StaleUser, Running, ConnTypeOK
  <2>3. ASSUME NEW c \in Conn, OnClose(c) PROVE Fresh
    BY <2>3, NoneAssumption DEF OnClose, Drop, StaleUser, Running, ConnTypeOK
  <2>4. ASSUME NEW c \in Conn, OnError(c) PROVE Fresh
    BY <2>4, NoneAssumption DEF OnError, Drop, StaleUser, Running, ConnTypeOK
  <2>5. ASSUME NEW c \in Conn, Admit(c) PROVE Fresh
    BY <2>5, NoneAssumption DEF Admit, StaleUser, Running, ConnTypeOK
  <2>6. ASSUME NEW c \in Conn, Reject(c) PROVE Fresh
    BY <2>6, NoneAssumption DEF Reject, Closed, StaleUser, Running, ConnTypeOK, Closed
  <2>7. ASSUME NEW c \in Conn, CheckLimit(c) PROVE Fresh
    BY <2>7, <2>k DEF CheckLimit, ReadOn, Read
  <2>8. ASSUME NEW c \in Conn, CreateSession(c) PROVE Fresh
    BY <2>8, <2>k DEF CreateSession, NewSession, Unused, ReadOn, Read
  <2>9. ASSUME NEW c \in Conn, StartWorker(c) PROVE Fresh
    BY <2>9, <2>k DEF StartWorker, Read
  <2>10. ASSUME NEW c \in Conn, GoTaken(c) PROVE Fresh
    BY <2>10, <2>k DEF GoTaken, ReadOn, Read
  <2>11. ASSUME NEW c \in Conn, GoTimeout(c) PROVE Fresh
    BY <2>11, <2>k DEF GoTimeout, ReadOn, Read
  <2>12. ASSUME NEW c \in Conn, AttachHandlers(c) PROVE Fresh
    BY <2>12, <2>k DEF AttachHandlers
  <2>13. ASSUME NEW c \in Conn, CallRemote(c) PROVE Fresh
    BY <2>13, <2>k DEF CallRemote, Crash, ReadOn, Read
  <2>14. ASSUME NEW c \in Conn, CallAnswer(c) PROVE Fresh
    BY <2>14, <2>k DEF CallAnswer, Crash, ReadOn, Read
  <2>15. ASSUME NEW c \in Conn, LeaveOffer(c) PROVE Fresh
    BY <2>15, <2>k DEF LeaveOffer, Read
  <2>16. ASSUME NEW c \in Conn, CallCandidate(c) PROVE Fresh
    BY <2>16, <2>k DEF CallCandidate, Crash, ReadOn, Read
  <2>17. ASSUME NEW c \in Conn, RemoveUser(c) PROVE Fresh
    BY <2>17, NoneAssumption DEF RemoveUser, Drop, StaleUser, Running, ConnTypeOK
  <2>18. ASSUME NEW c \in Conn, RemoveStream(c) PROVE Fresh
    BY <2>18, NoneAssumption DEF RemoveStream, Drop, StaleUser, Running, ConnTypeOK, Closed
  <2>19. ASSUME NEW c \in Conn, CancelRemoved(c) PROVE Fresh
    BY <2>19, NoneAssumption DEF CancelRemoved, Drop, StaleUser, Running, ConnTypeOK, Closed
  <2>20. ASSUME NEW c \in Conn, ReceiveOffer(c) PROVE Fresh
    BY <2>20, <2>k DEF ReceiveOffer, ReadOn, Read
  <2>21. ASSUME NEW c \in Conn, ReceiveCandidate(c) PROVE Fresh
    BY <2>21, <2>k DEF ReceiveCandidate, Read
  <2>22. ASSUME NEW s \in Session, WorkerStart(s) PROVE Fresh
    BY <2>22, <2>k DEF WorkerStart, WorkOn, Work
  <2>23. ASSUME NEW s \in Session, WorkerInit(s) PROVE Fresh
    BY <2>23, <2>k DEF WorkerInit, WorkOn, Work
  <2>24. ASSUME NEW s \in Session, WorkerSetGo(s) PROVE Fresh
    BY <2>24, <2>k DEF WorkerSetGo, WorkOn, Work
  <2>25. ASSUME NEW s \in Session, WorkerFail(s) PROVE Fresh
    BY <2>25, NoneAssumption DEF WorkerFail, Work, StaleUser, Running, ConnTypeOK, Closed
  <2>26. ASSUME NEW s \in Session, WorkerTest(s) PROVE Fresh
    BY <2>26, <2>k DEF WorkerTest, WorkOn, Work
  <2>27. ASSUME NEW s \in Session, PumpEnd(s) PROVE Fresh
    BY <2>27, <2>k DEF PumpEnd, WorkOn, Work
  <2>28. ASSUME NEW s \in Session, WorkerDispose(s) PROVE Fresh
    BY <2>28, <2>k DEF WorkerDispose, Work
  <2>29. ASSUME NEW s \in Session, ServeRemote(s) PROVE Fresh
    BY <2>29, <2>k DEF ServeRemote, Read
  <2>30. ASSUME NEW s \in Session, ServeAnswer(s) PROVE Fresh
    BY <2>30, <2>k DEF ServeAnswer, Read
  <2>31. ASSUME NEW s \in Session, ServeCandidate(s) PROVE Fresh
    BY <2>31, <2>k DEF ServeCandidate, Read
  <2>32. ASSUME NEW s \in Session, CreateAnswerDone(s) PROVE Fresh
    BY <2>32, <2>k DEF CreateAnswerDone
  <2>33. ASSUME NEW s \in Session, GatherCandidate(s) PROVE Fresh
    BY <2>33, <2>k DEF GatherCandidate, Gather
  <2>34. ASSUME NEW c \in Conn, UIBuffer(c) PROVE Fresh
    BY <2>34, <2>k DEF UIBuffer, UICrash
  <2>35. ASSUME NEW c \in Conn, DisposeCancel(c) PROVE Fresh
    BY <2>35, <2>k DEF DisposeCancel, Visit
  <2>36. ASSUME NEW c \in Conn, DisposeClose(c) PROVE Fresh
    BY <2>36, NoneAssumption DEF DisposeClose, StaleUser, Running, ConnTypeOK, Closed
  <2>37. ASSUME NEW n \in Limits, SetClientLimit(n) PROVE Fresh
    BY <2>37, <2>k DEF SetClientLimit, Limit
  <2>38. ASSUME UIPush PROVE Fresh
    BY <2>38, <2>k DEF UIPush, UICrash
  <2>39. ASSUME Dispose PROVE Fresh
    BY <2>39, <2>k DEF Dispose
  <2>40. ASSUME DisposeSnapshot PROVE Fresh
    BY <2>40, <2>k DEF DisposeSnapshot
  <2>41. ASSUME DisposeServer PROVE Fresh
    BY <2>41, <2>k DEF DisposeServer
  <2>42. ASSUME ClearUsers PROVE Fresh
    BY <2>42, NoneAssumption DEF ClearUsers, StaleUser, Running, ConnTypeOK
  <2>43. ASSUME ClearStreams PROVE Fresh
    BY <2>43, <2>k DEF ClearStreams
  <2>44. CASE UNCHANGED vars
    BY <2>44, <2>k
  <2> QED
    BY <2>1, <2>2, <2>3, <2>4, <2>5, <2>6, <2>7, <2>8, <2>9, <2>10, <2>11,
       <2>12, <2>13, <2>14, <2>15, <2>16, <2>17, <2>18, <2>19, <2>20, <2>21, <2>22,
       <2>23, <2>24, <2>25, <2>26, <2>27, <2>28, <2>29, <2>30, <2>31, <2>32, <2>33,
       <2>34, <2>35, <2>36, <2>37, <2>38, <2>39, <2>40, <2>41, <2>42, <2>43, <2>44
    DEF Next, Network, ReadLoop, Offer, Disconnect, Worker, Serve, Camera, Disposing
<1>2. QED
  BY <1>1, TypeCorrect, PTL DEF Spec, StaleUserOnlyByRacingOpen

\* Only an offer that passed UserList.ContainsKey before OnDisconnect makes a
\* session that nobody will cancel (WebRTCServer.cs:140-150, 163-174).
THEOREM OrphanByRacingOffer == Spec => OrphanOnlyByRacingOffer
<1> DEFINE Watched == \A s \in Session :
                    ~Orphan(s) /\ Orphan(s)' => owner[s] = None \/ upc = "clearUsers"
<1>1. TypeOK /\ Ownership /\ [Next]_vars => Watched
  <2> SUFFICES ASSUME TypeOK, Ownership, [Next]_vars PROVE Watched
    OBVIOUS
  <2>a. ConnTypeOK /\ SessTypeOK
    BY DEF TypeOK
  <2>k. ASSUME UNCHANGED <<userList, streams, dpc, owner, cancel>> PROVE Watched
    BY <2>k DEF Orphan, Held
  <2> USE <2>a DEF vars, connVars, netVars, readVars, sessVars, talkVars, workVars, uiVars
  <2>1. ASSUME NEW c \in Conn, BrowserCloses(c) PROVE Watched
    BY <2>1, <2>k DEF BrowserCloses, Closed
  <2>2. ASSUME NEW c \in Conn, OnConnected(c) PROVE Watched
    BY <2>2, <2>k DEF OnConnected
  <2>3. ASSUME NEW c \in Conn, OnClose(c) PROVE Watched
    BY <2>3, NoneAssumption DEF OnClose, Drop, Orphan, Held, Running, ConnTypeOK, SessTypeOK, Ownership
  <2>4. ASSUME NEW c \in Conn, OnError(c) PROVE Watched
    BY <2>4, NoneAssumption DEF OnError, Drop, Orphan, Held, Running, ConnTypeOK, SessTypeOK, Ownership
  <2>5. ASSUME NEW c \in Conn, Admit(c) PROVE Watched
    BY <2>5, NoneAssumption DEF Admit, Orphan, Held, Running, ConnTypeOK, SessTypeOK, Ownership
  <2>6. ASSUME NEW c \in Conn, Reject(c) PROVE Watched
    BY <2>6, <2>k DEF Reject, Closed
  <2>7. ASSUME NEW c \in Conn, CheckLimit(c) PROVE Watched
    BY <2>7, <2>k DEF CheckLimit, ReadOn, Read
  <2>8. ASSUME NEW c \in Conn, CreateSession(c) PROVE Watched
    BY <2>8, NoneAssumption DEF CreateSession, NewSession, Unused, ReadOn, Read, Orphan, Held, Running, ConnTypeOK, SessTypeOK, Ownership
  <2>9. ASSUME NEW c \in Conn, StartWorker(c) PROVE Watched
    BY <2>9, <2>k DEF StartWorker, Read
  <2>10. ASSUME NEW c \in Conn, GoTaken(c) PROVE Watched
    BY <2>10, <2>k DEF GoTaken, ReadOn, Read
  <2>11. ASSUME NEW c \in Conn, GoTimeout(c) PROVE Watched
    BY <2>11, <2>k DEF GoTimeout, ReadOn, Read
  <2>12. ASSUME NEW c \in Conn, AttachHandlers(c) PROVE Watched
    BY <2>12, <2>k DEF AttachHandlers
  <2>13. ASSUME NEW c \in Conn, CallRemote(c) PROVE Watched
    BY <2>13, <2>k DEF CallRemote, Crash, ReadOn, Read
  <2>14. ASSUME NEW c \in Conn, CallAnswer(c) PROVE Watched
    BY <2>14, <2>k DEF CallAnswer, Crash, ReadOn, Read
  <2>15. ASSUME NEW c \in Conn, LeaveOffer(c) PROVE Watched
    BY <2>15, <2>k DEF LeaveOffer, Read
  <2>16. ASSUME NEW c \in Conn, CallCandidate(c) PROVE Watched
    BY <2>16, <2>k DEF CallCandidate, Crash, ReadOn, Read
  <2>17. ASSUME NEW c \in Conn, RemoveUser(c) PROVE Watched
    BY <2>17, NoneAssumption DEF RemoveUser, Drop, Orphan, Held, Running, ConnTypeOK, SessTypeOK, Ownership
  <2>18. ASSUME NEW c \in Conn, RemoveStream(c) PROVE Watched
    BY <2>18, NoneAssumption DEF RemoveStream, Drop, Orphan, Held, Running, ConnTypeOK, SessTypeOK, Ownership
  <2>19. ASSUME NEW c \in Conn, CancelRemoved(c) PROVE Watched
    BY <2>19, NoneAssumption DEF CancelRemoved, Drop, Orphan, Held, Running, ConnTypeOK, SessTypeOK, Ownership
  <2>20. ASSUME NEW c \in Conn, ReceiveOffer(c) PROVE Watched
    BY <2>20, <2>k DEF ReceiveOffer, ReadOn, Read
  <2>21. ASSUME NEW c \in Conn, ReceiveCandidate(c) PROVE Watched
    BY <2>21, <2>k DEF ReceiveCandidate, Read
  <2>22. ASSUME NEW s \in Session, WorkerStart(s) PROVE Watched
    BY <2>22, <2>k DEF WorkerStart, WorkOn, Work
  <2>23. ASSUME NEW s \in Session, WorkerInit(s) PROVE Watched
    BY <2>23, <2>k DEF WorkerInit, WorkOn, Work
  <2>24. ASSUME NEW s \in Session, WorkerSetGo(s) PROVE Watched
    BY <2>24, <2>k DEF WorkerSetGo, WorkOn, Work
  <2>25. ASSUME NEW s \in Session, WorkerFail(s) PROVE Watched
    BY <2>25, <2>k DEF WorkerFail, Work
  <2>26. ASSUME NEW s \in Session, WorkerTest(s) PROVE Watched
    BY <2>26, <2>k DEF WorkerTest, WorkOn, Work
  <2>27. ASSUME NEW s \in Session, PumpEnd(s) PROVE Watched
    BY <2>27, <2>k DEF PumpEnd, WorkOn, Work
  <2>28. ASSUME NEW s \in Session, WorkerDispose(s) PROVE Watched
    BY <2>28, <2>k DEF WorkerDispose, Work
  <2>29. ASSUME NEW s \in Session, ServeRemote(s) PROVE Watched
    BY <2>29, <2>k DEF ServeRemote, Read
  <2>30. ASSUME NEW s \in Session, ServeAnswer(s) PROVE Watched
    BY <2>30, <2>k DEF ServeAnswer, Read
  <2>31. ASSUME NEW s \in Session, ServeCandidate(s) PROVE Watched
    BY <2>31, <2>k DEF ServeCandidate, Read
  <2>32. ASSUME NEW s \in Session, CreateAnswerDone(s) PROVE Watched
    BY <2>32, <2>k DEF CreateAnswerDone
  <2>33. ASSUME NEW s \in Session, GatherCandidate(s) PROVE Watched
    BY <2>33, <2>k DEF GatherCandidate, Gather
  <2>34. ASSUME NEW c \in Conn, UIBuffer(c) PROVE Watched
    BY <2>34, <2>k DEF UIBuffer, UICrash
  <2>35. ASSUME NEW c \in Conn, DisposeCancel(c) PROVE Watched
    BY <2>35, NoneAssumption DEF DisposeCancel, Visit, Orphan, Held, Running, ConnTypeOK, SessTypeOK, Ownership
  <2>36. ASSUME NEW c \in Conn, DisposeClose(c) PROVE Watched
    BY <2>36, <2>k DEF DisposeClose
  <2>37. ASSUME NEW n \in Limits, SetClientLimit(n) PROVE Watched
    BY <2>37, <2>k DEF SetClientLimit, Limit
  <2>38. ASSUME UIPush PROVE Watched
    BY <2>38, <2>k DEF UIPush, UICrash
  <2>39. ASSUME Dispose PROVE Watched
    BY <2>39, <2>k DEF Dispose
  <2>40. ASSUME DisposeSnapshot PROVE Watched
    BY <2>40, <2>k DEF DisposeSnapshot
  <2>41. ASSUME DisposeServer PROVE Watched
    BY <2>41, <2>k DEF DisposeServer
  <2>42. ASSUME ClearUsers PROVE Watched
    BY <2>42, NoneAssumption DEF ClearUsers, Orphan, Held, Running, ConnTypeOK, SessTypeOK, Ownership
  <2>43. ASSUME ClearStreams PROVE Watched
    BY <2>43, NoneAssumption DEF ClearStreams, Orphan, Held, Running, ConnTypeOK, SessTypeOK, Ownership
  <2>44. CASE UNCHANGED vars
    BY <2>44, <2>k
  <2> QED
    BY <2>1, <2>2, <2>3, <2>4, <2>5, <2>6, <2>7, <2>8, <2>9, <2>10, <2>11,
       <2>12, <2>13, <2>14, <2>15, <2>16, <2>17, <2>18, <2>19, <2>20, <2>21, <2>22,
       <2>23, <2>24, <2>25, <2>26, <2>27, <2>28, <2>29, <2>30, <2>31, <2>32, <2>33,
       <2>34, <2>35, <2>36, <2>37, <2>38, <2>39, <2>40, <2>41, <2>42, <2>43, <2>44
    DEF Next, Network, ReadLoop, Offer, Disconnect, Worker, Serve, Camera, Disposing
<1>2. QED
  BY <1>1, TypeCorrect, OwnershipCorrect, PTL DEF Spec, OrphanOnlyByRacingOffer
=============================================================================
