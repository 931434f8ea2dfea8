--------------------------- MODULE SignalingServer ---------------------------
(***************************************************************************)
(* The WebSocket signaling server of the demo (WebRTCServer.cs), the       *)
(* worker task it starts for every session and the lifetime of the         *)
(* ManagedConductor that the task owns.  Four kinds of thread interleave:  *)
(*                                                                         *)
(*   - the Fleck read loop of a connection c (pc rpc[c]): OnConnected and  *)
(*     OnReceive, one callback at a time for one connection;               *)
(*   - the Fleck close/error callback of c (pc dpc[c]): OnDisconnect;      *)
(*   - the worker task of a session s (pc wpc[s]), which is also the       *)
(*     signaling thread of the session's conductor;                        *)
(*   - the UI thread (pc upc): virtual camera timer, ClientLimit, Dispose. *)
(*                                                                         *)
(* A call that the read loop makes on a peer connection is marshalled to   *)
(* the worker, and served only while the worker is in ProcessMessages.     *)
(***************************************************************************)
EXTENDS Naturals, Sequences, FiniteSets

CONSTANTS Conn,      \* WebSocket connections (ConnectionInfo.Id)
          Session,   \* WebRtcSession objects that may be created (bound)
          None,      \* no session
          Limits,    \* values the UI may give ClientLimit
          MaxCand,   \* local ICE candidates gathered per session (bound)
          VirtualCam,\* checkBoxVirtualCam is checked: the camera timer runs
          MayStop    \* the user may stop the server (bound)

ASSUME NoneAssumption == None \notin Session /\ None \notin Conn
ASSUME LimitsAssumption == Limits \subseteq Nat /\ Limits # {}
ASSUME CandAssumption == MaxCand \in Nat
ASSUME ModeAssumption == VirtualCam \in BOOLEAN /\ MayStop \in BOOLEAN

VARIABLES
  userList,     \* UserList: the connections admitted
  streams,      \* Streams: the session of a connection, or None
  clientLimit,  \* ClientLimit
  sock,         \* state of the WebSocket; "closing": OnClose has not run yet
  rpc,          \* where the read loop of a connection is
  rses,         \* the read loop's local variable "session"
  dpc,          \* where OnDisconnect of a connection is
  dses,         \* OnDisconnect's local variable "s"
  owner,        \* the connection a session was created for
  cancel,       \* session.Cancel.IsCancellationRequested
  go,           \* the ManualResetEvent "go" of the session's offer
  hooked,       \* the event handlers of session.WebRtc are attached
  wpc,          \* where the worker task of a session is
  cd,           \* the native Conductor of a session and its peer connection
  sent,         \* what was sent to the browser on behalf of a session
  gathered,     \* number of candidates gathered by a session
  upc,          \* what the UI thread is doing
  uses,         \* the session the UI thread is working on
  todo,         \* connections the UI thread's loop in Dispose has to visit
  alive         \* FALSE after an access violation ended the process

netVars  == <<userList, streams, sock, dpc, dses>>
readVars == <<rpc, rses>>
connVars == <<netVars, readVars>>
talkVars == <<owner, cancel, hooked, sent, gathered>>
workVars == <<wpc, cd, go>>
sessVars == <<talkVars, workVars>>
uiVars   == <<clientLimit, upc, uses, todo>>
vars     == <<connVars, sessVars, uiVars, alive>>

Ended   == {"done", "failed", "late", "skipped"}
Pumping == {"pump", "final"}
Calling == {"remoteCall", "answerCall", "candCall"}
Peer    == {"peer", "remote", "answering", "answered", "refused"}

SockState == {"new", "open", "closing", "closed"}
ReadPlace == Calling \cup {"idle", "admit", "reject", "offer", "create", "start",
                           "wait", "leave", "hook", "remote", "answer", "cand"}
DropPlace == {"idle", "users", "streams", "cancel"}
GoState   == {"unset", "set", "gone"}
WorkPlace == Ended \cup Pumping \cup {"none", "queued", "init", "set", "test",
                                     "failing", "dispose", "failDispose", "lateDispose"}
CdState   == Peer \cup {"none", "live", "freed"}

ConnTypeOK ==
  /\ userList \subseteq Conn
  /\ streams \in [Conn -> Session \cup {None}]
  /\ sock \in [Conn -> SockState]
  /\ rpc \in [Conn -> ReadPlace]
  /\ rses \in [Conn -> Session \cup {None}]
  /\ dpc \in [Conn -> DropPlace]
  /\ dses \in [Conn -> Session \cup {None}]

SessTypeOK ==
  /\ owner \in [Session -> Conn \cup {None}]
  /\ cancel \in [Session -> BOOLEAN]
  /\ go \in [Session -> GoState]
  /\ hooked \in [Session -> BOOLEAN]
  /\ wpc \in [Session -> WorkPlace]
  /\ cd \in [Session -> CdState]

SentTypeOK ==
  /\ sent \in [Session -> Seq({"answer", "candidate"})]
  /\ gathered \in [Session -> 0 .. MaxCand]

UITypeOK ==
  /\ clientLimit \in Limits
  /\ upc \in {"idle", "push", "cancelling", "closing", "clearUsers",
              "clearStreams", "disposed"}
  /\ uses \in Session \cup {None}
  /\ todo \subseteq Conn
  /\ alive \in BOOLEAN

TypeOK == ConnTypeOK /\ SessTypeOK /\ SentTypeOK /\ UITypeOK

Init ==
  /\ userList = {}
  /\ streams = [c \in Conn |-> None]
  /\ clientLimit \in Limits
  /\ sock = [c \in Conn |-> "new"]
  /\ rpc = [c \in Conn |-> "idle"]
  /\ rses = [c \in Conn |-> None]
  /\ dpc = [c \in Conn |-> "idle"]
  /\ dses = [c \in Conn |-> None]
  /\ owner = [s \in Session |-> None]
  /\ cancel = [s \in Session |-> FALSE]
  /\ go = [s \in Session |-> "unset"]
  /\ hooked = [s \in Session |-> FALSE]
  /\ wpc = [s \in Session |-> "none"]
  /\ cd = [s \in Session |-> "none"]
  /\ sent = [s \in Session |-> <<>>]
  /\ gathered = [s \in Session |-> 0]
  /\ upc = "idle"
  /\ uses = None
  /\ todo = {}
  /\ alive = TRUE
-----------------------------------------------------------------------------
(* Steps of the threads.                                                   *)

\* The process is alive, and survives this step.
Running == alive /\ alive' = alive

\* The read loop of c goes from one place to another,
Read(c, from, to) ==
  /\ Running
  /\ rpc[c] = from
  /\ rpc' = [rpc EXCEPT ![c] = to]
  /\ UNCHANGED <<netVars, talkVars, uiVars>>

\* ... and does nothing else.
ReadOn(c, from, to) == Read(c, from, to) /\ UNCHANGED <<rses, workVars>>

\* OnDisconnect of c goes from one place to another.
Drop(c, from, to) ==
  /\ Running
  /\ dpc[c] = from
  /\ dpc' = [dpc EXCEPT ![c] = to]
  /\ UNCHANGED <<readVars, workVars, owner, hooked, sent, gathered, uiVars>>

\* The worker of s goes from one place to another,
Work(s, from, to) ==
  /\ Running
  /\ wpc[s] = from
  /\ wpc' = [wpc EXCEPT ![s] = to]
  /\ UNCHANGED <<userList, streams, dpc, dses, readVars, talkVars, uiVars>>

\* ... and does nothing else.
WorkOn(s, from, to) == Work(s, from, to) /\ UNCHANGED <<sock, cd, go>>

\* context.Close(): ignored unless the socket is open.
Closed(c) == IF sock[c] = "open" THEN [sock EXCEPT ![c] = "closing"] ELSE sock

-----------------------------------------------------------------------------
(* Fleck's sockets and OnConnected.                                        *)

\* The browser leaves, or the connection breaks.
BrowserCloses(c) ==
  /\ Running
  /\ sock[c] = "open"
  /\ sock' = Closed(c)
  /\ UNCHANGED <<userList, streams, dpc, dses, readVars, sessVars, uiVars>>

Listening == upc \notin {"clearUsers", "clearStreams", "disposed"}

\* OnOpen: OnConnected compares UserList.Count with ClientLimit ...
OnConnected(c) ==
  /\ Running /\ Listening
  /\ sock[c] = "new"
  /\ sock' = [sock EXCEPT ![c] = "open"]
  /\ rpc' = [rpc EXCEPT ![c] = IF Cardinality(userList) < clientLimit
                                 THEN "admit" ELSE "reject"]
  /\ UNCHANGED <<userList, streams, dpc, dses, rses, sessVars, uiVars>>

\* ... then inserts the connection,
Admit(c) ==
  /\ Running
  /\ rpc[c] = "admit"
  /\ userList' = userList \cup {c}
  /\ rpc' = [rpc EXCEPT ![c] = "idle"]
  /\ UNCHANGED <<streams, sock, dpc, dses, rses, sessVars, uiVars>>

\* ... or closes it.
Reject(c) ==
  /\ Running
  /\ rpc[c] = "reject"
  /\ sock' = Closed(c)
  /\ rpc' = [rpc EXCEPT ![c] = "idle"]
  /\ UNCHANGED <<userList, streams, dpc, dses, rses, sessVars, uiVars>>

-----------------------------------------------------------------------------
(* OnDisconnect, run by OnClose and by OnError (which closes afterwards).  *)
(* The two are serialised per connection: both only TryRemove and Cancel.  *)

\* Mutant: OnClose forgets the UserList.
BadOnClose(c) ==
  /\ sock[c] = "closing"
  /\ sock' = [sock EXCEPT ![c] = "closed"]
  /\ Drop(c, "idle", "streams")
  /\ UNCHANGED <<userList, streams, dses, cancel>>

OnClose(c) ==
  /\ sock[c] = "closing"
  /\ sock' = [sock EXCEPT ![c] = "closed"]
  /\ Drop(c, "idle", "users")
  /\ UNCHANGED <<userList, streams, dses, cancel>>

OnError(c) ==
  /\ sock[c] = "open"
  /\ Drop(c, "idle", "users")
  /\ UNCHANGED <<userList, streams, sock, dses, cancel>>

\* Mutant: OnDisconnect ends after the UserList.
BadRemoveUser(c) ==
  /\ Drop(c, "users", "idle")
  /\ userList' = userList \ {c}
  /\ UNCHANGED <<streams, sock, dses, cancel>>

\* UserList.TryRemove
RemoveUser(c) ==
  /\ Drop(c, "users", "streams")
  /\ userList' = userList \ {c}
  /\ UNCHANGED <<streams, sock, dses, cancel>>

\* Mutant: the session removed is not cancelled.
BadRemoveStream(c) ==
  /\ Drop(c, "streams", "idle")
  /\ streams' = [streams EXCEPT ![c] = None]
  /\ sock' = Closed(c)
  /\ UNCHANGED <<userList, dses, cancel>>

\* Streams.TryRemove
RemoveStream(c) ==
  /\ \/ streams[c] = None /\ Drop(c, "streams", "idle") /\ sock' = Closed(c)
     \/ streams[c] # None /\ Drop(c, "streams", "cancel") /\ sock' = sock
  /\ streams' = [streams EXCEPT ![c] = None]
  /\ dses' = [dses EXCEPT ![c] = streams[c]]
  /\ UNCHANGED <<userList, cancel>>

\* s.Cancel.Cancel()
CancelRemoved(c) ==
  /\ Drop(c, "cancel", "idle")
  /\ cancel' = [cancel EXCEPT ![dses[c]] = TRUE]
  /\ dses' = [dses EXCEPT ![c] = None]
  /\ sock' = Closed(c)
  /\ UNCHANGED <<userList, streams>>

-----------------------------------------------------------------------------
(* OnReceive, case offer.                                                  *)

Unused == {s \in Session : owner[s] = None}

\* UserList.ContainsKey.  The second conjunct bounds the sessions created.
ReceiveOffer(c) ==
  /\ sock[c] = "open" /\ c \in userList
  /\ Cardinality({d \in Conn : rpc[d] \in {"offer", "create"}}) < Cardinality(Unused)
  /\ ReadOn(c, "idle", "offer")

\* UserList.Count <= ClientLimit
CheckLimit(c) ==
  ReadOn(c, "offer", IF Cardinality(userList) <= clientLimit THEN "create" ELSE "idle")

\* Streams[id] = new WebRtcSession()
NewSession(c) ==
  /\ Running
  /\ rpc[c] = "create"
  /\ \E s \in Unused : /\ streams' = [streams EXCEPT ![c] = s]
                       /\ rses' = [rses EXCEPT ![c] = s]
                       /\ owner' = [owner EXCEPT ![s] = c]
                       /\ cd' = [cd EXCEPT ![s] = "live"]
  /\ rpc' = [rpc EXCEPT ![c] = "start"]
  /\ UNCHANGED <<userList, sock, dpc, dses, cancel, go, hooked, wpc, sent,
                 gathered, uiVars>>

\* Mutant: the Streams.ContainsKey guard is missing.
BadCreateSession(c) == NewSession(c)

\* !Streams.ContainsKey and the insertion.  One step: only this read loop
\* inserts under this key.
CreateSession(c) ==
  \/ streams[c] # None /\ ReadOn(c, "create", "idle")
  \/ streams[c] = None /\ NewSession(c)

\* Task.Factory.StartNew
StartWorker(c) ==
  /\ Read(c, "start", "wait")
  /\ wpc' = [wpc EXCEPT ![rses[c]] = "queued"]
  /\ UNCHANGED <<rses, cd, go>>

\* Mutant: no event handler is attached.
BadGoTaken(c) == ReadOn(c, "wait", "remote") /\ go[rses[c]] = "set"

\* go.WaitOne(9999) returns true, or times out
GoTaken(c) == ReadOn(c, "wait", "hook") /\ go[rses[c]] = "set"

\* Mutant: WaitOne without a time limit.
BadGoTimeout(c) == rpc[c] = "idle" /\ ReadOn(c, "wait", "leave")

GoTimeout(c) == ReadOn(c, "wait", "leave") /\ go[rses[c]] = "unset"

\* session.WebRtc.OnIceCandidate += ..., OnSuccessAnswer += ..., ...
AttachHandlers(c) ==
  /\ Running
  /\ rpc[c] = "hook"
  /\ rpc' = [rpc EXCEPT ![c] = "remote"]
  /\ hooked' = [hooked EXCEPT ![rses[c]] = TRUE]
  /\ UNCHANGED <<netVars, rses, owner, cancel, sent, gathered, workVars, uiVars>>

\* A call on a conductor that is deleted has no defined outcome: the process
\* dies, or the callback ends with an exception that its caller swallows.
Crash(c, at) ==
  /\ alive /\ rpc[c] = at
  /\ cd[rses[c]] = "freed"
  /\ alive' = FALSE
  /\ UNCHANGED <<connVars, sessVars, uiVars>>

\* Conductor::OnOfferRequest: the description parses and SetRemoteDescription
\* is marshalled to the worker, or it does not and the call returns.
CallRemote(c) ==
  \/ Crash(c, "remote")
  \/ ReadOn(c, "remote", "leave")
  \/ ReadOn(c, "remote", "remoteCall") /\ cd[rses[c]] \in Peer

\* SetRemoteDescription returned: CreateAnswer is marshalled to the worker.
CallAnswer(c) ==
  \/ Crash(c, "answer")
  \/ ReadOn(c, "answer", "leave") /\ cd[rses[c]] = "freed"
  \/ ReadOn(c, "answer", "answerCall") /\ cd[rses[c]] \in Peer

\* End of "using (go)".
LeaveOffer(c) ==
  /\ Read(c, "leave", "idle")
  /\ go' = [go EXCEPT ![rses[c]] = "gone"]
  /\ rses' = [rses EXCEPT ![c] = None]
  /\ UNCHANGED <<wpc, cd>>

-----------------------------------------------------------------------------
(* OnReceive, case onicecandidate: without an entry in Streams the lookup  *)
(* throws and the message is dropped.                                      *)

ReceiveCandidate(c) ==
  /\ sock[c] = "open" /\ c \in userList
  /\ streams[c] # None
  /\ Read(c, "idle", "cand")
  /\ rses' = [rses EXCEPT ![c] = streams[c]]
  /\ UNCHANGED workVars

\* Conductor::AddIceCandidate: returns at once if the candidate does not parse
\* or there is no peer connection.
CallCandidate(c) ==
  \/ Crash(c, "cand")
  \/ /\ Read(c, "cand", "idle")
     /\ rses' = [rses EXCEPT ![c] = None]
     /\ UNCHANGED workVars
  \/ ReadOn(c, "cand", "candCall") /\ cd[rses[c]] \in Peer

-----------------------------------------------------------------------------
(* The worker task of a session.                                           *)

\* A task whose token is cancelled before it starts never runs.
WorkerStart(s) == WorkOn(s, "queued", IF cancel[s] THEN "skipped" ELSE "init")

\* Mutant: the result of InitializePeerConnection is ignored.
BadWorkerInit(s) ==
  /\ Work(s, "init", "set")
  /\ cd' \in {cd, [cd EXCEPT ![s] = "peer"]}
  /\ UNCHANGED <<sock, go>>

\* AddServerConfig, SetAudio, SetVideoCapturer, InitializePeerConnection
WorkerInit(s) ==
  \/ WorkOn(s, "init", "failing")
  \/ /\ Work(s, "init", "set")
     /\ cd' = [cd EXCEPT ![s] = "peer"]
     /\ UNCHANGED <<sock, go>>

\* go.Set(), which throws when the handler timed out and disposed "go"
WorkerSetGo(s) ==
  \/ go[s] = "gone" /\ WorkOn(s, "set", "lateDispose")
  \/ /\ go[s] # "gone"
     /\ Work(s, "set", "test")
     /\ go' = [go EXCEPT ![s] = "set"]
     /\ UNCHANGED <<sock, cd>>

\* Mutant: the failed task ends without the "using" of its conductor.
BadWorkerFail(s) ==
  /\ Work(s, "failing", "failed")
  /\ sock' = Closed(owner[s])
  /\ UNCHANGED <<cd, go>>

\* initialisation failed: context.Close()
WorkerFail(s) ==
  /\ Work(s, "failing", "failDispose")
  /\ sock' = Closed(owner[s])
  /\ UNCHANGED <<cd, go>>

\* Mutant: the loop ends when ProcessMessages is over.
BadWorkerTest(s) == WorkOn(s, "test", IF cancel[s] THEN "final" ELSE "dispose")

\* !session.Cancel.Token.IsCancellationRequested
WorkerTest(s) == WorkOn(s, "test", IF cancel[s] THEN "final" ELSE "pump")

\* The read loop of the session's connection waits in a call on its conductor.
Waiting(s) == rpc[owner[s]] \in Calling /\ rses[owner[s]] = s

\* Mutant: one ProcessMessages instead of a loop.
BadPumpEnd(s) ==
  /\ WorkOn(s, "pump", "dispose") \/ WorkOn(s, "final", "dispose")
  /\ ~Waiting(s)

\* ProcessMessages(1000) is over.  It serves the calls that are waiting before
\* it looks at the time; one that comes later comes after it.
PumpEnd(s) ==
  /\ WorkOn(s, "pump", "test") \/ WorkOn(s, "final", "dispose")
  /\ ~Waiting(s)

\* ~ManagedConductor at the end of "using (session.WebRtc)"
WorkerDispose(s) ==
  /\ \/ Work(s, "dispose", "done")
     \/ Work(s, "failDispose", "failed")
     \/ Work(s, "lateDispose", "late")
  /\ cd' = [cd EXCEPT ![s] = "freed"]
  /\ UNCHANGED <<sock, go>>

-----------------------------------------------------------------------------
(* What ProcessMessages of session s does on the signaling thread.         *)

\* SetRemoteDescription, CreateAnswer or AddIceCandidate for the read loop
ServeRemote(s) ==
  /\ wpc[s] \in Pumping /\ Waiting(s)
  /\ Read(owner[s], "remoteCall", "answer")
  /\ cd' = [cd EXCEPT ![s] = "remote"]
  /\ UNCHANGED <<rses, wpc, go>>

ServeAnswer(s) ==
  /\ wpc[s] \in Pumping /\ Waiting(s)
  /\ Read(owner[s], "answerCall", "leave")
  /\ cd' = [cd EXCEPT ![s] = "answering"]
  /\ UNCHANGED <<rses, wpc, go>>

ServeCandidate(s) ==
  /\ wpc[s] \in Pumping /\ Waiting(s)
  /\ Read(owner[s], "candCall", "idle")
  /\ rses' = [rses EXCEPT ![owner[s]] = None]
  /\ UNCHANGED workVars

\* if (context.IsAvailable) context.Send(...), in the attached handlers
Send(s, m) == sent' = IF hooked[s] /\ sock[owner[s]] = "open"
                        THEN [sent EXCEPT ![s] = Append(@, m)] ELSE sent

\* Conductor::OnSuccess: SetLocalDescription, then onSuccess -> OnSuccessAnswer;
\* or OnFailure.
CreateAnswerDone(s) ==
  /\ Running
  /\ wpc[s] \in Pumping /\ cd[s] = "answering"
  /\ \/ cd' = [cd EXCEPT ![s] = "answered"] /\ Send(s, "answer")
     \/ cd' = [cd EXCEPT ![s] = "refused"] /\ UNCHANGED sent
  /\ UNCHANGED <<connVars, owner, cancel, go, hooked, wpc, gathered, uiVars>>

\* Conductor::OnIceCandidate, when the peer connection has come to a stage
Gather(s, stage) ==
  /\ Running
  /\ wpc[s] \in Pumping /\ cd[s] = stage /\ gathered[s] < MaxCand
  /\ gathered' = [gathered EXCEPT ![s] = @ + 1]
  /\ Send(s, "candidate")
  /\ UNCHANGED <<connVars, owner, cancel, hooked, workVars, uiVars>>

\* Mutant: candidates are raised before the answer.
BadGatherCandidate(s) == Gather(s, "answering")

\* Candidates are gathered once the local description is set.
GatherCandidate(s) == Gather(s, "answered")

-----------------------------------------------------------------------------
(* The UI thread.                                                          *)

Limit(n) ==
  /\ Running
  /\ upc = "idle"
  /\ clientLimit' = n
  /\ UNCHANGED <<connVars, sessVars, upc, uses, todo>>

\* numericMaxClients_ValueChanged
SetClientLimit(n) == Limit(n)

UICrash ==
  /\ alive
  /\ alive' = FALSE
  /\ UNCHANGED <<upc, uses>>

\* timerVirtualCam_Tick: VideoCapturerI420Buffer of a session in Streams; an
\* exception ends the tick.
UIBuffer(c) ==
  /\ VirtualCam
  /\ upc = "idle" /\ streams[c] # None
  /\ \/ cd[streams[c]] = "freed" /\ UICrash
     \/ /\ Running
        /\ IF cd[streams[c]] = "freed"
             THEN UNCHANGED <<upc, uses>>
             ELSE upc' = "push" /\ uses' = streams[c]
  /\ UNCHANGED <<connVars, sessVars, clientLimit, todo>>

\* EncodeI420 into the buffer and PushFrame
UIPush ==
  /\ upc = "push"
  /\ \/ cd[uses] = "freed" /\ UICrash
     \/ /\ Running
        /\ upc' = "idle"
        /\ uses' = None
  /\ UNCHANGED <<connVars, sessVars, clientLimit, todo>>

\* Dispose: Cancel every session in Streams, ...
Dispose ==
  /\ Running
  /\ MayStop
  /\ upc = "idle"
  /\ upc' = "cancelling"
  /\ todo' = Conn
  /\ UNCHANGED <<connVars, sessVars, clientLimit, uses>>

Visit(c) ==
  /\ Running
  /\ upc = "cancelling" /\ c \in todo
  /\ todo' = todo \ {c}
  /\ UNCHANGED <<connVars, owner, hooked, sent, gathered, workVars, clientLimit,
                 upc, uses>>

\* Mutant: Dispose only closes the sockets.
BadDisposeCancel(c) == Visit(c) /\ UNCHANGED cancel

DisposeCancel(c) ==
  /\ Visit(c)
  /\ cancel' = IF streams[c] = None THEN cancel
                 ELSE [cancel EXCEPT ![streams[c]] = TRUE]

\* ... Close every connection in a snapshot of UserList, ...
DisposeSnapshot ==
  /\ Running
  /\ upc = "cancelling" /\ todo = {}
  /\ upc' = "closing"
  /\ todo' = userList
  /\ UNCHANGED <<connVars, sessVars, clientLimit, uses>>

DisposeClose(c) ==
  /\ Running
  /\ upc = "closing" /\ c \in todo
  /\ todo' = todo \ {c}
  /\ sock' = Closed(c)
  /\ UNCHANGED <<userList, streams, dpc, dses, readVars, sessVars,
                 clientLimit, upc, uses>>

\* ... server.Dispose(), UserList.Clear(), Streams.Clear().
DisposeServer ==
  /\ Running
  /\ upc = "closing" /\ todo = {}
  /\ upc' = "clearUsers"
  /\ UNCHANGED <<connVars, sessVars, clientLimit, uses, todo>>

ClearUsers ==
  /\ Running
  /\ upc = "clearUsers"
  /\ upc' = "clearStreams"
  /\ userList' = {}
  /\ UNCHANGED <<streams, sock, rpc, rses, dpc, dses, sessVars, clientLimit,
                 uses, todo>>

ClearStreams ==
  /\ Running
  /\ upc = "clearStreams"
  /\ upc' = "disposed"
  /\ streams' = [c \in Conn |-> None]
  /\ UNCHANGED <<userList, sock, rpc, rses, dpc, dses, sessVars, clientLimit,
                 uses, todo>>

-----------------------------------------------------------------------------
Network(c) == BrowserCloses(c) \/ OnConnected(c) \/ OnClose(c) \/ OnError(c)

Offer(c) == CheckLimit(c) \/ CreateSession(c) \/ StartWorker(c) \/ GoTaken(c)
            \/ GoTimeout(c) \/ AttachHandlers(c) \/ CallRemote(c)
            \/ CallAnswer(c) \/ LeaveOffer(c)

Disconnect(c) == RemoveUser(c) \/ RemoveStream(c) \/ CancelRemoved(c)

ReadLoop(c) == Admit(c) \/ Reject(c) \/ Offer(c) \/ CallCandidate(c)

Serve(s) == ServeRemote(s) \/ ServeAnswer(s) \/ ServeCandidate(s)

Worker(s) == WorkerStart(s) \/ WorkerInit(s) \/ WorkerSetGo(s) \/ WorkerFail(s)
             \/ WorkerTest(s) \/ PumpEnd(s) \/ WorkerDispose(s) \/ Serve(s)

Camera == UIPush \/ \E c \in Conn : UIBuffer(c)

Disposing == DisposeSnapshot \/ DisposeServer \/ ClearUsers \/ ClearStreams
             \/ \E c \in Conn : DisposeCancel(c) \/ DisposeClose(c)

Next ==
  \/ \E c \in Conn : \/ Network(c) \/ ReadLoop(c) \/ Disconnect(c)
                     \/ ReceiveOffer(c) \/ ReceiveCandidate(c)
  \/ \E s \in Session : Worker(s) \/ CreateAnswerDone(s) \/ GatherCandidate(s)
  \/ \E n \in Limits : SetClientLimit(n)
  \/ Camera
  \/ Dispose
  \/ Disposing

Spec == Init /\ [][Next]_vars

\* Threads that have work to do run; the signaling thread gets the answer that
\* was asked for at one of its turns in ProcessMessages.
Fairness ==
  /\ \A c \in Conn : WF_vars(ReadLoop(c)) /\ WF_vars(Disconnect(c))
                     /\ WF_vars(OnClose(c))
  /\ \A s \in Session : WF_vars(Worker(s)) /\ SF_vars(CreateAnswerDone(s))
  /\ WF_vars(Disposing)

FairSpec == Spec /\ Fairness
-----------------------------------------------------------------------------
(* Properties.                                                             *)

Held(s) == owner[s] # None /\ streams[owner[s]] = s

BeingCancelled(s) == dpc[owner[s]] = "cancel" /\ dses[owner[s]] = s

\* A session that left Streams has been cancelled, or the thread that took it
\* out is about to cancel it (WebRTCServer.cs:147-150): no step of the other
\* threads loses the only reference to a session whose worker still runs.
\* The exception is Streams.Clear() in Dispose, after its loop has gone by.
RemovedIsCancelled ==
  \A s \in Session :
    owner[s] # None /\ ~Held(s) => cancel[s] \/ BeingCancelled(s) \/ upc = "disposed"

\* A connection has at most one session that is not cancelled or about to be
\* (the Streams.ContainsKey guard of an offer, WebRTCServer.cs:172), although
\* OnDisconnect may take the first one out while a second offer is checked.
OneSessionPerConnection ==
  \A s, t \in Session :
    s # t /\ owner[s] # None /\ owner[s] = owner[t] =>
      (\E u \in {s, t} : cancel[u] \/ BeingCancelled(u)) \/ upc = "disposed"

\* The conductor is deleted under the worker's control only: after a cancel,
\* after a failed initialisation, or after the offer gave up waiting for it.
\* So a thread that still uses a deleted conductor (a late candidate, an offer
\* in progress, the camera timer) does so for one of these three reasons.
FreedOnlyAfterStop ==
  \A s \in Session : cd[s] = "freed" => cancel[s] \/ wpc[s] \in {"failed", "late"}

\* A task that ended has deleted its session's conductor ("using", line 182), or
\* it was cancelled before it started: then nobody deletes the conductor, which
\* has no peer connection, no handlers, and nothing was told to the browser.
LeakOnlyUnstarted ==
  \A s \in Session : wpc[s] \in Ended /\ cd[s] # "freed" =>
    cancel[s] /\ cd[s] = "live" /\ ~hooked[s] /\ sent[s] = <<>>

\* Once the offer handler has seen "go", the session's conductor has a peer
\* connection, and only a cancel can take it away again (the event is set
\* after InitializePeerConnection succeeded, WebRTCServer.cs:207-210).
GoMeansReady ==
  \A c \in Conn :
    rpc[c] \in {"hook", "remote", "remoteCall", "answer", "answerCall"} =>
      \/ cd[rses[c]] \in Peer
      \/ cd[rses[c]] = "freed" /\ cancel[rses[c]] /\ wpc[rses[c]] = "done"

\* The event handlers are attached before the peer connection is asked for an
\* answer, so neither the answer nor a candidate is raised with nobody
\* listening, whatever the worker does between go.Set() and OnOfferRequest.
\* (Of the frames of the local renderer, which the initialisation makes, the
\* first may come before the handlers; they are not modelled.)
NoEventLost ==
  \A s \in Session : cd[s] \in {"remote", "answering", "answered", "refused"} => hooked[s]

\* A worker at one of these places still comes to a ProcessMessages.
Serves == {"set", "test", "pump", "final"}

\* A read loop never waits for an event that was disposed.  And the call on a
\* conductor in which it waits is served, or it is lost in one of two ways: the
\* session was cancelled and its worker had its last ProcessMessages, or the offer
\* gave the worker up before it came to the first (a candidate that is passed on
\* to the worker when it has initialised, before its go.Set() throws, is never
\* served: WebRTCServer.cs:182-229, 301-314).
CallsAreServed ==
  \A c \in Conn :
    /\ rpc[c] = "wait" => go[rses[c]] \in {"unset", "set"}
    /\ rpc[c] \in Calling =>
         \/ wpc[rses[c]] \in Serves /\ Waiting(rses[c])
         \/ wpc[rses[c]] \in {"dispose", "done"} /\ cancel[rses[c]]
         \/ wpc[rses[c]] \in {"lateDispose", "late"} /\ go[rses[c]] = "gone"

\* A session nobody will ever cancel: its connection has gone, and OnDisconnect
\* will not look at Streams again.
Orphan(s) ==
  Held(s) /\ ~cancel[s] /\ owner[s] \notin userList
  /\ dpc[owner[s]] \notin {"users", "streams"}

\* Only one interleaving makes an orphan: the offer that creates it passed the
\* UserList check before OnDisconnect removed the connection.  A session that
\* exists when OnDisconnect runs never becomes one.
OrphanOnlyByRacingOffer ==
  [][\A s \in Session :
       ~Orphan(s) /\ Orphan(s)' => owner[s] = None \/ upc = "clearUsers"]_vars

\* A closed connection that still takes one of the ClientLimit places.
StaleUser(c) == c \in userList /\ sock[c] = "closed" /\ dpc[c] # "users"

\* Only an OnConnected that inserts after OnDisconnect ran leaves one behind.
StaleUserOnlyByRacingOpen ==
  [][\A c \in Conn : ~StaleUser(c) /\ StaleUser(c)' => rpc[c] = "admit"]_vars

\* UserList never holds more connections than ClientLimit: the others are
\* told "OverLimit, Closed" (WebRTCServer.cs:98).
NeverOverLimit == Cardinality(userList) <= clientLimit

\* A session in Streams when OnDisconnect of its connection begins ends: its
\* conductor is deleted by the worker, or the worker never started.  Dispose is
\* the exception: its Streams.Clear takes away sessions that were inserted after
\* its loop, and OnDisconnect then finds nothing to cancel.
DisconnectEndsSession ==
  \A s \in Session :
    (Held(s) /\ dpc[owner[s]] = "users") ~> (wpc[s] \in Ended \/ ~alive \/ upc = "disposed")

\* A session in Streams when the loop of Dispose reaches its connection ends.
StopEndsSession ==
  \A s \in Session :
    (Held(s) /\ upc = "cancelling" /\ owner[s] \in todo) ~> (wpc[s] \in Ended \/ ~alive)

\* A read-loop callback returns, or it waits for a worker that is gone: a call
\* marshalled after the last ProcessMessages is the only one never served.
CallbackReturns ==
  \A c \in Conn :
    rpc[c] # "idle" ~> \/ rpc[c] = "idle"
                       \/ rpc[c] \in Calling /\ cd[rses[c]] = "freed"
                       \/ ~alive

\* An offer that was applied is answered or refused unless the session stops.
OfferAnswered ==
  \A s \in Session :
    cd[s] = "answering" ~> (cd[s] \in {"answered", "refused"} \/ cancel[s] \/ ~alive)

\* What a session promises, and that the server keeps the promise.
Life(s) == IF cd[s] \in Peer THEN "running"
           ELSE IF cd[s] = "live" THEN "starting"
           ELSE IF cd[s] = "freed" THEN "ended" ELSE "none"

Promise == INSTANCE SessionPromise
             WITH life <- [s \in Session |-> Life(s)], sent <- sent

\* SignalingServer implements SessionPromise.
KeepsPromise == Promise!Spec
=============================================================================
