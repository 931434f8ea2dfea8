---------------------------- MODULE BrowserClient -----------------------------
(***************************************************************************)
(* The browser client of the demo (web/rtc_main.js), connected over a      *)
(* WebSocket to a server that keeps SessionPromise.  The script has one    *)
(* global for the socket, the peer connection, the data channel, the       *)
(* answer and the candidates; callbacks of the socket, of the peer         *)
(* connection and of timers run one at a time and use these globals, also  *)
(* when the user connects a second time.                                   *)
(*                                                                         *)
(* A connection attempt k has one socket, and one peer connection with its *)
(* data channel if the socket opens; the globals hold the k they belong    *)
(* to.  Media, statistics and the texts of the messages are left out.      *)
(***************************************************************************)
EXTENDS Naturals, Sequences, FiniteSets

CONSTANTS Attempt,  \* connection attempts (bound)
          None,     \* null
          MaxIce    \* bound on the candidates of either side, per attempt

ASSUME AttemptAssumption == None \notin Attempt /\ MaxIce \in Nat

VARIABLES
  button,       \* btnconnect is enabled
  socket, remotestream, dataChannel, remoteAnswer,   \* the globals of these
  remoteIce, localIce,                               \* names
  localstream,  \* getUserMedia has given a stream
  sock,         \* readyState of a socket; "threw": there is none
  peer,         \* where a peer connection is
  added,        \* peer connections that localstream was added to
  timers,       \* the intervals set by onaddstream
  early,        \* a candidate was added before the remote description was set
  up,           \* messages under way to the server
  got,          \* how many messages of the server were delivered
  life, sent    \* the server's sessions (SessionPromise)

Server == INSTANCE SessionPromise WITH Session <- Attempt

globals    == <<socket, remotestream, dataChannel, remoteAnswer, remoteIce, localIce>>
wireVars   == <<up, got>>
serverVars == <<life, sent>>
vars == <<button, globals, localstream, sock, peer, added, timers, early, wireVars, serverVars>>

Message == {"offer", "candidate"}
Timer   == {"test", "stats"}

TypeOK ==
  /\ button \in BOOLEAN /\ localstream \in BOOLEAN /\ early \in BOOLEAN
  /\ {socket, remotestream, dataChannel, remoteAnswer} \subseteq Attempt \cup {None}
  /\ remoteIce \in Seq(Attempt) /\ localIce \in Seq(Attempt)
  /\ sock \in [Attempt -> {"none", "threw", "connecting", "open", "closing", "closed"}]
  /\ peer \in [Attempt -> {"none", "creating", "setting", "offered", "answered", "closed"}]
  /\ added \subseteq Attempt /\ timers \subseteq Timer \X Attempt
  /\ up \in [Attempt -> Seq(Message)]
  /\ got \in [Attempt -> 0 .. MaxIce + 1]

Init ==
  /\ button = FALSE
  /\ socket = None /\ remotestream = None /\ dataChannel = None /\ remoteAnswer = None
  /\ remoteIce = <<>> /\ localIce = <<>>
  /\ localstream = FALSE
  /\ sock = [k \in Attempt |-> "none"] /\ peer = [k \in Attempt |-> "none"]
  /\ added = {} /\ timers = {} /\ early = FALSE
  /\ up = [k \in Attempt |-> <<>>] /\ got = [k \in Attempt |-> 0]
  /\ Server!Init

(***************************************************************************)
(* The page and the socket.                                                *)
(***************************************************************************)
\* window.onload
Load ==
  /\ ~button /\ \A k \in Attempt : sock[k] = "none"
  /\ button' = TRUE
  /\ UNCHANGED <<globals, localstream, sock, peer, added, timers, early, wireVars, serverVars>>

\* connect: the constructor throws on a malformed address.
Connect(k) ==
  /\ button /\ sock[k] = "none"
  /\ button' = FALSE
  /\ \/ socket' = k /\ sock' = [sock EXCEPT ![k] = "connecting"]
     \/ sock' = [sock EXCEPT ![k] = "threw"] /\ UNCHANGED socket
  /\ UNCHANGED <<remotestream, dataChannel, remoteAnswer, remoteIce, localIce,
                 localstream, peer, added, timers, early, wireVars, serverVars>>

\* onopen: startStream makes the peer connection with its data channel, adds the
\* local stream, and asks for an offer.
StartStream(k) ==
  /\ sock[k] = "connecting"
  /\ sock' = [sock EXCEPT ![k] = "open"]
  /\ remotestream' = k /\ dataChannel' = k
  /\ peer' = [peer EXCEPT ![k] = "creating"]
  /\ added' = IF localstream THEN added \cup {k} ELSE added
  /\ UNCHANGED <<button, socket, remoteAnswer, remoteIce, localIce, localstream,
                 timers, early, wireVars, serverVars>>

\* getLocalStream: the stream is added to the peer connection that there is.
GetLocalStream ==
  /\ ~localstream /\ localstream' = TRUE
  /\ added' = IF remotestream # None THEN added \cup {remotestream} ELSE added
  /\ UNCHANGED <<button, globals, sock, peer, timers, early, wireVars, serverVars>>

\* socket.close(), by an error callback.
Closing == IF sock[socket] = "open" THEN [sock EXCEPT ![socket] = "closing"] ELSE sock

\* The server or the network closes the socket.
Drop(k) ==
  /\ sock[k] = "open"
  /\ sock' = [sock EXCEPT ![k] = "closing"]
  /\ UNCHANGED <<button, globals, localstream, peer, added, timers, early, wireVars, serverVars>>

BadEnds(k) ==
  /\ sock[k] \in {"connecting", "closing"}
  /\ sock' = [sock EXCEPT ![k] = "closed"] /\ up' = [up EXCEPT ![k] = <<>>]
  /\ button' = (button \/ sock[k] = "closing")
  /\ UNCHANGED <<socket, localstream, added, timers, early, got, serverVars>>

\* A close event, also for a connection that was not made.
Ends(k) ==
  /\ sock[k] \in {"connecting", "closing"}
  /\ sock' = [sock EXCEPT ![k] = "closed"] /\ up' = [up EXCEPT ![k] = <<>>]
  /\ button' = TRUE
  /\ UNCHANGED <<socket, localstream, added, timers, early, got, serverVars>>

BadOnClose(k) ==
  /\ Ends(k)
  /\ peer' = IF remotestream # None THEN [peer EXCEPT ![remotestream] = "closed"] ELSE peer
  /\ remotestream' = None /\ dataChannel' = None
  /\ remoteIce' = <<>>
  /\ UNCHANGED <<remoteAnswer, localIce>>

\* onclose: the peer connection is closed and every global but socket cleared.
OnClose(k) ==
  /\ Ends(k)
  /\ peer' = IF remotestream # None THEN [peer EXCEPT ![remotestream] = "closed"] ELSE peer
  /\ remotestream' = None /\ dataChannel' = None
  /\ remoteAnswer' = None /\ remoteIce' = <<>> /\ localIce' = <<>>

(***************************************************************************)
(* Callbacks of the peer connection.  A closed one calls nobody back.      *)
(***************************************************************************)
\* An error callback closes the socket.
Fails ==
  /\ sock' = Closing
  /\ UNCHANGED <<button, globals, localstream, peer, added, timers, early, wireVars, serverVars>>

\* send(): a socket that is closing takes nothing.
Sends(m) ==
  up' = IF sock[socket] = "open" THEN [up EXCEPT ![socket] = Append(@, m)] ELSE up

Goes(k, from, to) ==
  /\ peer[k] = from /\ peer' = [peer EXCEPT ![k] = to]
  /\ UNCHANGED <<button, globals, localstream, sock, added, timers, early, got, serverVars>>

\* createOffer: setLocalDescription of the peer connection in remotestream.
OfferCreated(k) ==
  \/ Goes(k, "creating", "setting") /\ UNCHANGED up
  \/ peer[k] = "creating" /\ Fails

\* setLocalDescription: the offer is sent.
LocalDescriptionSet(k) ==
  \/ Goes(k, "setting", "offered") /\ Sends("offer")
  \/ peer[k] = "setting" /\ Fails

\* onicecandidate, from the time the local description is set.
OnIceCandidate(k) ==
  /\ peer[k] \in {"offered", "answered"}
  /\ Len(localIce) < MaxIce
  /\ Sends("candidate")
  /\ localIce' = Append(localIce, k)
  /\ UNCHANGED <<button, socket, remotestream, dataChannel, remoteAnswer, remoteIce,
                 localstream, sock, peer, added, timers, early, got, serverVars>>

\* onaddstream: two intervals are set; an exception closes the socket.
OnAddStream(k) ==
  \/ /\ peer[k] = "answered"
     /\ timers' = timers \cup (Timer \X {k})
     /\ UNCHANGED <<button, globals, localstream, sock, peer, added, early, wireVars, serverVars>>
  \/ peer[k] = "answered" /\ Fails

\* setRemoteDescription fails.
RemoteDescriptionFails(k) == peer[k] = "answered" /\ Fails

BadTick(t) ==
  /\ t \in timers /\ remotestream = None /\ t[2] = socket
  /\ timers' = timers \ {t}
  /\ UNCHANGED <<button, globals, localstream, sock, peer, added, early, wireVars, serverVars>>

\* An interval stops when it finds no peer connection, whichever set it; else it
\* goes on, and uses the data channel and the peer connection that there are.
Tick(t) ==
  /\ t \in timers /\ remotestream = None
  /\ timers' = timers \ {t}
  /\ UNCHANGED <<button, globals, localstream, sock, peer, added, early, wireVars, serverVars>>

(***************************************************************************)
(* onmessage: the messages of a socket come in order while it is open.     *)
(***************************************************************************)
Delivered(k, m) ==
  /\ sock[k] = "open"
  /\ got[k] < Len(sent[k]) /\ sent[k][got[k] + 1] = m
  /\ got' = [got EXCEPT ![k] = @ + 1]
  /\ UNCHANGED <<button, socket, remotestream, dataChannel, localIce, localstream, sock,
                 added, timers, up, serverVars>>

BadOnAnswer(k) ==
  /\ Delivered(k, "answer")
  /\ remoteAnswer' = k
  /\ UNCHANGED <<peer, remoteIce, early>>

\* "OnSuccessAnswer", if (remotestream)
OnAnswer(k) ==
  /\ Delivered(k, "answer")
  /\ IF remotestream # None
       THEN /\ remoteAnswer' = k
            /\ peer' = [peer EXCEPT ![remotestream] = "answered"]
       ELSE UNCHANGED <<remoteAnswer, peer>>
  /\ UNCHANGED <<remoteIce, early>>

\* "OnIceCandidate", if (remotestream)
OnCandidate(k) ==
  /\ Delivered(k, "candidate")
  /\ IF remotestream # None
       THEN /\ remoteIce' = Append(remoteIce, k)
            /\ early' = (early \/ peer[remotestream] # "answered")
       ELSE UNCHANGED <<remoteIce, early>>
  /\ UNCHANGED <<peer, remoteAnswer>>

(***************************************************************************)
(* The server: it takes messages in order, and does what it promises.      *)
(***************************************************************************)
clientVars == <<button, globals, localstream, sock, peer, added, timers, early, got>>

\* An offer is taken or refused; a candidate without a session is dropped.
ServerReceives(k) ==
  /\ up[k] # <<>>
  /\ up' = [up EXCEPT ![k] = Tail(@)]
  /\ \/ Head(up[k]) = "offer" /\ Server!Create(k)
     \/ UNCHANGED serverVars
  /\ UNCHANGED clientVars

ServerRuns(k) ==
  /\ \/ Server!Run(k) \/ Server!End(k)
     \/ Len(sent[k]) <= MaxIce /\ (Server!Answer(k) \/ Server!Candidate(k))
  /\ UNCHANGED <<clientVars, up>>

Next ==
  \/ Load \/ GetLocalStream
  \/ \E k \in Attempt :
       \/ Connect(k) \/ StartStream(k) \/ Drop(k) \/ OnClose(k)
       \/ OfferCreated(k) \/ LocalDescriptionSet(k) \/ OnIceCandidate(k)
       \/ OnAddStream(k) \/ RemoteDescriptionFails(k)
       \/ OnAnswer(k) \/ OnCandidate(k)
       \/ ServerReceives(k) \/ ServerRuns(k)
  \/ \E t \in Timer \X Attempt : Tick(t)

Spec == Init /\ [][Next]_vars

\* Intervals keep ticking.
FairSpec == Spec /\ \A t \in Timer \X Attempt : WF_vars(Tick(t))

(***************************************************************************)
(* Properties.                                                             *)
(***************************************************************************)
\* The globals belong to one attempt, the one whose socket is not closed yet: no
\* answer, channel or candidate of an earlier attempt is there in the next.
Live == {k \in Attempt : sock[k] \in {"open", "closing"}}
GlobalsAgree ==
  /\ {remotestream, dataChannel} \subseteq Live \cup {None}
  /\ dataChannel = remotestream
  /\ remoteAnswer \in {None, remotestream}
  /\ \A i \in DOMAIN remoteIce : remoteIce[i] = remotestream
  /\ \A i \in DOMAIN localIce : localIce[i] = remotestream
  /\ remotestream # None => socket = remotestream

\* The button is disabled only while a close event that enables it is to come,
\* except before the page is loaded and after an address that was malformed; and
\* when it is enabled there is nothing left of an earlier attempt to close.
ButtonTells ==
  /\ button => remotestream = None /\ Live = {}
  /\ ~button => \/ \E k \in Attempt : sock[k] \in {"connecting", "open", "closing", "threw"}
                \/ \A k \in Attempt : sock[k] = "none"

\* With the server's promise, a candidate is added after the call that sets the
\* remote description (browsers queue it behind that call).
NeverEarly == ~early

\* The camera's stream is added to the peer connection, whichever came first.
StreamAdded == localstream /\ remotestream # None => remotestream \in added

\* The intervals of a connection stop after it, unless the next connection is
\* made before they tick: then they go on beside those of the next.
TimersStop == remotestream = None ~> (timers = {} \/ remotestream # None)
=============================================================================
