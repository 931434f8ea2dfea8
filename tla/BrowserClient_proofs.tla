------------------------ MODULE BrowserClient_proofs -------------------------
(***************************************************************************)
(* Theorems about BrowserClient, for every number of attempts.             *)
(***************************************************************************)
EXTENDS BrowserClient, TLAPS

\* The types the argument needs.
Globals ==
  /\ {socket, remotestream, dataChannel, remoteAnswer} \subseteq Attempt \cup {None}
  /\ remoteIce \in Seq(Attempt) /\ localIce \in Seq(Attempt)
  /\ added \subseteq Attempt
States ==
  /\ sock \in [Attempt -> {"none", "threw", "connecting", "open", "closing", "closed"}]
  /\ peer \in [Attempt -> {"none", "creating", "setting", "offered", "answered", "closed"}]
  /\ got \in [Attempt -> Nat]
Flags == button \in BOOLEAN /\ localstream \in BOOLEAN /\ early \in BOOLEAN

Pending == {"connecting", "open", "closing"}
Working == {"creating", "setting", "offered", "answered"}

\* One socket is pending at a time, it is the one in the global, and the button
\* is disabled until it is closed (rtc_main.js:214-216, 241).
OneSocket ==
  /\ \A k \in Attempt : sock[k] \in Pending => socket = k /\ ~button
  /\ socket # None => sock[socket] \in Pending \cup {"closed"}

\* The peer connection in the global is that of the open socket, and no other is
\* at work (rtc_main.js:73, 221, 233-236).
OnePeer ==
  /\ \A k \in Attempt : sock[k] \in {"open", "closing"} <=> remotestream = k
  /\ \A k \in Attempt : peer[k] \in Working <=> remotestream = k
  /\ dataChannel = remotestream

\* What was stored belongs to that peer connection (rtc_main.js:156, 252, 273).
Stored ==
  /\ remoteAnswer \in {None, remotestream}
  /\ \A i \in DOMAIN remoteIce : remoteIce[i] = remotestream
  /\ \A i \in DOMAIN localIce : localIce[i] = remotestream

\* A disabled button waits for a close event, for the page, or for ever
\* (rtc_main.js:57, 216).
Waits ==
  ~button => \/ \E k \in Attempt : sock[k] \in Pending \cup {"threw"}
             \/ \A k \in Attempt : sock[k] = "none"

\* The server sends the answer first, and a peer connection whose socket delivered
\* anything has its remote description (rtc_main.js:254, 275).
Answered ==
  /\ sent \in [Attempt -> Seq({"answer", "candidate"})]
  /\ \A k \in Attempt : sent[k] # <<>> => sent[k][1] = "answer"
  /\ \A k \in Attempt : got[k] > 0 => /\ peer[k] \in {"answered", "closed"}
                                      /\ sock[k] \in {"open", "closing", "closed"}

\* Flags stay Booleans.
LEMMA NextFlags == Flags /\ [Next]_vars => Flags'
<1> SUFFICES ASSUME Flags, [Next]_vars PROVE Flags'
  OBVIOUS
<1> USE AttemptAssumption DEF Flags, vars, globals, wireVars, serverVars, clientVars
<1>1. ASSUME Load PROVE Flags'
  BY Zenon, <1>1 DEF Load
<1>2. ASSUME GetLocalStream PROVE Flags'
  BY Zenon, <1>2 DEF GetLocalStream
<1>3. ASSUME NEW k \in Attempt, Connect(k) PROVE Flags'
  BY Zenon, <1>3 DEF Connect
<1>4. ASSUME NEW k \in Attempt, StartStream(k) PROVE Flags'
  BY Zenon, <1>4 DEF StartStream
<1>5. ASSUME NEW k \in Attempt, Drop(k) PROVE Flags'
  BY Zenon, <1>5 DEF Drop
<1>6. ASSUME NEW k \in Attempt, OnClose(k) PROVE Flags'
  BY Zenon, <1>6 DEF OnClose, Ends
<1>7. ASSUME NEW k \in Attempt, OfferCreated(k) PROVE Flags'
  BY Zenon, <1>7 DEF OfferCreated, Goes, Fails, Closing
<1>8. ASSUME NEW k \in Attempt, LocalDescriptionSet(k) PROVE Flags'
  BY Zenon, <1>8 DEF LocalDescriptionSet, Goes, Sends, Fails, Closing
<1>9. ASSUME NEW k \in Attempt, OnIceCandidate(k) PROVE Flags'
  BY Zenon, <1>9 DEF OnIceCandidate, Sends
<1>10. ASSUME NEW k \in Attempt, OnAddStream(k) PROVE Flags'
  BY Zenon, <1>10 DEF OnAddStream, Fails, Closing
<1>11. ASSUME NEW k \in Attempt, RemoteDescriptionFails(k) PROVE Flags'
  BY Zenon, <1>11 DEF RemoteDescriptionFails, Fails, Closing
<1>12. ASSUME NEW k \in Attempt, OnAnswer(k) PROVE Flags'
  BY Zenon, <1>12 DEF OnAnswer, Delivered
<1>13. ASSUME NEW k \in Attempt, OnCandidate(k) PROVE Flags'
  BY Zenon, <1>13 DEF OnCandidate, Delivered
<1>14. ASSUME NEW k \in Attempt, ServerReceives(k) PROVE Flags'
  BY Zenon, <1>14 DEF ServerReceives
<1>15. ASSUME NEW k \in Attempt, ServerRuns(k) PROVE Flags'
  BY Zenon, <1>15 DEF ServerRuns
<1>16. ASSUME NEW t \in Timer \X Attempt, Tick(t) PROVE Flags'
  BY Zenon, <1>16 DEF Tick
<1>17. CASE UNCHANGED vars
  BY Zenon, <1>17
<1> QED
  BY Zenon, <1>1, <1>2, <1>3, <1>4, <1>5, <1>6, <1>7, <1>8, <1>9, <1>10,
     <1>11, <1>12, <1>13, <1>14, <1>15, <1>16, <1>17 DEF Next

\* The globals keep their types.
LEMMA NextGlobals == Globals /\ [Next]_vars => Globals'
<1> SUFFICES ASSUME Globals, [Next]_vars PROVE Globals'
  OBVIOUS
<1> USE AttemptAssumption DEF Globals, vars, globals, wireVars, serverVars, clientVars
<1>1. ASSUME Load PROVE Globals'
  BY <1>1 DEF Load
<1>2. ASSUME GetLocalStream PROVE Globals'
  BY <1>2 DEF GetLocalStream
<1>3. ASSUME NEW k \in Attempt, Connect(k) PROVE Globals'
  BY <1>3 DEF Connect
<1>4. ASSUME NEW k \in Attempt, StartStream(k) PROVE Globals'
  BY <1>4 DEF StartStream
<1>5. ASSUME NEW k \in Attempt, Drop(k) PROVE Globals'
  BY <1>5 DEF Drop
<1>6. ASSUME NEW k \in Attempt, OnClose(k) PROVE Globals'
  BY <1>6 DEF OnClose, Ends
<1>7. ASSUME NEW k \in Attempt, OfferCreated(k) PROVE Globals'
  BY <1>7 DEF OfferCreated, Goes, Fails, Closing
<1>8. ASSUME NEW k \in Attempt, LocalDescriptionSet(k) PROVE Globals'
  BY <1>8 DEF LocalDescriptionSet, Goes, Sends, Fails, Closing
<1>9. ASSUME NEW k \in Attempt, OnIceCandidate(k) PROVE Globals'
  BY <1>9 DEF OnIceCandidate, Sends
<1>10. ASSUME NEW k \in Attempt, OnAddStream(k) PROVE Globals'
  BY <1>10 DEF OnAddStream, Fails, Closing
<1>11. ASSUME NEW k \in Attempt, RemoteDescriptionFails(k) PROVE Globals'
  BY <1>11 DEF RemoteDescriptionFails, Fails, Closing
<1>12. ASSUME NEW k \in Attempt, OnAnswer(k) PROVE Globals'
  BY <1>12 DEF OnAnswer, Delivered
<1>13. ASSUME NEW k \in Attempt, OnCandidate(k) PROVE Globals'
  BY <1>13 DEF OnCandidate, Delivered
<1>14. ASSUME NEW k \in Attempt, ServerReceives(k) PROVE Globals'
  BY <1>14 DEF ServerReceives
<1>15. ASSUME NEW k \in Attempt, ServerRuns(k) PROVE Globals'
  BY <1>15 DEF ServerRuns
<1>16. ASSUME NEW t \in Timer \X Attempt, Tick(t) PROVE Globals'
  BY <1>16 DEF Tick
<1>17. CASE UNCHANGED vars
  BY <1>17
<1> QED
  BY Zenon, <1>1, <1>2, <1>3, <1>4, <1>5, <1>6, <1>7, <1>8, <1>9, <1>10,
     <1>11, <1>12, <1>13, <1>14, <1>15, <1>16, <1>17 DEF Next

\* Sockets and peer connections keep their types.
LEMMA NextStates == States /\ [Next]_vars => States'
<1> SUFFICES ASSUME States, [Next]_vars PROVE States'
  OBVIOUS
<1> USE AttemptAssumption DEF States, vars, globals, wireVars, serverVars, clientVars
<1>1. ASSUME Load PROVE States'
  BY <1>1 DEF Load
<1>2. ASSUME GetLocalStream PROVE States'
  BY <1>2 DEF GetLocalStream
<1>3. ASSUME NEW k \in Attempt, Connect(k) PROVE States'
  BY <1>3 DEF Connect
<1>4. ASSUME NEW k \in Attempt, StartStream(k) PROVE States'
  BY <1>4 DEF StartStream
<1>5. ASSUME NEW k \in Attempt, Drop(k) PROVE States'
  BY <1>5 DEF Drop
<1>6. ASSUME NEW k \in Attempt, OnClose(k) PROVE States'
  BY <1>6 DEF OnClose, Ends
<1>7. ASSUME NEW k \in Attempt, OfferCreated(k) PROVE States'
  BY <1>7 DEF OfferCreated, Goes, Fails, Closing
<1>8. ASSUME NEW k \in Attempt, LocalDescriptionSet(k) PROVE States'
  BY <1>8 DEF LocalDescriptionSet, Goes, Sends, Fails, Closing
<1>9. ASSUME NEW k \in Attempt, OnIceCandidate(k) PROVE States'
  BY <1>9 DEF OnIceCandidate, Sends
<1>10. ASSUME NEW k \in Attempt, OnAddStream(k) PROVE States'
  BY <1>10 DEF OnAddStream, Fails, Closing
<1>11. ASSUME NEW k \in Attempt, RemoteDescriptionFails(k) PROVE States'
  BY <1>11 DEF RemoteDescriptionFails, Fails, Closing
<1>12. ASSUME NEW k \in Attempt, OnAnswer(k) PROVE States'
  BY <1>12 DEF OnAnswer, Delivered
<1>13. ASSUME NEW k \in Attempt, OnCandidate(k) PROVE States'
  BY <1>13 DEF OnCandidate, Delivered
<1>14. ASSUME NEW k \in Attempt, ServerReceives(k) PROVE States'
  BY <1>14 DEF ServerReceives
<1>15. ASSUME NEW k \in Attempt, ServerRuns(k) PROVE States'
  BY <1>15 DEF ServerRuns
<1>16. ASSUME NEW t \in Timer \X Attempt, Tick(t) PROVE States'
  BY <1>16 DEF Tick
<1>17. CASE UNCHANGED vars
  BY <1>17
<1> QED
  BY Zenon, <1>1, <1>2, <1>3, <1>4, <1>5, <1>6, <1>7, <1>8, <1>9, <1>10,
     <1>11, <1>12, <1>13, <1>14, <1>15, <1>16, <1>17 DEF Next

\* One socket at a time.
LEMMA NextSocket == Globals /\ States /\ OneSocket /\ OnePeer /\ [Next]_vars => OneSocket'
<1> SUFFICES ASSUME Globals, States, OneSocket, OnePeer, [Next]_vars PROVE OneSocket'
  OBVIOUS
<1> USE AttemptAssumption DEF Globals, States, OneSocket, OnePeer, Pending, Working, vars, globals, wireVars, serverVars, clientVars
<1>1. ASSUME Load PROVE OneSocket'
  BY <1>1 DEF Load
<1>2. ASSUME GetLocalStream PROVE OneSocket'
  BY <1>2 DEF GetLocalStream
<1>3. ASSUME NEW k \in Attempt, Connect(k) PROVE OneSocket'
  BY <1>3 DEF Connect
<1>4. ASSUME NEW k \in Attempt, StartStream(k) PROVE OneSocket'
  BY <1>4 DEF StartStream
<1>5. ASSUME NEW k \in Attempt, Drop(k) PROVE OneSocket'
  BY <1>5 DEF Drop
<1>6. ASSUME NEW k \in Attempt, OnClose(k) PROVE OneSocket'
  BY <1>6 DEF OnClose, Ends
<1>7. ASSUME NEW k \in Attempt, OfferCreated(k) PROVE OneSocket'
  BY <1>7 DEF OfferCreated, Goes, Fails, Closing
<1>8. ASSUME NEW k \in Attempt, LocalDescriptionSet(k) PROVE OneSocket'
  BY <1>8 DEF LocalDescriptionSet, Goes, Sends, Fails, Closing
<1>9. ASSUME NEW k \in Attempt, OnIceCandidate(k) PROVE OneSocket'
  BY <1>9 DEF OnIceCandidate, Sends
<1>10. ASSUME NEW k \in Attempt, OnAddStream(k) PROVE OneSocket'
  BY <1>10 DEF OnAddStream, Fails, Closing
<1>11. ASSUME NEW k \in Attempt, RemoteDescriptionFails(k) PROVE OneSocket'
  BY <1>11 DEF RemoteDescriptionFails, Fails, Closing
<1>12. ASSUME NEW k \in Attempt, OnAnswer(k) PROVE OneSocket'
  BY <1>12 DEF OnAnswer, Delivered
<1>13. ASSUME NEW k \in Attempt, OnCandidate(k) PROVE OneSocket'
  BY <1>13 DEF OnCandidate, Delivered
<1>14. ASSUME NEW k \in Attempt, ServerReceives(k) PROVE OneSocket'
  BY <1>14 DEF ServerReceives
<1>15. ASSUME NEW k \in Attempt, ServerRuns(k) PROVE OneSocket'
  BY <1>15 DEF ServerRuns
<1>16. ASSUME NEW t \in Timer \X Attempt, Tick(t) PROVE OneSocket'
  BY <1>16 DEF Tick
<1>17. CASE UNCHANGED vars
  BY <1>17
<1> QED
  BY Zenon, <1>1, <1>2, <1>3, <1>4, <1>5, <1>6, <1>7, <1>8, <1>9, <1>10,
     <1>11, <1>12, <1>13, <1>14, <1>15, <1>16, <1>17 DEF Next

\* One peer connection at a time.
LEMMA NextPeer == Globals /\ States /\ OneSocket /\ OnePeer /\ [Next]_vars => OnePeer'
<1> SUFFICES ASSUME Globals, States, OneSocket, OnePeer, [Next]_vars PROVE OnePeer'
  OBVIOUS
<1> USE AttemptAssumption DEF Globals, States, OneSocket, OnePeer, Pending, Working, vars, globals, wireVars, serverVars, clientVars
<1>1. ASSUME Load PROVE OnePeer'
  BY <1>1 DEF Load
<1>2. ASSUME GetLocalStream PROVE OnePeer'
  BY <1>2 DEF GetLocalStream
<1>3. ASSUME NEW k \in Attempt, Connect(k) PROVE OnePeer'
  BY <1>3 DEF Connect
<1>4. ASSUME NEW k \in Attempt, StartStream(k) PROVE OnePeer'
  BY <1>4 DEF StartStream
<1>5. ASSUME NEW k \in Attempt, Drop(k) PROVE OnePeer'
  BY <1>5 DEF Drop
<1>6. ASSUME NEW k \in Attempt, OnClose(k) PROVE OnePeer'
  BY <1>6 DEF OnClose, Ends
<1>7. ASSUME NEW k \in Attempt, OfferCreated(k) PROVE OnePeer'
  BY <1>7 DEF OfferCreated, Goes, Fails, Closing
<1>8. ASSUME NEW k \in Attempt, LocalDescriptionSet(k) PROVE OnePeer'
  BY <1>8 DEF LocalDescriptionSet, Goes, Sends, Fails, Closing
<1>9. ASSUME NEW k \in Attempt, OnIceCandidate(k) PROVE OnePeer'
  BY <1>9 DEF OnIceCandidate, Sends
<1>10. ASSUME NEW k \in Attempt, OnAddStream(k) PROVE OnePeer'
  BY <1>10 DEF OnAddStream, Fails, Closing
<1>11. ASSUME NEW k \in Attempt, RemoteDescriptionFails(k) PROVE OnePeer'
  BY <1>11 DEF RemoteDescriptionFails, Fails, Closing
<1>12. ASSUME NEW k \in Attempt, OnAnswer(k) PROVE OnePeer'
  BY <1>12 DEF OnAnswer, Delivered
<1>13. ASSUME NEW k \in Attempt, OnCandidate(k) PROVE OnePeer'
  BY <1>13 DEF OnCandidate, Delivered
<1>14. ASSUME NEW k \in Attempt, ServerReceives(k) PROVE OnePeer'
  BY <1>14 DEF ServerReceives
<1>15. ASSUME NEW k \in Attempt, ServerRuns(k) PROVE OnePeer'
  BY <1>15 DEF ServerRuns
<1>16. ASSUME NEW t \in Timer \X Attempt, Tick(t) PROVE OnePeer'
  BY <1>16 DEF Tick
<1>17. CASE UNCHANGED vars
  BY <1>17
<1> QED
  BY Zenon, <1>1, <1>2, <1>3, <1>4, <1>5, <1>6, <1>7, <1>8, <1>9, <1>10,
     <1>11, <1>12, <1>13, <1>14, <1>15, <1>16, <1>17 DEF Next

\* Nothing is stored for another attempt.
LEMMA NextStored == Globals /\ States /\ OneSocket /\ OnePeer /\ Stored /\ [Next]_vars => Stored'
<1> SUFFICES ASSUME Globals, States, OneSocket, OnePeer, Stored, [Next]_vars PROVE Stored'
  OBVIOUS
<1> USE AttemptAssumption DEF Globals, States, OneSocket, OnePeer, Stored, Pending, Working, vars, globals, wireVars, serverVars, clientVars
<1>1. ASSUME Load PROVE Stored'
  BY <1>1 DEF Load
<1>2. ASSUME GetLocalStream PROVE Stored'
  BY <1>2 DEF GetLocalStream
<1>3. ASSUME NEW k \in Attempt, Connect(k) PROVE Stored'
  BY <1>3 DEF Connect
<1>4. ASSUME NEW k \in Attempt, StartStream(k) PROVE Stored'
  BY <1>4 DEF StartStream
<1>5. ASSUME NEW k \in Attempt, Drop(k) PROVE Stored'
  BY <1>5 DEF Drop
<1>6. ASSUME NEW k \in Attempt, OnClose(k) PROVE Stored'
  BY <1>6 DEF OnClose, Ends
<1>7. ASSUME NEW k \in Attempt, OfferCreated(k) PROVE Stored'
  BY <1>7 DEF OfferCreated, Goes, Fails, Closing
<1>8. ASSUME NEW k \in Attempt, LocalDescriptionSet(k) PROVE Stored'
  BY <1>8 DEF LocalDescriptionSet, Goes, Sends, Fails, Closing
<1>9. ASSUME NEW k \in Attempt, OnIceCandidate(k) PROVE Stored'
  BY <1>9 DEF OnIceCandidate, Sends
<1>10. ASSUME NEW k \in Attempt, OnAddStream(k) PROVE Stored'
  BY <1>10 DEF OnAddStream, Fails, Closing
<1>11. ASSUME NEW k \in Attempt, RemoteDescriptionFails(k) PROVE Stored'
  BY <1>11 DEF RemoteDescriptionFails, Fails, Closing
<1>12. ASSUME NEW k \in Attempt, OnAnswer(k) PROVE Stored'
  BY <1>12 DEF OnAnswer, Delivered
<1>13. ASSUME NEW k \in Attempt, OnCandidate(k) PROVE Stored'
  <2>1. remotestream = k /\ remotestream' = k /\ remoteAnswer' = remoteAnswer /\ localIce' = localIce
    BY <1>13 DEF OnCandidate, Delivered
  <2>2. remoteIce' = Append(remoteIce, k)
    BY <1>13, <2>1 DEF OnCandidate
  <2>3. \A i \in DOMAIN remoteIce' : remoteIce'[i] = k
    BY <2>1, <2>2
  <2> QED
    BY <2>1, <2>3
<1>14. ASSUME NEW k \in Attempt, ServerReceives(k) PROVE Stored'
  BY <1>14 DEF ServerReceives
<1>15. ASSUME NEW k \in Attempt, ServerRuns(k) PROVE Stored'
  BY <1>15 DEF ServerRuns
<1>16. ASSUME NEW t \in Timer \X Attempt, Tick(t) PROVE Stored'
  BY <1>16 DEF Tick
<1>17. CASE UNCHANGED vars
  BY <1>17
<1> QED
  BY Zenon, <1>1, <1>2, <1>3, <1>4, <1>5, <1>6, <1>7, <1>8, <1>9, <1>10,
     <1>11, <1>12, <1>13, <1>14, <1>15, <1>16, <1>17 DEF Next

\* The button is disabled for a reason.
LEMMA NextWaits == States /\ Waits /\ Flags /\ [Next]_vars => Waits'
<1> SUFFICES ASSUME States, Waits, Flags, [Next]_vars PROVE Waits'
  OBVIOUS
<1> USE AttemptAssumption DEF States, Waits, Flags, Pending, vars, globals, wireVars, serverVars, clientVars
<1>1. ASSUME Load PROVE Waits'
  BY <1>1 DEF Load
<1>2. ASSUME GetLocalStream PROVE Waits'
  BY <1>2 DEF GetLocalStream
<1>3. ASSUME NEW k \in Attempt, Connect(k) PROVE Waits'
  BY <1>3 DEF Connect
<1>4. ASSUME NEW k \in Attempt, StartStream(k) PROVE Waits'
  BY <1>4 DEF StartStream
<1>5. ASSUME NEW k \in Attempt, Drop(k) PROVE Waits'
  BY <1>5 DEF Drop
<1>6. ASSUME NEW k \in Attempt, OnClose(k) PROVE Waits'
  BY <1>6 DEF OnClose, Ends
<1>7. ASSUME NEW k \in Attempt, OfferCreated(k) PROVE Waits'
  BY <1>7 DEF OfferCreated, Goes, Fails, Closing
<1>8. ASSUME NEW k \in Attempt, LocalDescriptionSet(k) PROVE Waits'
  BY <1>8 DEF LocalDescriptionSet, Goes, Sends, Fails, Closing
<1>9. ASSUME NEW k \in Attempt, OnIceCandidate(k) PROVE Waits'
  BY <1>9 DEF OnIceCandidate, Sends
<1>10. ASSUME NEW k \in Attempt, OnAddStream(k) PROVE Waits'
  BY <1>10 DEF OnAddStream, Fails, Closing
<1>11. ASSUME NEW k \in Attempt, RemoteDescriptionFails(k) PROVE Waits'
  BY <1>11 DEF RemoteDescriptionFails, Fails, Closing
<1>12. ASSUME NEW k \in Attempt, OnAnswer(k) PROVE Waits'
  BY <1>12 DEF OnAnswer, Delivered
<1>13. ASSUME NEW k \in Attempt, OnCandidate(k) PROVE Waits'
  BY <1>13 DEF OnCandidate, Delivered
<1>14. ASSUME NEW k \in Attempt, ServerReceives(k) PROVE Waits'
  BY <1>14 DEF ServerReceives
<1>15. ASSUME NEW k \in Attempt, ServerRuns(k) PROVE Waits'
  BY <1>15 DEF ServerRuns
<1>16. ASSUME NEW t \in Timer \X Attempt, Tick(t) PROVE Waits'
  BY <1>16 DEF Tick
<1>17. CASE UNCHANGED vars
  BY <1>17
<1> QED
  BY Zenon, <1>1, <1>2, <1>3, <1>4, <1>5, <1>6, <1>7, <1>8, <1>9, <1>10,
     <1>11, <1>12, <1>13, <1>14, <1>15, <1>16, <1>17 DEF Next

\* The answer comes first.
LEMMA NextAnswered == Globals /\ States /\ OneSocket /\ OnePeer /\ Answered /\ [Next]_vars => Answered'
<1> SUFFICES ASSUME Globals, States, OneSocket, OnePeer, Answered, [Next]_vars PROVE Answered'
  OBVIOUS
<1> USE AttemptAssumption DEF Globals, States, OneSocket, OnePeer, Answered, Pending, Working, Server!Create, Server!Become, vars, globals, wireVars, serverVars, clientVars
<1>1. ASSUME Load PROVE Answered'
  BY <1>1 DEF Load
<1>2. ASSUME GetLocalStream PROVE Answered'
  BY <1>2 DEF GetLocalStream
<1>3. ASSUME NEW k \in Attempt, Connect(k) PROVE Answered'
  BY <1>3 DEF Connect
<1>4. ASSUME NEW k \in Attempt, StartStream(k) PROVE Answered'
  BY <1>4 DEF StartStream
<1>5. ASSUME NEW k \in Attempt, Drop(k) PROVE Answered'
  BY <1>5 DEF Drop
<1>6. ASSUME NEW k \in Attempt, OnClose(k) PROVE Answered'
  BY <1>6 DEF OnClose, Ends
<1>7. ASSUME NEW k \in Attempt, OfferCreated(k) PROVE Answered'
  BY <1>7 DEF OfferCreated, Goes, Fails, Closing
<1>8. ASSUME NEW k \in Attempt, LocalDescriptionSet(k) PROVE Answered'
  BY <1>8 DEF LocalDescriptionSet, Goes, Sends, Fails, Closing
<1>9. ASSUME NEW k \in Attempt, OnIceCandidate(k) PROVE Answered'
  BY <1>9 DEF OnIceCandidate, Sends
<1>10. ASSUME NEW k \in Attempt, OnAddStream(k) PROVE Answered'
  BY <1>10 DEF OnAddStream, Fails, Closing
<1>11. ASSUME NEW k \in Attempt, RemoteDescriptionFails(k) PROVE Answered'
  BY <1>11 DEF RemoteDescriptionFails, Fails, Closing
<1>12. ASSUME NEW k \in Attempt, OnAnswer(k) PROVE Answered'
  BY <1>12 DEF OnAnswer, Delivered
<1>13. ASSUME NEW k \in Attempt, OnCandidate(k) PROVE Answered'
  BY <1>13 DEF OnCandidate, Delivered
<1>14. ASSUME NEW k \in Attempt, ServerReceives(k) PROVE Answered'
  BY <1>14 DEF ServerReceives
<1>15. ASSUME NEW k \in Attempt, ServerRuns(k) PROVE Answered'
  <2>1. sock' = sock /\ peer' = peer /\ got' = got
    BY <1>15 DEF ServerRuns
  <2>2. CASE sent' = sent
    BY <2>1, <2>2
  <2>3. CASE Server!Answer(k)
    BY <2>1, <2>3 DEF Server!Answer
  <2>4. CASE Server!Candidate(k)
    <3>1. sent' = [sent EXCEPT ![k] = Append(sent[k], "candidate")] /\ sent[k] # <<>>
      BY <2>4 DEF Server!Candidate
    <3>2. Append(sent[k], "candidate")[1] = "answer"
      BY <3>1
    <3> QED
      BY <2>1, <3>1, <3>2
  <2> QED
    BY <1>15, <2>2, <2>3, <2>4 DEF ServerRuns, Server!Run, Server!End
<1>16. ASSUME NEW t \in Timer \X Attempt, Tick(t) PROVE Answered'
  BY <1>16 DEF Tick
<1>17. CASE UNCHANGED vars
  BY <1>17
<1> QED
  BY Zenon, <1>1, <1>2, <1>3, <1>4, <1>5, <1>6, <1>7, <1>8, <1>9, <1>10,
     <1>11, <1>12, <1>13, <1>14, <1>15, <1>16, <1>17 DEF Next

\* All parts hold in every reachable state.
LEMMA PartsCorrect ==
  Spec => [](Flags /\ Globals /\ States /\ OneSocket /\ OnePeer /\ Stored /\ Waits /\ Answered)
<1>1. Init => Flags
  BY Zenon DEF Init, Flags
<1>2. Init => Globals /\ States /\ OneSocket /\ OnePeer /\ Stored /\ Waits /\ Answered
  BY AttemptAssumption
     DEF Init, Globals, States, OneSocket, OnePeer, Stored, Waits, Answered, Pending, Working, Server!Init
<1> QED
  BY <1>1, <1>2, NextFlags, NextGlobals, NextStates, NextSocket, NextPeer, NextStored, NextWaits,
     NextAnswered, PTL DEF Spec

\* No answer, channel or candidate of one attempt is used in the next
\* (rtc_main.js:224-242).
THEOREM AttemptsApart == Spec => []GlobalsAgree
<1>1. Globals /\ States /\ OneSocket /\ OnePeer /\ Stored => GlobalsAgree
  BY AttemptAssumption DEF Globals, States, OneSocket, OnePeer, Stored, GlobalsAgree, Live, Pending
<1> QED
  BY <1>1, PartsCorrect, PTL

\* The button comes back, unless the address was malformed (rtc_main.js:214-216, 241).
THEOREM ButtonComesBack == Spec => []ButtonTells
<1>1. Globals /\ States /\ OneSocket /\ OnePeer /\ Waits => ButtonTells
  BY AttemptAssumption
     DEF Globals, States, OneSocket, OnePeer, Waits, ButtonTells, Live, Pending
<1> QED
  BY <1>1, PartsCorrect, PTL

\* No candidate is added before the remote description is set (rtc_main.js:265-275).
THEOREM CandidatesInTime == Spec => []NeverEarly
<1>1. Init => NeverEarly
  BY DEF Init, NeverEarly
<1>2. Globals /\ States /\ OneSocket /\ OnePeer /\ Answered /\ NeverEarly /\ [Next]_vars => NeverEarly'
  <2> SUFFICES ASSUME Globals, States, OneSocket, OnePeer, Answered, NeverEarly, [Next]_vars
               PROVE NeverEarly'
    OBVIOUS
  <2> USE AttemptAssumption DEF NeverEarly, vars, globals, wireVars, serverVars, clientVars
  <2>1. ASSUME Load PROVE NeverEarly'
    BY <2>1 DEF Load
  <2>2. ASSUME GetLocalStream PROVE NeverEarly'
    BY <2>2 DEF GetLocalStream
  <2>3. ASSUME NEW k \in Attempt, Connect(k) PROVE NeverEarly'
    BY <2>3 DEF Connect
  <2>4. ASSUME NEW k \in Attempt, StartStream(k) PROVE NeverEarly'
    BY <2>4 DEF StartStream
  <2>5. ASSUME NEW k \in Attempt, Drop(k) PROVE NeverEarly'
    BY <2>5 DEF Drop
  <2>6. ASSUME NEW k \in Attempt, OnClose(k) PROVE NeverEarly'
    BY <2>6 DEF OnClose, Ends
  <2>7. ASSUME NEW k \in Attempt, OfferCreated(k) PROVE NeverEarly'
    BY <2>7 DEF OfferCreated, Goes, Fails, Closing
  <2>8. ASSUME NEW k \in Attempt, LocalDescriptionSet(k) PROVE NeverEarly'
    BY <2>8 DEF LocalDescriptionSet, Goes, Sends, Fails, Closing
  <2>9. ASSUME NEW k \in Attempt, OnIceCandidate(k) PROVE NeverEarly'
    BY <2>9 DEF OnIceCandidate, Sends
  <2>10. ASSUME NEW k \in Attempt, OnAddStream(k) PROVE NeverEarly'
    BY <2>10 DEF OnAddStream, Fails, Closing
  <2>11. ASSUME NEW k \in Attempt, RemoteDescriptionFails(k) PROVE NeverEarly'
    BY <2>11 DEF RemoteDescriptionFails, Fails, Closing
  <2>12. ASSUME NEW k \in Attempt, OnAnswer(k) PROVE NeverEarly'
    BY <2>12 DEF OnAnswer, Delivered
  <2>13. ASSUME NEW k \in Attempt, OnCandidate(k) PROVE NeverEarly'
    <3>1. remotestream = k /\ sent[k] # <<>> /\ sent[k][got[k] + 1] = "candidate"
      BY <2>13 DEF OnCandidate, Delivered, Globals, States, OneSocket, OnePeer, Answered, Pending, Working
    <3>2. got[k] # 0
      BY <3>1 DEF Answered
    <3>3. peer[k] = "answered"
      <4>1. got[k] > 0
        BY <3>2 DEF States
      <4>2. peer[k] \in {"answered", "closed"}
        BY <4>1 DEF Answered
      <4>3. peer[k] \in Working
        BY <3>1 DEF OnePeer
      <4> QED
        BY <4>2, <4>3 DEF Working
    <3> QED
      BY Zenon, <2>13, <3>1, <3>3 DEF OnCandidate
  <2>14. ASSUME NEW k \in Attempt, ServerReceives(k) PROVE NeverEarly'
    BY <2>14 DEF ServerReceives
  <2>15. ASSUME NEW k \in Attempt, ServerRuns(k) PROVE NeverEarly'
    BY <2>15 DEF ServerRuns
  <2>16. ASSUME NEW t \in Timer \X Attempt, Tick(t) PROVE NeverEarly'
    BY <2>16 DEF Tick
  <2>17. CASE UNCHANGED vars
    BY <2>17
  <2> QED
    BY Zenon, <2>1, <2>2, <2>3, <2>4, <2>5, <2>6, <2>7, <2>8, <2>9, <2>10,
       <2>11, <2>12, <2>13, <2>14, <2>15, <2>16, <2>17 DEF Next
<1> QED
  BY <1>1, <1>2, PartsCorrect, PTL DEF Spec

\* The camera's stream gets to the peer connection in either order
\* (rtc_main.js:75-77, 458-498).
THEOREM StreamReachesPeer == Spec => []StreamAdded
<1>1. Init => StreamAdded
  BY DEF Init, StreamAdded
<1>2. Globals /\ StreamAdded /\ [Next]_vars => StreamAdded'
  <2> SUFFICES ASSUME Globals, StreamAdded, [Next]_vars PROVE StreamAdded'
    OBVIOUS
  <2> USE AttemptAssumption DEF Globals, StreamAdded, vars, globals, wireVars, serverVars, clientVars
  <2>1. ASSUME Load PROVE StreamAdded'
    BY <2>1 DEF Load
  <2>2. ASSUME GetLocalStream PROVE StreamAdded'
    BY <2>2 DEF GetLocalStream
  <2>3. ASSUME NEW k \in Attempt, Connect(k) PROVE StreamAdded'
    BY <2>3 DEF Connect
  <2>4. ASSUME NEW k \in Attempt, StartStream(k) PROVE StreamAdded'
    BY <2>4 DEF StartStream
  <2>5. ASSUME NEW k \in Attempt, Drop(k) PROVE StreamAdded'
    BY <2>5 DEF Drop
  <2>6. ASSUME NEW k \in Attempt, OnClose(k) PROVE StreamAdded'
    BY <2>6 DEF OnClose, Ends
  <2>7. ASSUME NEW k \in Attempt, OfferCreated(k) PROVE StreamAdded'
    <3>1. added' = added /\ remotestream' = remotestream /\ localstream' = localstream
      BY <2>7 DEF OfferCreated, Goes, Fails, Closing
    <3> QED
      BY Zenon, <3>1 DEF StreamAdded
  <2>8. ASSUME NEW k \in Attempt, LocalDescriptionSet(k) PROVE StreamAdded'
    <3>1. added' = added /\ remotestream' = remotestream /\ localstream' = localstream
      BY <2>8 DEF LocalDescriptionSet, Goes, Sends, Fails, Closing
    <3> QED
      BY Zenon, <3>1 DEF StreamAdded
  <2>9. ASSUME NEW k \in Attempt, OnIceCandidate(k) PROVE StreamAdded'
    BY <2>9 DEF OnIceCandidate, Sends
  <2>10. ASSUME NEW k \in Attempt, OnAddStream(k) PROVE StreamAdded'
    <3>1. added' = added /\ remotestream' = remotestream /\ localstream' = localstream
      BY <2>10 DEF OnAddStream, Fails, Closing
    <3> QED
      BY Zenon, <3>1 DEF StreamAdded
  <2>11. ASSUME NEW k \in Attempt, RemoteDescriptionFails(k) PROVE StreamAdded'
    <3>1. added' = added /\ remotestream' = remotestream /\ localstream' = localstream
      BY <2>11 DEF RemoteDescriptionFails, Fails, Closing
    <3> QED
      BY Zenon, <3>1 DEF StreamAdded
  <2>12. ASSUME NEW k \in Attempt, OnAnswer(k) PROVE StreamAdded'
    BY <2>12 DEF OnAnswer, Delivered
  <2>13. ASSUME NEW k \in Attempt, OnCandidate(k) PROVE StreamAdded'
    BY <2>13 DEF OnCandidate, Delivered
  <2>14. ASSUME NEW k \in Attempt, ServerReceives(k) PROVE StreamAdded'
    BY <2>14 DEF ServerReceives
  <2>15. ASSUME NEW k \in Attempt, ServerRuns(k) PROVE StreamAdded'
    BY <2>15 DEF ServerRuns
  <2>16. ASSUME NEW t \in Timer \X Attempt, Tick(t) PROVE StreamAdded'
    BY <2>16 DEF Tick
  <2>17. CASE UNCHANGED vars
    BY <2>17
  <2> QED
    BY Zenon, <2>1, <2>2, <2>3, <2>4, <2>5, <2>6, <2>7, <2>8, <2>9, <2>10,
       <2>11, <2>12, <2>13, <2>14, <2>15, <2>16, <2>17 DEF Next
<1> QED
  BY <1>1, <1>2, PartsCorrect, PTL DEF Spec

-----------------------------------------------------------------------------
(* The wires: messages, and the intervals that use them.                   *)
Wires ==
  /\ up \in [Attempt -> Seq(Message)] /\ timers \subseteq Timer \X Attempt
  /\ sent \in [Attempt -> Seq({"answer", "candidate"})]
  /\ \A k \in Attempt : got[k] <= Len(sent[k]) /\ Len(sent[k]) <= MaxIce + 1

\* No more is delivered than was sent.
LEMMA NextWires == Globals /\ States /\ OneSocket /\ OnePeer /\ Wires /\ [Next]_vars => Wires'
<1> SUFFICES ASSUME Globals, States, OneSocket, OnePeer, Wires, [Next]_vars PROVE Wires'
  OBVIOUS
<1> USE AttemptAssumption DEF Globals, States, OneSocket, OnePeer, Wires, Pending, Working, Message, Server!Create, Server!Become, vars, globals, wireVars, serverVars, clientVars
<1>s. ASSUME NEW m \in Message, Sends(m) PROVE up' \in [Attempt -> Seq(Message)]
  <2>1. CASE socket \in Attempt
    <3>1. up[socket] \in Seq(Message)
      BY <2>1
    <3>2. Append(up[socket], m) \in Seq(Message)
      BY <3>1
    <3> QED
      BY <2>1, <3>2, <1>s DEF Sends
  <2>2. CASE socket \notin Attempt
    <3>1. up' = up
      BY <2>2, <1>s DEF Sends
    <3> QED
      BY <3>1
  <2> QED
    BY <2>1, <2>2
<1>1. ASSUME Load PROVE Wires'
  BY <1>1 DEF Load
<1>2. ASSUME GetLocalStream PROVE Wires'
  BY <1>2 DEF GetLocalStream
<1>3. ASSUME NEW k \in Attempt, Connect(k) PROVE Wires'
  BY <1>3 DEF Connect
<1>4. ASSUME NEW k \in Attempt, StartStream(k) PROVE Wires'
  BY <1>4 DEF StartStream
<1>5. ASSUME NEW k \in Attempt, Drop(k) PROVE Wires'
  BY <1>5 DEF Drop
<1>6. ASSUME NEW k \in Attempt, OnClose(k) PROVE Wires'
  BY <1>6 DEF OnClose, Ends
<1>7. ASSUME NEW k \in Attempt, OfferCreated(k) PROVE Wires'
  BY <1>7 DEF OfferCreated, Goes, Fails, Closing
<1>8. ASSUME NEW k \in Attempt, LocalDescriptionSet(k) PROVE Wires'
  <2>1. UNCHANGED <<timers, sent, got>>
    BY <1>8 DEF LocalDescriptionSet, Goes, Fails
  <2>2. up' \in [Attempt -> Seq(Message)]
    BY <1>8, <1>s DEF LocalDescriptionSet, Goes, Fails
  <2> QED
    BY <2>1, <2>2
<1>9. ASSUME NEW k \in Attempt, OnIceCandidate(k) PROVE Wires'
  <2>1. UNCHANGED <<timers, sent, got>>
    BY <1>9 DEF OnIceCandidate
  <2>2. up' \in [Attempt -> Seq(Message)]
    BY <1>9, <1>s DEF OnIceCandidate
  <2> QED
    BY <2>1, <2>2
<1>10. ASSUME NEW k \in Attempt, OnAddStream(k) PROVE Wires'
  BY <1>10 DEF OnAddStream, Fails, Closing
<1>11. ASSUME NEW k \in Attempt, RemoteDescriptionFails(k) PROVE Wires'
  BY <1>11 DEF RemoteDescriptionFails, Fails, Closing
<1>12. ASSUME NEW k \in Attempt, OnAnswer(k) PROVE Wires'
  BY <1>12 DEF OnAnswer, Delivered
<1>13. ASSUME NEW k \in Attempt, OnCandidate(k) PROVE Wires'
  BY <1>13 DEF OnCandidate, Delivered
<1>14. ASSUME NEW k \in Attempt, ServerReceives(k) PROVE Wires'
  BY <1>14 DEF ServerReceives
<1>15. ASSUME NEW k \in Attempt, ServerRuns(k) PROVE Wires'
  <2>1. up' = up /\ timers' = timers /\ got' = got
    BY <1>15 DEF ServerRuns
  <2>2. CASE sent' = sent
    BY <2>1, <2>2
  <2>3. CASE \E m \in {"answer", "candidate"} :
               sent' = [sent EXCEPT ![k] = Append(sent[k], m)] /\ Len(sent[k]) <= MaxIce
    BY <2>1, <2>3
  <2>4. CASE Server!Answer(k)
    <3>1. sent' = [sent EXCEPT ![k] = <<"answer">>] /\ sent[k] = <<>>
      BY <2>4 DEF Server!Answer
    <3> QED
      BY <2>1, <3>1
  <2>5. CASE Server!Candidate(k) /\ Len(sent[k]) <= MaxIce
    BY <2>3, <2>5 DEF Server!Candidate
  <2> QED
    BY <1>15, <2>2, <2>4, <2>5 DEF ServerRuns, Server!Run, Server!End
<1>16. ASSUME NEW t \in Timer \X Attempt, Tick(t) PROVE Wires'
  BY <1>16 DEF Tick
<1>17. CASE UNCHANGED vars
  BY <1>17
<1> QED
  BY Zenon, <1>1, <1>2, <1>3, <1>4, <1>5, <1>6, <1>7, <1>8, <1>9, <1>10,
     <1>11, <1>12, <1>13, <1>14, <1>15, <1>16, <1>17 DEF Next

\* The globals and the messages keep their types, for every number of attempts.
THEOREM TypeCorrect == Spec => []TypeOK
<1>1. Init => Wires
  BY AttemptAssumption DEF Init, Wires, Server!Init
<1>2. Spec => []Wires
  BY <1>1, NextWires, PartsCorrect, PTL DEF Spec
<1>3. Flags /\ Globals /\ States /\ Wires => TypeOK
  <2> SUFFICES ASSUME Flags, Globals, States, Wires PROVE TypeOK
    OBVIOUS
  <2>1. got \in [Attempt -> 0 .. MaxIce + 1]
    BY AttemptAssumption DEF States, Wires
  <2>2. button \in BOOLEAN /\ localstream \in BOOLEAN /\ early \in BOOLEAN
    BY Zenon DEF Flags
  <2>3. localIce \in Seq(Attempt)
    BY DEF Globals
  <2> QED
    BY Zenon, <2>1, <2>2, <2>3 DEF TypeOK, Globals, States, Wires
<1> QED
  BY <1>2, <1>3, PartsCorrect, PTL
=============================================================================
