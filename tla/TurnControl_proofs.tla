------------------------- MODULE TurnControl_proofs -------------------------
(***************************************************************************)
(* Proofs about the TURN check box, for any set of tasks.                  *)
(***************************************************************************)
EXTENDS TurnControl, TLAPS

Active   == Starting \cup Serving
Assigned == Serving \cup {"stopping", "fault", "drop", "done"}

\* Only a task that has assigned the field has a source that anybody can know.
SourcesKnown ==
  \A t \in Task : t \in cancelled \cup disposed \/ turnCancel = t => tpc[t] \in Assigned

\* A serving task is in the field, unless the UI thread has cleared it.
FieldOfServing == \A t \in Task :
  /\ tpc[t] \in Serving /\ turnCancel # t => turnCancel = None /\ ~enabled /\ cancelled # {}
  /\ turnCancel = t /\ t \notin cancelled => tpc[t] \in Serving

\* The token of a task is that of its own source.
StopIsOwn == \A t \in Task : tpc[t] \in {"serve", "stopping"} => stop[t] = t

\* The box is enabled only as long as nothing has been cancelled.
CancelDisables ==
  /\ cancelled # {} /\ upc = "idle" => ~enabled
  /\ upc = "clear" => cancelled # {}

\* Two tasks at work, or one behind a cleared box, mean that a clearing missed.
SoloOrMissed ==
  /\ \A t, u \in Task : t # u /\ tpc[t] \in Active /\ tpc[u] \in Active => missed
  /\ \A t \in Task : ~checked /\ tpc[t] \in Active /\ t \notin cancelled => missed

\* What is proved inductive.
IInv ==
  /\ TypeOK /\ PortAccounted /\ SourcesKnown /\ FieldIsLive /\ FieldOfServing
  /\ StopIsOwn /\ FaultOnlyAfterCancel /\ CancelDisables /\ SoloOrMissed

Places == PlaceOK /\ StopOK /\ turnCancel \in Task \cup {None}
          /\ cancelled \subseteq Task /\ disposed \subseteq Task
          /\ port \in Task \cup {None, Leaked} /\ upc \in {"idle", "clear"}

\* The Boolean part of the type: the box and the history.
LEMMA FlagsStep == FlagsOK /\ [Next]_vars => FlagsOK'
<1> SUFFICES ASSUME FlagsOK, [Next]_vars PROVE FlagsOK' OBVIOUS
<1>1. CASE UncheckCancels BY <1>1, Zenon DEF UncheckCancels, Uncheck, FlagsOK
<1>2. CASE UncheckClears BY <1>2, Zenon DEF UncheckClears, FlagsOK
<1>3. CASE UncheckMisses
  <2>1. missed' = TRUE \/ missed' = FALSE BY <1>3 DEF UncheckMisses
  <2>2. missed' \in BOOLEAN BY <2>1, Zenon
  <2> QED BY <1>3, <2>2, Zenon DEF UncheckMisses, Uncheck, FlagsOK
<1>4. ASSUME NEW t \in Task, Check(t) PROVE FlagsOK' BY <1>4, Zenon DEF Check, FlagsOK
<1>5. ASSUME NEW t \in Task, Body(t) PROVE FlagsOK'
  <2>1. UNCHANGED uiVars
    BY <1>5, Zenon DEF Body, Step, Refuse, Bind, LoadAuth, FailAuth, AssignSource, ReadToken,
      LeaveLoop, CloseSource, DisposeSource, DisposeFaulted, DisposeServer, DisposeRefused
  <2> QED BY <2>1, Zenon DEF uiVars, FlagsOK
<1>6. CASE UNCHANGED vars BY <1>6, Zenon DEF vars, uiVars, FlagsOK
<1> QED BY <1>1, <1>2, <1>3, <1>4, <1>5, <1>6 DEF Next

\* Places, sources and the port keep their types.
LEMMA PlacesStep == Places /\ [Next]_vars => Places'
<1> SUFFICES ASSUME Places, [Next]_vars PROVE Places' OBVIOUS
<1> USE HolderAssumption DEF Places, PlaceOK, StopOK, Place, Holding, Starting, Serving
<1>1. CASE UncheckCancels BY <1>1 DEF UncheckCancels, Uncheck, taskVars
<1>2. CASE UncheckClears BY <1>2 DEF UncheckClears, taskVars
<1>3. CASE UncheckMisses BY <1>3 DEF UncheckMisses, Uncheck, taskVars
<1>4. ASSUME NEW t \in Task, Check(t) PROVE Places'
  BY <1>4 DEF Check, uiVars
<1>5. ASSUME NEW t \in Task, Refuse(t) PROVE Places'
  BY <1>5 DEF Refuse, Step, uiVars
<1>6. ASSUME NEW t \in Task, Bind(t) PROVE Places'
  BY <1>6 DEF Bind, Step, uiVars
<1>7. ASSUME NEW t \in Task, LoadAuth(t) PROVE Places'
  BY <1>7 DEF LoadAuth, Step, uiVars
<1>8. ASSUME NEW t \in Task, FailAuth(t) PROVE Places'
  BY <1>8 DEF FailAuth, Step, uiVars
<1>9. ASSUME NEW t \in Task, AssignSource(t) PROVE Places'
  BY <1>9 DEF AssignSource, Step, uiVars
<1>10. ASSUME NEW t \in Task, ReadToken(t) PROVE Places'
  BY <1>10 DEF ReadToken, Step, uiVars
<1>11. ASSUME NEW t \in Task, LeaveLoop(t) PROVE Places'
  BY <1>11 DEF LeaveLoop, Step, uiVars
<1>12. ASSUME NEW t \in Task, DisposeSource(t) PROVE Places'
  BY <1>12 DEF DisposeSource, CloseSource, Step, uiVars
<1>13. ASSUME NEW t \in Task, DisposeFaulted(t) PROVE Places'
  BY <1>13 DEF DisposeFaulted, CloseSource, Step, uiVars
<1>14. ASSUME NEW t \in Task, DisposeServer(t) PROVE Places'
  BY <1>14 DEF DisposeServer, Step, uiVars
<1>15. ASSUME NEW t \in Task, DisposeRefused(t) PROVE Places'
  BY <1>15 DEF DisposeRefused, Step, uiVars
<1>16. CASE UNCHANGED vars BY <1>16 DEF vars, uiVars, taskVars
<1> QED BY <1>1, <1>2, <1>3, <1>4, <1>5, <1>6, <1>7, <1>8, <1>9, <1>10, <1>11, <1>12, <1>13, <1>14, <1>15, <1>16 DEF Next, Body

\* The port is handed from one holder to none and on to the next.
LEMMA PortStep == Places /\ PortAccounted /\ [Next]_vars => PortAccounted'
<1> SUFFICES ASSUME Places /\ PortAccounted, [Next]_vars PROVE PortAccounted' OBVIOUS
<1> USE HolderAssumption DEF Places, PlaceOK, StopOK, Place, Holding, Starting, Serving, PortAccounted
<1>1. CASE UncheckCancels BY <1>1 DEF UncheckCancels, Uncheck, taskVars
<1>2. CASE UncheckClears BY <1>2 DEF UncheckClears, taskVars
<1>3. CASE UncheckMisses BY <1>3 DEF UncheckMisses, Uncheck, taskVars
<1>4. ASSUME NEW t \in Task, Check(t) PROVE PortAccounted'
  BY <1>4 DEF Check, uiVars
<1>5. ASSUME NEW t \in Task, Refuse(t) PROVE PortAccounted'
  BY <1>5 DEF Refuse, Step, uiVars
<1>6. ASSUME NEW t \in Task, Bind(t) PROVE PortAccounted'
  BY <1>6 DEF Bind, Step, uiVars
<1>7. ASSUME NEW t \in Task, LoadAuth(t) PROVE PortAccounted'
  BY <1>7 DEF LoadAuth, Step, uiVars
<1>8. ASSUME NEW t \in Task, FailAuth(t) PROVE PortAccounted'
  BY <1>8 DEF FailAuth, Step, uiVars
<1>9. ASSUME NEW t \in Task, AssignSource(t) PROVE PortAccounted'
  BY <1>9 DEF AssignSource, Step, uiVars
<1>10. ASSUME NEW t \in Task, ReadToken(t) PROVE PortAccounted'
  BY <1>10 DEF ReadToken, Step, uiVars
<1>11. ASSUME NEW t \in Task, LeaveLoop(t) PROVE PortAccounted'
  BY <1>11 DEF LeaveLoop, Step, uiVars
<1>12. ASSUME NEW t \in Task, DisposeSource(t) PROVE PortAccounted'
  BY <1>12 DEF DisposeSource, CloseSource, Step, uiVars
<1>13. ASSUME NEW t \in Task, DisposeFaulted(t) PROVE PortAccounted'
  BY <1>13 DEF DisposeFaulted, CloseSource, Step, uiVars
<1>14. ASSUME NEW t \in Task, DisposeServer(t) PROVE PortAccounted'
  BY <1>14 DEF DisposeServer, Step, uiVars
<1>15. ASSUME NEW t \in Task, DisposeRefused(t) PROVE PortAccounted'
  BY <1>15 DEF DisposeRefused, Step, uiVars
<1>16. CASE UNCHANGED vars BY <1>16 DEF vars, uiVars, taskVars
<1> QED BY <1>1, <1>2, <1>3, <1>4, <1>5, <1>6, <1>7, <1>8, <1>9, <1>10, <1>11, <1>12, <1>13, <1>14, <1>15, <1>16 DEF Next, Body

\* What the field, the tokens and the flags say of a task's source.
LEMMA SourcesStep == Places /\ IInv /\ [Next]_vars => (SourcesKnown /\ FieldIsLive /\ FieldOfServing /\ StopIsOwn)'
<1> SUFFICES ASSUME Places /\ IInv, [Next]_vars PROVE (SourcesKnown /\ FieldIsLive /\ FieldOfServing /\ StopIsOwn)' OBVIOUS
<1> USE HolderAssumption DEF Places, PlaceOK, StopOK, Place, Holding, Starting, Serving, IInv, PortAccounted, SourcesKnown, FieldIsLive, FieldOfServing, StopIsOwn, CancelDisables, Assigned
<1>1. CASE UncheckCancels BY <1>1 DEF UncheckCancels, Uncheck, taskVars
<1>2. CASE UncheckClears BY <1>2 DEF UncheckClears, taskVars
<1>3. CASE UncheckMisses BY <1>3 DEF UncheckMisses, Uncheck, taskVars
<1>4. ASSUME NEW t \in Task, Check(t) PROVE (SourcesKnown /\ FieldIsLive /\ FieldOfServing /\ StopIsOwn)'
  BY <1>4 DEF Check, uiVars
<1>5. ASSUME NEW t \in Task, Refuse(t) PROVE (SourcesKnown /\ FieldIsLive /\ FieldOfServing /\ StopIsOwn)'
  BY <1>5 DEF Refuse, Step, uiVars
<1>6. ASSUME NEW t \in Task, Bind(t) PROVE (SourcesKnown /\ FieldIsLive /\ FieldOfServing /\ StopIsOwn)'
  BY <1>6 DEF Bind, Step, uiVars
<1>7. ASSUME NEW t \in Task, LoadAuth(t) PROVE (SourcesKnown /\ FieldIsLive /\ FieldOfServing /\ StopIsOwn)'
  BY <1>7 DEF LoadAuth, Step, uiVars
<1>8. ASSUME NEW t \in Task, FailAuth(t) PROVE (SourcesKnown /\ FieldIsLive /\ FieldOfServing /\ StopIsOwn)'
  BY <1>8 DEF FailAuth, Step, uiVars
<1>9. ASSUME NEW t \in Task, AssignSource(t) PROVE (SourcesKnown /\ FieldIsLive /\ FieldOfServing /\ StopIsOwn)'
  BY <1>9 DEF AssignSource, Step, uiVars
<1>10. ASSUME NEW t \in Task, ReadToken(t) PROVE (SourcesKnown /\ FieldIsLive /\ FieldOfServing /\ StopIsOwn)'
  BY <1>10 DEF ReadToken, Step, uiVars
<1>11. ASSUME NEW t \in Task, LeaveLoop(t) PROVE (SourcesKnown /\ FieldIsLive /\ FieldOfServing /\ StopIsOwn)'
  BY <1>11 DEF LeaveLoop, Step, uiVars
<1>12. ASSUME NEW t \in Task, DisposeSource(t) PROVE (SourcesKnown /\ FieldIsLive /\ FieldOfServing /\ StopIsOwn)'
  BY <1>12 DEF DisposeSource, CloseSource, Step, uiVars
<1>13. ASSUME NEW t \in Task, DisposeFaulted(t) PROVE (SourcesKnown /\ FieldIsLive /\ FieldOfServing /\ StopIsOwn)'
  BY <1>13 DEF DisposeFaulted, CloseSource, Step, uiVars
<1>14. ASSUME NEW t \in Task, DisposeServer(t) PROVE (SourcesKnown /\ FieldIsLive /\ FieldOfServing /\ StopIsOwn)'
  BY <1>14 DEF DisposeServer, Step, uiVars
<1>15. ASSUME NEW t \in Task, DisposeRefused(t) PROVE (SourcesKnown /\ FieldIsLive /\ FieldOfServing /\ StopIsOwn)'
  BY <1>15 DEF DisposeRefused, Step, uiVars
<1>16. CASE UNCHANGED vars BY <1>16 DEF vars, uiVars, taskVars
<1> QED BY <1>1, <1>2, <1>3, <1>4, <1>5, <1>6, <1>7, <1>8, <1>9, <1>10, <1>11, <1>12, <1>13, <1>14, <1>15, <1>16 DEF Next, Body

\* Cancelling and disabling go together.
LEMMA CancelStep == Places /\ IInv /\ [Next]_vars => (FaultOnlyAfterCancel /\ CancelDisables)'
<1> SUFFICES ASSUME Places /\ IInv, [Next]_vars PROVE (FaultOnlyAfterCancel /\ CancelDisables)' OBVIOUS
<1> USE HolderAssumption DEF Places, PlaceOK, StopOK, Place, Holding, Starting, Serving, IInv, FaultOnlyAfterCancel, FieldOfServing, CancelDisables
<1>1. CASE UncheckCancels BY <1>1 DEF UncheckCancels, Uncheck, taskVars
<1>2. CASE UncheckClears BY <1>2 DEF UncheckClears, taskVars
<1>3. CASE UncheckMisses BY <1>3 DEF UncheckMisses, Uncheck, taskVars
<1>4. ASSUME NEW t \in Task, Check(t) PROVE (FaultOnlyAfterCancel /\ CancelDisables)'
  BY <1>4 DEF Check, uiVars
<1>5. ASSUME NEW t \in Task, Refuse(t) PROVE (FaultOnlyAfterCancel /\ CancelDisables)'
  BY <1>5 DEF Refuse, Step, uiVars
<1>6. ASSUME NEW t \in Task, Bind(t) PROVE (FaultOnlyAfterCancel /\ CancelDisables)'
  BY <1>6 DEF Bind, Step, uiVars
<1>7. ASSUME NEW t \in Task, LoadAuth(t) PROVE (FaultOnlyAfterCancel /\ CancelDisables)'
  BY <1>7 DEF LoadAuth, Step, uiVars
<1>8. ASSUME NEW t \in Task, FailAuth(t) PROVE (FaultOnlyAfterCancel /\ CancelDisables)'
  BY <1>8 DEF FailAuth, Step, uiVars
<1>9. ASSUME NEW t \in Task, AssignSource(t) PROVE (FaultOnlyAfterCancel /\ CancelDisables)'
  BY <1>9 DEF AssignSource, Step, uiVars
<1>10. ASSUME NEW t \in Task, ReadToken(t) PROVE (FaultOnlyAfterCancel /\ CancelDisables)'
  BY <1>10 DEF ReadToken, Step, uiVars
<1>11. ASSUME NEW t \in Task, LeaveLoop(t) PROVE (FaultOnlyAfterCancel /\ CancelDisables)'
  BY <1>11 DEF LeaveLoop, Step, uiVars
<1>12. ASSUME NEW t \in Task, DisposeSource(t) PROVE (FaultOnlyAfterCancel /\ CancelDisables)'
  BY <1>12 DEF DisposeSource, CloseSource, Step, uiVars
<1>13. ASSUME NEW t \in Task, DisposeFaulted(t) PROVE (FaultOnlyAfterCancel /\ CancelDisables)'
  BY <1>13 DEF DisposeFaulted, CloseSource, Step, uiVars
<1>14. ASSUME NEW t \in Task, DisposeServer(t) PROVE (FaultOnlyAfterCancel /\ CancelDisables)'
  BY <1>14 DEF DisposeServer, Step, uiVars
<1>15. ASSUME NEW t \in Task, DisposeRefused(t) PROVE (FaultOnlyAfterCancel /\ CancelDisables)'
  BY <1>15 DEF DisposeRefused, Step, uiVars
<1>16. CASE UNCHANGED vars BY <1>16 DEF vars, uiVars, taskVars
<1> QED BY <1>1, <1>2, <1>3, <1>4, <1>5, <1>6, <1>7, <1>8, <1>9, <1>10, <1>11, <1>12, <1>13, <1>14, <1>15, <1>16 DEF Next, Body

\* A second task, or one behind a cleared box, is the trace of a miss.
LEMMA MissStep == Places /\ IInv /\ [Next]_vars => SoloOrMissed'
<1> SUFFICES ASSUME Places /\ IInv, [Next]_vars PROVE SoloOrMissed' OBVIOUS
<1> USE HolderAssumption DEF Places, PlaceOK, StopOK, Place, Holding, Starting, Serving, IInv, SoloOrMissed, FieldIsLive, FieldOfServing, CancelDisables, Active
<1>1. CASE UncheckCancels BY <1>1 DEF UncheckCancels, Uncheck, taskVars
<1>2. CASE UncheckClears BY <1>2 DEF UncheckClears, taskVars
<1>3. CASE UncheckMisses
  <2>1. missed \/ (\E t \in Task : tpc[t] \in Starting) => missed'
    BY <1>3, Zenon DEF UncheckMisses
  <2>2. turnCancel = None \/ turnCancel \in cancelled
    BY <1>3 DEF UncheckMisses, Uncheck
  <2>3. enabled /\ UNCHANGED <<tpc, cancelled>>
    BY <1>3 DEF UncheckMisses, Uncheck, taskVars
  <2>4. \A t \in Task : tpc[t] \in Serving => t \in cancelled BY <2>2, <2>3
  <2> QED BY <2>1, <2>3, <2>4
<1>4. ASSUME NEW t \in Task, Check(t) PROVE SoloOrMissed'
  BY <1>4 DEF Check, uiVars
<1>5. ASSUME NEW t \in Task, Refuse(t) PROVE SoloOrMissed'
  BY <1>5 DEF Refuse, Step, uiVars
<1>6. ASSUME NEW t \in Task, Bind(t) PROVE SoloOrMissed'
  BY <1>6 DEF Bind, Step, uiVars
<1>7. ASSUME NEW t \in Task, LoadAuth(t) PROVE SoloOrMissed'
  BY <1>7 DEF LoadAuth, Step, uiVars
<1>8. ASSUME NEW t \in Task, FailAuth(t) PROVE SoloOrMissed'
  BY <1>8 DEF FailAuth, Step, uiVars
<1>9. ASSUME NEW t \in Task, AssignSource(t) PROVE SoloOrMissed'
  BY <1>9 DEF AssignSource, Step, uiVars
<1>10. ASSUME NEW t \in Task, ReadToken(t) PROVE SoloOrMissed'
  BY <1>10 DEF ReadToken, Step, uiVars
<1>11. ASSUME NEW t \in Task, LeaveLoop(t) PROVE SoloOrMissed'
  BY <1>11 DEF LeaveLoop, Step, uiVars
<1>12. ASSUME NEW t \in Task, DisposeSource(t) PROVE SoloOrMissed'
  BY <1>12 DEF DisposeSource, CloseSource, Step, uiVars
<1>13. ASSUME NEW t \in Task, DisposeFaulted(t) PROVE SoloOrMissed'
  BY <1>13 DEF DisposeFaulted, CloseSource, Step, uiVars
<1>14. ASSUME NEW t \in Task, DisposeServer(t) PROVE SoloOrMissed'
  BY <1>14 DEF DisposeServer, Step, uiVars
<1>15. ASSUME NEW t \in Task, DisposeRefused(t) PROVE SoloOrMissed'
  BY <1>15 DEF DisposeRefused, Step, uiVars
<1>16. CASE UNCHANGED vars BY <1>16 DEF vars, uiVars, taskVars
<1> QED BY <1>1, <1>2, <1>3, <1>4, <1>5, <1>6, <1>7, <1>8, <1>9, <1>10, <1>11, <1>12, <1>13, <1>14, <1>15, <1>16 DEF Next, Body

\* IInv holds at the start, and every step keeps it.
LEMMA InvInit == Init => IInv
<1> SUFFICES ASSUME Init PROVE IInv OBVIOUS
<1>1. FlagsOK BY Zenon DEF Init, FlagsOK
<1>2. TypeOK BY <1>1 DEF Init, TypeOK, PlaceOK, StopOK, Place
<1>3. PortAccounted BY HolderAssumption DEF Init, PortAccounted, Holding, Serving
<1>4. SourcesKnown /\ FieldOfServing /\ StopIsOwn
  BY HolderAssumption DEF Init, SourcesKnown, FieldOfServing, StopIsOwn, Serving
<1>5. FieldIsLive /\ FaultOnlyAfterCancel /\ CancelDisables
  BY DEF Init, FieldIsLive, FaultOnlyAfterCancel, CancelDisables
<1>6. SoloOrMissed BY DEF Init, SoloOrMissed, Active, Starting, Serving
<1> QED BY <1>2, <1>3, <1>4, <1>5, <1>6 DEF IInv

LEMMA InvStep == IInv /\ [Next]_vars => IInv'
<1> SUFFICES ASSUME IInv, [Next]_vars PROVE IInv' OBVIOUS
<1>1. Places /\ FlagsOK BY DEF IInv, TypeOK, Places
<1>2. FlagsOK' BY <1>1, FlagsStep
<1>3. Places' BY <1>1, PlacesStep
<1>4. TypeOK' BY <1>2, <1>3 DEF Places, TypeOK
<1>5. PortAccounted' BY <1>1, PortStep DEF IInv
<1>6. (SourcesKnown /\ FieldIsLive /\ FieldOfServing /\ StopIsOwn)' BY <1>1, SourcesStep
<1>7. (FaultOnlyAfterCancel /\ CancelDisables)' BY <1>1, CancelStep
<1>8. SoloOrMissed' BY <1>1, MissStep
<1> QED BY <1>4, <1>5, <1>6, <1>7, <1>8 DEF IInv

\* The variables keep their types, whatever the interleaving of box and tasks.
THEOREM TypeCorrect == Spec => []TypeOK
<1>1. IInv => TypeOK BY DEF IInv
<1> QED BY <1>1, InvInit, InvStep, PTL DEF Spec

\* RunTurnServer and the destructor: the port has one holder, which will close
\* it, unless a bad auth file left the socket to nobody.
THEOREM PortHasOneHolder == Spec => []PortAccounted
<1>1. IInv => PortAccounted BY DEF IInv
<1> QED BY <1>1, InvInit, InvStep, PTL DEF Spec

\* checkBoxTurn_CheckedChanged never cancels a source that was disposed.
THEOREM CancelHitsLiveSource == Spec => []FieldIsLive
<1>1. IInv => FieldIsLive BY DEF IInv
<1> QED BY <1>1, InvInit, InvStep, PTL DEF Spec

\* The null reference at the Token of the field strikes only after a cancel.
THEOREM FaultsAfterCancel == Spec => []FaultOnlyAfterCancel
<1>1. IInv => FaultOnlyAfterCancel BY DEF IInv
<1> QED BY <1>1, InvInit, InvStep, PTL DEF Spec

\* However many tasks there are, a server behind a cleared box is the trace of a
\* clearing that came before the task had assigned turnCancel.
THEOREM StrayByMiss == Spec => []StrayOnlyByMiss
<1>1. IInv => StrayOnlyByMiss
  BY DEF IInv, SoloOrMissed, StrayOnlyByMiss, Stray, Active
<1> QED BY <1>1, InvInit, InvStep, PTL DEF Spec
-----------------------------------------------------------------------------
\* A task whose source was cancelled reads a cancelled token, however many times
\* the field was assigned in between; and with the box off, unless a clearing
\* missed, every task at work has been told to stop (MainForm.cs:345-375).
ToldToStop ==
  /\ \A t \in cancelled : /\ tpc[t] \in Assigned
                          /\ tpc[t] = "serve" => stop[t] \in cancelled
  /\ ~checked /\ ~missed => \A t \in Task : tpc[t] \in Active => t \in cancelled

\* What CancelledStops and OffFreesPort rest on: no such task can be waiting in
\* its loop with nobody left to end it.
THEOREM CancelledAreTold == Spec => []ToldToStop
<1>1. IInv => ToldToStop
  BY DEF IInv, TypeOK, SourcesKnown, StopIsOwn, SoloOrMissed, ToldToStop
<1> QED BY <1>1, InvInit, InvStep, PTL DEF Spec
=============================================================================
