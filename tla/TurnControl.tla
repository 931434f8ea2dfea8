---------------------------- MODULE TurnControl ----------------------------
(***************************************************************************)
(* The TURN check box of the demo form (MainForm.cs) against the tasks     *)
(* it starts.  The UI thread ticks and clears the box and cancels through  *)
(* the field turnCancel; a task t runs RunTurnServer of a conductor of its *)
(* own, assigns turnCancel, reads the token back from the field, serves    *)
(* until that token is cancelled, and disposes what it made.  All tasks    *)
(* bind the same UDP port.                                                 *)
(*                                                                         *)
(* ProcessMessages returns FALSE on a thread that was told to quit, which  *)
(* only the destructor at the end of the same task does, so the loop of a  *)
(* task ends by its token alone.                                           *)
(***************************************************************************)
EXTENDS Naturals, FiniteSets

CONSTANTS Task,     \* tasks the check box may start (bound)
          None,     \* no source; nobody holds the port
          Leaked    \* the holder of a socket that nothing refers to

ASSUME HolderAssumption == None \notin Task /\ Leaked \notin Task /\ None # Leaked

VARIABLES
  checked,      \* checkBoxTurn.Checked
  enabled,      \* checkBoxTurn.Enabled
  upc,          \* "clear": the UI thread is between Cancel and turnCancel = null
  turnCancel,   \* the field: the source of a task, or None for null
  cancelled,    \* sources whose IsCancellationRequested is set
  disposed,     \* sources that were disposed
  tpc,          \* where a task is
  stop,         \* the task's local variable: the source of its token
  port,         \* who holds the UDP port
  missed        \* history: the box was cleared while a task was starting

uiVars   == <<checked, enabled, upc, missed>>
taskVars == <<tpc, stop>>
vars     == <<uiVars, turnCancel, cancelled, disposed, taskVars, port>>

Starting == {"start", "bound", "up"}
Serving  == {"token", "serve"}
Holding  == Serving \cup {"bound", "up", "stopping", "fault", "drop"}
Place    == Holding \cup {"none", "start", "refused", "done"}

PlaceOK == tpc \in [Task -> Place]
StopOK  == stop \in [Task -> Task \cup {None}]
FlagsOK == checked \in BOOLEAN /\ enabled \in BOOLEAN /\ missed \in BOOLEAN

TypeOK ==
  /\ PlaceOK /\ StopOK /\ FlagsOK
  /\ upc \in {"idle", "clear"}
  /\ turnCancel \in Task \cup {None}
  /\ cancelled \subseteq Task
  /\ disposed \subseteq Task
  /\ port \in Task \cup {None, Leaked}

Init ==
  /\ checked = FALSE /\ enabled = TRUE /\ missed = FALSE
  /\ upc = "idle"
  /\ turnCancel = None
  /\ cancelled = {} /\ disposed = {}
  /\ tpc = [t \in Task |-> "none"]
  /\ stop = [t \in Task |-> None]
  /\ port = None

(***************************************************************************)
(* The UI thread.                                                          *)
(***************************************************************************)
\* The box is ticked: a long running task is started.
Check(t) ==
  /\ upc = "idle" /\ enabled /\ ~checked
  /\ tpc[t] = "none"
  /\ tpc' = [tpc EXCEPT ![t] = "start"]
  /\ checked' = TRUE
  /\ UNCHANGED <<enabled, upc, missed, turnCancel, cancelled, disposed, stop, port>>

\* The box is cleared, in the two states the handler tells apart.
Uncheck(found, next) ==
  /\ upc = "idle" /\ enabled /\ checked
  /\ (turnCancel # None /\ turnCancel \notin cancelled) = found
  /\ checked' = FALSE
  /\ upc' = next
  /\ UNCHANGED <<enabled, turnCancel, disposed, taskVars, port>>

\* There is a source in the field: it is cancelled first ...
UncheckCancels ==
  /\ Uncheck(TRUE, "clear")
  /\ cancelled' = cancelled \cup {turnCancel}
  /\ UNCHANGED missed

\* ... then the field is cleared, and the box disabled for good.
UncheckClears ==
  /\ upc = "clear" /\ upc' = "idle"
  /\ turnCancel' = None
  /\ enabled' = FALSE
  /\ UNCHANGED <<checked, missed, cancelled, disposed, taskVars, port>>

\* There is nothing to cancel: the handler does nothing.
UncheckMisses ==
  /\ Uncheck(FALSE, "idle")
  /\ missed' = (missed \/ \E t \in Task : tpc[t] \in Starting)
  /\ UNCHANGED cancelled

(***************************************************************************)
(* The body of a task.                                                     *)
(***************************************************************************)
Step(t, from, to) ==
  /\ tpc[t] = from
  /\ tpc' = [tpc EXCEPT ![t] = to]
  /\ UNCHANGED <<uiVars, cancelled>>

\* RunTurnServer up to the socket: an address that does not parse, or a
\* port that cannot be bound, makes it return false.
Refuse(t) == Step(t, "start", "refused") /\ UNCHANGED <<turnCancel, disposed, stop, port>>

Bind(t) ==
  /\ port = None
  /\ Step(t, "start", "bound")
  /\ port' = t
  /\ UNCHANGED <<turnCancel, disposed, stop>>

\* The auth file loads: a TURN server is made, and takes the socket.
LoadAuth(t) == Step(t, "bound", "up") /\ UNCHANGED <<turnCancel, disposed, stop, port>>

\* The auth file does not load: false is returned, and nothing owns the socket.
FailAuth(t) ==
  /\ Step(t, "bound", "refused")
  /\ port' = Leaked
  /\ UNCHANGED <<turnCancel, disposed, stop>>

BadAssignSource(t) == Step(t, "up", "token") /\ UNCHANGED <<turnCancel, disposed, stop, port>>

\* using (turnCancel = new CancellationTokenSource())
AssignSource(t) ==
  /\ Step(t, "up", "token")
  /\ turnCancel' = t
  /\ UNCHANGED <<disposed, stop, port>>

BadReadToken(t) ==
  /\ Step(t, "token", IF turnCancel = None THEN "fault" ELSE "serve")
  /\ UNCHANGED <<turnCancel, disposed, stop, port>>

\* var stop = turnCancel.Token: the field is read again, and may be null by now.
ReadToken(t) ==
  /\ Step(t, "token", IF turnCancel = None THEN "fault" ELSE "serve")
  /\ stop' = [stop EXCEPT ![t] = turnCancel]
  /\ UNCHANGED <<turnCancel, disposed, port>>

\* The loop finds its token cancelled.
LeaveLoop(t) ==
  /\ stop[t] \in cancelled
  /\ Step(t, "serve", "stopping")
  /\ UNCHANGED <<turnCancel, disposed, stop, port>>

\* The inner "using" disposes the source, after the loop or a null reference.
CloseSource(t, from, to) ==
  /\ Step(t, from, to)
  /\ disposed' = disposed \cup {t}
  /\ UNCHANGED <<turnCancel, stop, port>>

BadDisposeSource(t) == CloseSource(t, "stopping", "done")

DisposeSource(t) == CloseSource(t, "stopping", "drop")

DisposeFaulted(t) == CloseSource(t, "fault", "drop")

BadDisposeServer(t) == Step(t, "drop", "done") /\ UNCHANGED <<turnCancel, disposed, stop, port>>

\* The outer "using" disposes the conductor: its TURN server closes the socket.
DisposeServer(t) ==
  /\ Step(t, "drop", "done")
  /\ port' = None
  /\ UNCHANGED <<turnCancel, disposed, stop>>

\* A conductor without a TURN server is disposed: it has no socket to close.
DisposeRefused(t) == Step(t, "refused", "done") /\ UNCHANGED <<turnCancel, disposed, stop, port>>

Body(t) ==
  \/ Refuse(t) \/ Bind(t) \/ LoadAuth(t) \/ FailAuth(t) \/ AssignSource(t)
  \/ ReadToken(t) \/ LeaveLoop(t) \/ DisposeSource(t) \/ DisposeFaulted(t)
  \/ DisposeServer(t) \/ DisposeRefused(t)

Next ==
  \/ UncheckCancels \/ UncheckClears \/ UncheckMisses
  \/ \E t \in Task : Check(t) \/ Body(t)

Spec == Init /\ [][Next]_vars

\* A long running task has a thread of its own, and a handler of the UI ends.
FairSpec == Spec /\ WF_vars(UncheckClears) /\ \A t \in Task : WF_vars(Body(t))

(***************************************************************************)
(* What the check box promises.                                            *)
(***************************************************************************)
\* One listener at a time, and none forgotten: the port belongs to a task that
\* will still close it, or to the socket that a failed LoadAuth left behind.
PortAccounted ==
  /\ port \in Task => tpc[port] \in Holding
  /\ \A t \in Task : tpc[t] \in Holding => port = t

\* The field never holds a source that was cancelled or disposed (Cancel on it
\* would throw), except between Cancel and the assignment that follows it.
FieldIsLive == turnCancel \in cancelled \cup disposed => upc = "clear"

\* A task that reads null instead of its token does so because somebody was
\* cancelled, so the server it gives up was not meant to run on.
FaultOnlyAfterCancel == (\E t \in Task : tpc[t] = "fault") => cancelled # {}

\* A server that goes on although the box is off, and that nobody has told to
\* stop, is the work of one interleaving: the box was cleared before a
\* starting task had assigned turnCancel.
Stray(t) == tpc[t] \in Serving /\ t \notin cancelled

StrayOnlyByMiss == (~checked /\ \E t \in Task : Stray(t)) => missed

\* A cancelled task ends, so it disposes its source and its conductor.
CancelledStops == \A t \in Task : t \in cancelled ~> tpc[t] = "done"

\* With the same exception, clearing the box frees the port.
OffFreesPort == ~checked ~> (port \notin Task \/ checked \/ missed)
=============================================================================
