------------------------------ MODULE Preview ------------------------------
(***************************************************************************)
(* The two previews of the demo form (MainForm.cs): OnRenderRemote and     *)
(* OnRenderLocal run on threads of the native library, decode a frame into *)
(* a managed array under the lock of their picture box, make a bitmap over *)
(* the pinned array, and have the UI thread show it by Invoke.  The UI     *)
(* thread also closes the form.                                            *)
(*                                                                         *)
(* Arrays are numbered in the order of their allocation, 0 is null, and a  *)
(* bitmap is the array it lies over.  What a frame shows is left out.      *)
(***************************************************************************)
EXTENDS Integers

CONSTANTS Remote,    \* threads that call OnRenderRemote (one per session)
          Local,     \* threads that call OnRenderLocal
          None,
          MaxPins    \* bound: handles of a side are counted up to here

ASSUME ThreadAssumption ==
  /\ Remote \cap Local = {} /\ None # "ui"
  /\ None \notin Remote \cup Local /\ "ui" \notin Remote \cup Local
  /\ MaxPins \in Nat \ {0, 1}

Thread == Remote \cup Local
Side   == {"remote", "local"}
SideOf(t) == IF t \in Remote THEN "remote" ELSE "local"

VARIABLES
  pc,      \* where a thread is in its callback
  ui,      \* what the UI thread does
  guest,   \* the thread whose Invoke the UI thread runs, None if none
  lock,    \* the monitor of a picture box: a thread, "ui" or None
  array,   \* bgrBuffremote, bgrBufflocal
  made,    \* arrays allocated for a side so far
  bitmap,  \* remoteImg, localImg
  pins,    \* pinned handles of a side: none is ever freed
  box,     \* Image of a picture box
  handle,  \* the native decoder of encoderRemote: "live", "freed", "null"
  fault    \* a frame was decoded by a freed decoder

threadVars == <<pc, lock>>
imageVars  == <<array, made, bitmap, pins>>
vars == <<threadVars, ui, guest, imageVars, box, handle, fault>>

Place == {"idle", "wants", "locked", "decode", "decoded", "bitmap", "unlock", "invoke",
          "waiting"}

Images == [Side -> Nat]

TypeOK ==
  /\ pc \in [Thread -> Place]
  /\ ui \in {"idle", "enter", "show", "freed", "closing", "closed"}
  /\ guest \in Thread \cup {None}
  /\ lock \in [Side -> Thread \cup {"ui", None}]
  /\ array \in Images /\ made \in Images /\ bitmap \in Images /\ box \in Images
  /\ \A s \in Side : {array[s], bitmap[s], box[s]} \subseteq 0 .. made[s]
  /\ pins \in [Side -> 0 .. MaxPins]
  /\ handle \in {"live", "freed", "null"} /\ fault \in BOOLEAN

Init ==
  /\ pc = [t \in Thread |-> "idle"]
  /\ ui = "idle" /\ guest = None
  /\ lock = [s \in Side |-> None]
  /\ array = [s \in Side |-> 0] /\ made = [s \in Side |-> 0]
  /\ bitmap = [s \in Side |-> 0] /\ pins = [s \in Side |-> 0]
  /\ box = [s \in Side |-> 0]
  /\ handle = "live" /\ fault = FALSE

(***************************************************************************)
(* A render callback.                                                      *)
(***************************************************************************)
At(t, from, to) == pc[t] = from /\ pc' = [pc EXCEPT ![t] = to]

\* A frame comes.
Frame(t) ==
  /\ At(t, "idle", "wants")
  /\ UNCHANGED <<ui, guest, lock, imageVars, box, handle, fault>>

BadLock(t) ==
  /\ At(t, "wants", "locked")
  /\ UNCHANGED <<ui, guest, lock, imageVars, box, handle, fault>>

Lock(t) ==
  /\ At(t, "wants", "locked")
  /\ lock[SideOf(t)] = None
  /\ lock' = [lock EXCEPT ![SideOf(t)] = t]
  /\ UNCHANGED <<ui, guest, imageVars, box, handle, fault>>

\* EncodeI420toBGR24 allocates the array if the reference is null ...
Allocate(t) ==
  LET s == SideOf(t) IN
  /\ At(t, "locked", "decode")
  /\ \/ /\ array[s] = 0 /\ made' = [made EXCEPT ![s] = @ + 1]
        /\ array' = [array EXCEPT ![s] = made[s] + 1]
     \/ array[s] # 0 /\ UNCHANGED <<array, made>>
  /\ UNCHANGED <<lock, ui, guest, bitmap, pins, box, handle, fault>>

\* ... and decodes: a null decoder fails, a freed one does anything.
Decode(t) ==
  /\ \/ At(t, "decode", "decoded") /\ (t \in Local \/ handle # "null")
     \/ At(t, "decode", "unlock")
  /\ fault' = (fault \/ (t \in Remote /\ handle = "freed"))
  /\ UNCHANGED <<lock, ui, guest, imageVars, box, handle>>

\* Both callbacks test remoteImg, the local one without the lock of its box.
TestBitmap(t) ==
  /\ At(t, "decoded", IF bitmap["remote"] = 0 THEN "bitmap" ELSE "unlock")
  /\ UNCHANGED <<lock, ui, guest, imageVars, box, handle, fault>>

MakeBitmap(t) ==
  LET s == SideOf(t) IN
  /\ At(t, "bitmap", "unlock")
  /\ pins' = [pins EXCEPT ![s] = IF @ < MaxPins THEN @ + 1 ELSE @]
  /\ bitmap' = [bitmap EXCEPT ![s] = array[s]]
  /\ UNCHANGED <<lock, ui, guest, array, made, box, handle, fault>>

BadUnlock(t) ==
  /\ At(t, "unlock", "invoke")
  /\ UNCHANGED <<lock, ui, guest, imageVars, box, handle, fault>>

Unlock(t) ==
  /\ At(t, "unlock", "invoke")
  /\ lock' = [lock EXCEPT ![SideOf(t)] = None]
  /\ UNCHANGED <<ui, guest, imageVars, box, handle, fault>>

\* Invoke waits for the UI thread, or throws when the form is gone, and the
\* exception is caught.
Invoke(t) ==
  /\ \/ At(t, "invoke", "waiting") /\ ui # "closed"
     \/ At(t, "invoke", "idle") /\ ui = "closed"
  /\ UNCHANGED <<lock, ui, guest, imageVars, box, handle, fault>>

\* The form is gone while the call waits in its queue.
InvokeAborted(t) ==
  /\ At(t, "waiting", "idle") /\ ui = "closed"
  /\ UNCHANGED <<lock, ui, guest, imageVars, box, handle, fault>>

(***************************************************************************)
(* The UI thread.                                                          *)
(***************************************************************************)
\* It takes an Invoke from its queue ...
UiTakes(t) ==
  /\ ui = "idle" /\ pc[t] = "waiting"
  /\ ui' = "enter" /\ guest' = t
  /\ UNCHANGED <<threadVars, imageVars, box, handle, fault>>

\* ... takes the lock of the box ...
UiEnters ==
  LET s == SideOf(guest) IN
  /\ ui = "enter" /\ ui' = "show"
  /\ lock[s] = None /\ lock' = [lock EXCEPT ![s] = "ui"]
  /\ UNCHANGED <<pc, guest, imageVars, box, handle, fault>>

\* ... shows the bitmap if the box has none, and lets the thread go on.
UiShows ==
  LET s == SideOf(guest) IN
  /\ ui = "show" /\ ui' = "idle"
  /\ box' = [box EXCEPT ![s] = IF @ = 0 THEN bitmap[s] ELSE @]
  /\ lock' = [lock EXCEPT ![s] = None]
  /\ pc' = [pc EXCEPT ![guest] = "idle"] /\ guest' = None
  /\ UNCHANGED <<imageVars, handle, fault>>

\* FormClosing: tjDestroy first, without the lock of any box ...
CloseFrees ==
  /\ ui = "idle" /\ ui' = "freed"
  /\ handle' = "freed"
  /\ fault' = (fault \/ \E t \in Remote : pc[t] = "decode")
  /\ UNCHANGED <<threadVars, guest, imageVars, box>>

BadCloseClears ==
  /\ ui = "freed" /\ ui' = "closing"
  /\ UNCHANGED <<threadVars, guest, imageVars, box, handle, fault>>

\* ... then the pointer is cleared; the server is stopped only after it.
CloseClears ==
  /\ ui = "freed" /\ ui' = "closing"
  /\ handle' = "null"
  /\ UNCHANGED <<threadVars, guest, imageVars, box, fault>>

Closed ==
  /\ ui = "closing" /\ ui' = "closed"
  /\ UNCHANGED <<threadVars, guest, imageVars, box, handle, fault>>

Callback(t) ==
  \/ Allocate(t) \/ Decode(t) \/ TestBitmap(t) \/ MakeBitmap(t)
  \/ Unlock(t) \/ Invoke(t) \/ InvokeAborted(t)
Ui == (\E t \in Thread : UiTakes(t)) \/ UiEnters \/ UiShows \/ CloseClears \/ Closed

Next == (\E t \in Thread : Frame(t) \/ Lock(t) \/ Callback(t)) \/ Ui \/ CloseFrees

Spec == Init /\ [][Next]_vars

\* A thread goes on: threads run, and neither a monitor nor the queue of the UI
\* thread lets one that waits starve (a step of Callback stays enabled until it is
\* taken, so that strong fairness asks no more of it than weak).  No frame need
\* come, and the form need not be closed.
GoesOn(t) == Lock(t) \/ UiTakes(t) \/ Callback(t)

FairSpec == Spec /\ SF_vars(Ui) /\ \A t \in Thread : SF_vars(GoesOn(t))

(***************************************************************************)
(* Properties.                                                             *)
(***************************************************************************)
\* The remote preview: one array, one bitmap over it and one pinned handle,
\* however many sessions render, because the test and the making of the bitmap
\* are under one lock.
RemoteOnce ==
  /\ made["remote"] <= 1 /\ pins["remote"] <= 1
  /\ bitmap["remote"] # 0 => bitmap["remote"] = array["remote"] /\ pins["remote"] = 1

\* What a box shows is the array that frames are decoded into, for both sides,
\* also when the local preview makes a new bitmap for every frame.
BoxShowsFrames == \A s \in Side : box[s] # 0 => box[s] = array[s]

\* Both of these: a preview is one picture, the one that is decoded into.
OnePicture == RemoteOnce /\ BoxShowsFrames

\* A decoder that was freed is used only by a callback that was decoding or began
\* to between the two steps of its disposal: later frames find no decoder.
FaultOnlyInWindow == [][fault' # fault => ui = "freed" \/ ui' = "freed"]_vars

\* Every callback returns: neither lock is held during Invoke, so the UI thread
\* always gets the lock it needs to let the callback go on.
CallbackReturns == \A t \in Thread : pc[t] # "idle" ~> pc[t] = "idle"
=============================================================================
