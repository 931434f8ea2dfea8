--------------------------- MODULE Preview_proofs ----------------------------
(***************************************************************************)
(* Theorems about Preview, for every number of rendering threads.          *)
(***************************************************************************)
EXTENDS Preview, TLAPS

LEMMA Sides == "remote" \in Side /\ \A t \in Thread : SideOf(t) \in Side
                /\ (t \in Remote <=> SideOf(t) = "remote")
  BY DEF Side, SideOf, Thread

\* Where a callback holds the lock, and where it has an array.
Inside  == {"locked", "decode", "decoded", "bitmap", "unlock"}
HasArray == {"decode", "decoded", "bitmap"}

Places ==
  /\ pc \in [Thread -> Place]
  /\ ui \in {"idle", "enter", "show", "freed", "closing", "closed"}
  /\ guest \in Thread \cup {None}
  /\ ui \in {"enter", "show"} => guest \in Thread
  /\ lock \in [Side -> Thread \cup {"ui", None}]
  /\ handle \in {"live", "freed", "null"}

\* A picture box has one owner at a time (MainForm.cs:62, 85, 105, 128).
Mutex ==
  /\ \A t \in Thread : pc[t] \in Inside => lock[SideOf(t)] = t
  /\ ui = "show" => lock[SideOf(guest)] = "ui"

\* What the images of a side have to do with each other.
Linked ==
  /\ array \in Images /\ made \in Images /\ bitmap \in Images /\ box \in Images
  /\ pins \in [Side -> 0 .. MaxPins]
  /\ \A s \in Side : /\ array[s] = made[s] /\ made[s] \in {0, 1}
                     /\ bitmap[s] \in {0, array[s]} /\ box[s] \in {0, array[s]}
  /\ \A t \in Thread : pc[t] \in HasArray => array[SideOf(t)] = 1

LEMMA NextPlaces == Places /\ [Next]_vars => Places'
<1> SUFFICES ASSUME Places, [Next]_vars PROVE Places'
  OBVIOUS
<1> USE Sides, ThreadAssumption DEF Places, Place, vars, threadVars, imageVars
<1>1. ASSUME NEW t \in Thread, Frame(t) PROVE Places'
  BY <1>1 DEF Frame, At
<1>2. ASSUME NEW t \in Thread, Lock(t) PROVE Places'
  BY <1>2 DEF Lock, At
<1>3. ASSUME NEW t \in Thread, Allocate(t) PROVE Places'
  BY <1>3 DEF Allocate, At
<1>4. ASSUME NEW t \in Thread, Decode(t) PROVE Places'
  BY <1>4 DEF Decode, At
<1>5. ASSUME NEW t \in Thread, TestBitmap(t) PROVE Places'
  BY <1>5 DEF TestBitmap, At
<1>6. ASSUME NEW t \in Thread, MakeBitmap(t) PROVE Places'
  BY <1>6 DEF MakeBitmap, At
<1>7. ASSUME NEW t \in Thread, Unlock(t) PROVE Places'
  BY <1>7 DEF Unlock, At
<1>8. ASSUME NEW t \in Thread, Invoke(t) PROVE Places'
  BY <1>8 DEF Invoke, At
<1>9. ASSUME NEW t \in Thread, InvokeAborted(t) PROVE Places'
  BY <1>9 DEF InvokeAborted, At
<1>10. ASSUME NEW t \in Thread, UiTakes(t) PROVE Places'
  BY <1>10 DEF UiTakes
<1>11. ASSUME UiEnters PROVE Places'
  BY <1>11 DEF UiEnters
<1>12. ASSUME UiShows PROVE Places'
  BY <1>12 DEF UiShows
<1>13. ASSUME CloseClears PROVE Places'
  BY <1>13 DEF CloseClears
<1>14. ASSUME Closed PROVE Places'
  BY <1>14 DEF Closed
<1>15. ASSUME CloseFrees PROVE Places'
  BY <1>15 DEF CloseFrees
<1>16. CASE UNCHANGED vars
  BY <1>16
<1> QED
  BY Zenon, <1>1, <1>2, <1>3, <1>4, <1>5, <1>6, <1>7, <1>8, <1>9, <1>10,
     <1>11, <1>12, <1>13, <1>14, <1>15, <1>16 DEF Next, Callback, Ui

LEMMA NextMutex == Places /\ Mutex /\ [Next]_vars => Mutex'
<1> SUFFICES ASSUME Places, Mutex, [Next]_vars PROVE Mutex'
  OBVIOUS
<1> USE Sides, ThreadAssumption DEF Places, Mutex, Inside, Thread, vars, threadVars, imageVars
<1>1. ASSUME NEW t \in Thread, Frame(t) PROVE Mutex'
  BY <1>1 DEF Frame, At
<1>2. ASSUME NEW t \in Thread, Lock(t) PROVE Mutex'
  BY <1>2 DEF Lock, At
<1>3. ASSUME NEW t \in Thread, Allocate(t) PROVE Mutex'
  BY <1>3 DEF Allocate, At
<1>4. ASSUME NEW t \in Thread, Decode(t) PROVE Mutex'
  BY <1>4 DEF Decode, At
<1>5. ASSUME NEW t \in Thread, TestBitmap(t) PROVE Mutex'
  BY <1>5 DEF TestBitmap, At
<1>6. ASSUME NEW t \in Thread, MakeBitmap(t) PROVE Mutex'
  BY <1>6 DEF MakeBitmap, At
<1>7. ASSUME NEW t \in Thread, Unlock(t) PROVE Mutex'
  BY <1>7 DEF Unlock, At
<1>8. ASSUME NEW t \in Thread, Invoke(t) PROVE Mutex'
  BY <1>8 DEF Invoke, At
<1>9. ASSUME NEW t \in Thread, InvokeAborted(t) PROVE Mutex'
  BY <1>9 DEF InvokeAborted, At
<1>10. ASSUME NEW t \in Thread, UiTakes(t) PROVE Mutex'
  BY <1>10 DEF UiTakes
<1>11. ASSUME UiEnters PROVE Mutex'
  BY <1>11 DEF UiEnters
<1>12. ASSUME UiShows PROVE Mutex'
  BY <1>12 DEF UiShows
<1>13. ASSUME CloseClears PROVE Mutex'
  BY <1>13 DEF CloseClears
<1>14. ASSUME Closed PROVE Mutex'
  BY <1>14 DEF Closed
<1>15. ASSUME CloseFrees PROVE Mutex'
  BY <1>15 DEF CloseFrees
<1>16. CASE UNCHANGED vars
  BY <1>16
<1> QED
  BY Zenon, <1>1, <1>2, <1>3, <1>4, <1>5, <1>6, <1>7, <1>8, <1>9, <1>10,
     <1>11, <1>12, <1>13, <1>14, <1>15, <1>16 DEF Next, Callback, Ui

LEMMA NextLinked == Places /\ Mutex /\ Linked /\ [Next]_vars => Linked'
<1> SUFFICES ASSUME Places, Mutex, Linked, [Next]_vars PROVE Linked'
  OBVIOUS
<1> USE Sides, ThreadAssumption DEF Places, Mutex, Linked, Inside, HasArray, Images, vars, threadVars, imageVars
<1>1. ASSUME NEW t \in Thread, Frame(t) PROVE Linked'
  BY <1>1 DEF Frame, At
<1>2. ASSUME NEW t \in Thread, Lock(t) PROVE Linked'
  BY <1>2 DEF Lock, At
<1>3. ASSUME NEW t \in Thread, Allocate(t) PROVE Linked'
  BY <1>3 DEF Allocate, At
<1>4. ASSUME NEW t \in Thread, Decode(t) PROVE Linked'
  BY <1>4 DEF Decode, At
<1>5. ASSUME NEW t \in Thread, TestBitmap(t) PROVE Linked'
  BY <1>5 DEF TestBitmap, At
<1>6. ASSUME NEW t \in Thread, MakeBitmap(t) PROVE Linked'
  BY <1>6 DEF MakeBitmap, At
<1>7. ASSUME NEW t \in Thread, Unlock(t) PROVE Linked'
  BY <1>7 DEF Unlock, At
<1>8. ASSUME NEW t \in Thread, Invoke(t) PROVE Linked'
  BY <1>8 DEF Invoke, At
<1>9. ASSUME NEW t \in Thread, InvokeAborted(t) PROVE Linked'
  BY <1>9 DEF InvokeAborted, At
<1>10. ASSUME NEW t \in Thread, UiTakes(t) PROVE Linked'
  BY <1>10 DEF UiTakes
<1>11. ASSUME UiEnters PROVE Linked'
  BY <1>11 DEF UiEnters
<1>12. ASSUME UiShows PROVE Linked'
  BY <1>12 DEF UiShows
<1>13. ASSUME CloseClears PROVE Linked'
  BY <1>13 DEF CloseClears
<1>14. ASSUME Closed PROVE Linked'
  BY <1>14 DEF Closed
<1>15. ASSUME CloseFrees PROVE Linked'
  BY <1>15 DEF CloseFrees
<1>16. CASE UNCHANGED vars
  BY <1>16
<1> QED
  BY Zenon, <1>1, <1>2, <1>3, <1>4, <1>5, <1>6, <1>7, <1>8, <1>9, <1>10,
     <1>11, <1>12, <1>13, <1>14, <1>15, <1>16 DEF Next, Callback, Ui

\* The three parts hold in every reachable state.
LEMMA PartsCorrect == Spec => [](Places /\ Mutex /\ Linked)
<1>1. Init => Places /\ Mutex /\ Linked
  BY Sides, ThreadAssumption DEF Init, Places, Place, Mutex, Linked, Inside, HasArray, Images
<1> QED
  BY <1>1, NextPlaces, NextMutex, NextLinked, PTL DEF Spec

FaultOK == fault \in BOOLEAN

LEMMA FaultIsBoolean == Spec => []FaultOK
<1>1. Init => FaultOK
  BY Zenon DEF Init, FaultOK
<1>2. FaultOK /\ [Next]_vars => FaultOK'
  <2> SUFFICES ASSUME FaultOK, [Next]_vars PROVE FaultOK'
    OBVIOUS
  <2> USE DEF FaultOK, vars, threadVars, imageVars
  <2>1. ASSUME NEW t \in Thread, Frame(t) PROVE FaultOK'
    BY Zenon, <2>1 DEF Frame, At
  <2>2. ASSUME NEW t \in Thread, Lock(t) PROVE FaultOK'
    BY Zenon, <2>2 DEF Lock, At
  <2>3. ASSUME NEW t \in Thread, Allocate(t) PROVE FaultOK'
    BY Zenon, <2>3 DEF Allocate, At
  <2>4. ASSUME NEW t \in Thread, Decode(t) PROVE FaultOK'
    BY Zenon, <2>4 DEF Decode, At
  <2>5. ASSUME NEW t \in Thread, TestBitmap(t) PROVE FaultOK'
    BY Zenon, <2>5 DEF TestBitmap, At
  <2>6. ASSUME NEW t \in Thread, MakeBitmap(t) PROVE FaultOK'
    BY Zenon, <2>6 DEF MakeBitmap, At
  <2>7. ASSUME NEW t \in Thread, Unlock(t) PROVE FaultOK'
    BY Zenon, <2>7 DEF Unlock, At
  <2>8. ASSUME NEW t \in Thread, Invoke(t) PROVE FaultOK'
    BY Zenon, <2>8 DEF Invoke, At
  <2>9. ASSUME NEW t \in Thread, InvokeAborted(t) PROVE FaultOK'
    BY Zenon, <2>9 DEF InvokeAborted, At
  <2>10. ASSUME NEW t \in Thread, UiTakes(t) PROVE FaultOK'
    BY Zenon, <2>10 DEF UiTakes
  <2>11. ASSUME UiEnters PROVE FaultOK'
    BY Zenon, <2>11 DEF UiEnters
  <2>12. ASSUME UiShows PROVE FaultOK'
    BY Zenon, <2>12 DEF UiShows
  <2>13. ASSUME CloseClears PROVE FaultOK'
    BY Zenon, <2>13 DEF CloseClears
  <2>14. ASSUME Closed PROVE FaultOK'
    BY Zenon, <2>14 DEF Closed
  <2>15. ASSUME CloseFrees PROVE FaultOK'
    BY Zenon, <2>15 DEF CloseFrees
  <2>16. CASE UNCHANGED vars
    BY Zenon, <2>16
  <2> QED
    BY Zenon, <2>1, <2>2, <2>3, <2>4, <2>5, <2>6, <2>7, <2>8, <2>9, <2>10,
       <2>11, <2>12, <2>13, <2>14, <2>15, <2>16 DEF Next, Callback, Ui
<1> QED
  BY <1>1, <1>2, PTL DEF Spec

\* Every variable keeps its type; a picture shows an array that was allocated
\* (MainForm.cs:58-145).
THEOREM TypeCorrect == Spec => []TypeOK
<1>1. Places /\ Linked => pc \in [Thread -> Place] /\ lock \in [Side -> Thread \cup {"ui", None}]
        /\ \A s \in Side : {array[s], bitmap[s], box[s]} \subseteq 0 .. made[s]
  BY DEF Places, Linked, Images
<1>2. Places /\ Linked /\ FaultOK => TypeOK
  BY Zenon, <1>1 DEF Places, Linked, FaultOK, TypeOK
<1> QED
  BY <1>2, FaultIsBoolean, PartsCorrect, PTL

\* Every box shows the array that frames are decoded into (MainForm.cs:64-69, 87-90).
THEOREM FramesAreShown == Spec => []BoxShowsFrames
<1>1. Linked => BoxShowsFrames
  BY DEF Linked, BoxShowsFrames
<1> QED
  BY <1>1, PartsCorrect, PTL

\* The remote bitmap and its pinned handle come together, once.
Once ==
  /\ pins["remote"] = (IF bitmap["remote"] = 0 THEN 0 ELSE 1)
  /\ \A t \in Remote : pc[t] = "bitmap" => bitmap["remote"] = 0

\* The remote preview pins one array (MainForm.cs:62-72).
THEOREM PinnedOnce == Spec => []RemoteOnce
<1>1. Init => Once
  BY Sides DEF Init, Once, Thread
<1>2. Places /\ Mutex /\ Linked /\ Once /\ [Next]_vars => Once'
  <2> SUFFICES ASSUME Places, Mutex, Linked, Once, [Next]_vars PROVE Once'
    OBVIOUS
  <2> USE Sides, ThreadAssumption
      DEF Places, Mutex, Linked, Inside, HasArray, Images, Once, Thread, vars, threadVars, imageVars
  <2>1. ASSUME NEW t \in Thread, Frame(t) PROVE Once'
    BY <2>1 DEF Frame, At
  <2>2. ASSUME NEW t \in Thread, Lock(t) PROVE Once'
    BY <2>2 DEF Lock, At
  <2>3. ASSUME NEW t \in Thread, Allocate(t) PROVE Once'
    BY <2>3 DEF Allocate, At
  <2>4. ASSUME NEW t \in Thread, Decode(t) PROVE Once'
    BY <2>4 DEF Decode, At
  <2>5. ASSUME NEW t \in Thread, TestBitmap(t) PROVE Once'
    BY <2>5 DEF TestBitmap, At
  <2>6. ASSUME NEW t \in Thread, MakeBitmap(t) PROVE Once'
    BY <2>6 DEF MakeBitmap, At
  <2>7. ASSUME NEW t \in Thread, Unlock(t) PROVE Once'
    BY <2>7 DEF Unlock, At
  <2>8. ASSUME NEW t \in Thread, Invoke(t) PROVE Once'
    BY <2>8 DEF Invoke, At
  <2>9. ASSUME NEW t \in Thread, InvokeAborted(t) PROVE Once'
    BY <2>9 DEF InvokeAborted, At
  <2>10. ASSUME NEW t \in Thread, UiTakes(t) PROVE Once'
    BY <2>10 DEF UiTakes
  <2>11. ASSUME UiEnters PROVE Once'
    BY <2>11 DEF UiEnters
  <2>12. ASSUME UiShows PROVE Once'
    BY <2>12 DEF UiShows
  <2>13. ASSUME CloseClears PROVE Once'
    BY <2>13 DEF CloseClears
  <2>14. ASSUME Closed PROVE Once'
    BY <2>14 DEF Closed
  <2>15. ASSUME CloseFrees PROVE Once'
    BY <2>15 DEF CloseFrees
  <2>16. CASE UNCHANGED vars
    BY <2>16
  <2> QED
    BY Zenon, <2>1, <2>2, <2>3, <2>4, <2>5, <2>6, <2>7, <2>8, <2>9, <2>10,
       <2>11, <2>12, <2>13, <2>14, <2>15, <2>16 DEF Next, Callback, Ui
<1>3. Linked /\ Once => RemoteOnce
  BY Sides DEF Linked, Images, Once, RemoteOnce
<1> QED
  BY <1>1, <1>2, <1>3, PartsCorrect, PTL DEF Spec

\* A preview is one picture, the one that frames are decoded into.
THEOREM PictureIsOne == Spec => []OnePicture
  BY PinnedOnce, FramesAreShown, PTL DEF OnePicture

\* A freed decoder is used only while it is being disposed (MainForm.cs:39-42, 64).
THEOREM FaultsInWindow == Spec => FaultOnlyInWindow
<1>1. Init => (handle = "freed" => ui = "freed")
  BY DEF Init
<1>2. (handle = "freed" => ui = "freed") /\ [Next]_vars => (handle = "freed" => ui = "freed")'
  <2> DEFINE G == (handle = "freed" => ui = "freed")'
  <2> SUFFICES ASSUME handle = "freed" => ui = "freed", [Next]_vars PROVE G
    OBVIOUS
  <2> USE DEF vars, threadVars, imageVars
  <2>1. ASSUME NEW t \in Thread, Frame(t) PROVE G
    BY <2>1 DEF Frame, At
  <2>2. ASSUME NEW t \in Thread, Lock(t) PROVE G
    BY <2>2 DEF Lock, At
  <2>3. ASSUME NEW t \in Thread, Allocate(t) PROVE G
    BY <2>3 DEF Allocate, At
  <2>4. ASSUME NEW t \in Thread, Decode(t) PROVE G
    BY <2>4 DEF Decode, At
  <2>5. ASSUME NEW t \in Thread, TestBitmap(t) PROVE G
    BY <2>5 DEF TestBitmap, At
  <2>6. ASSUME NEW t \in Thread, MakeBitmap(t) PROVE G
    BY <2>6 DEF MakeBitmap, At
  <2>7. ASSUME NEW t \in Thread, Unlock(t) PROVE G
    BY <2>7 DEF Unlock, At
  <2>8. ASSUME NEW t \in Thread, Invoke(t) PROVE G
    BY <2>8 DEF Invoke, At
  <2>9. ASSUME NEW t \in Thread, InvokeAborted(t) PROVE G
    BY <2>9 DEF InvokeAborted, At
  <2>10. ASSUME NEW t \in Thread, UiTakes(t) PROVE G
    BY <2>10 DEF UiTakes
  <2>11. ASSUME UiEnters PROVE G
    BY <2>11 DEF UiEnters
  <2>12. ASSUME UiShows PROVE G
    BY <2>12 DEF UiShows
  <2>13. ASSUME CloseClears PROVE G
    BY <2>13 DEF CloseClears
  <2>14. ASSUME Closed PROVE G
    BY <2>14 DEF Closed
  <2>15. ASSUME CloseFrees PROVE G
    BY <2>15 DEF CloseFrees
  <2>16. CASE UNCHANGED vars
    BY <2>16
  <2> QED
    BY Zenon, <2>1, <2>2, <2>3, <2>4, <2>5, <2>6, <2>7, <2>8, <2>9, <2>10,
       <2>11, <2>12, <2>13, <2>14, <2>15, <2>16 DEF Next, Callback, Ui
<1>3. FaultOK /\ (handle = "freed" => ui = "freed") /\ [Next]_vars =>
        [fault' # fault => ui = "freed" \/ ui' = "freed"]_vars
  <2> DEFINE G == fault' # fault => ui = "freed" \/ ui' = "freed"
  <2> SUFFICES ASSUME FaultOK, handle = "freed" => ui = "freed", [Next]_vars PROVE G
    OBVIOUS
  <2> USE DEF vars, threadVars, imageVars
  <2>1. ASSUME NEW t \in Thread, Frame(t) PROVE G
    BY <2>1 DEF Frame, At
  <2>2. ASSUME NEW t \in Thread, Lock(t) PROVE G
    BY <2>2 DEF Lock, At
  <2>3. ASSUME NEW t \in Thread, Allocate(t) PROVE G
    BY <2>3 DEF Allocate, At
  <2>4. ASSUME NEW t \in Thread, Decode(t) PROVE G
    <3>1. CASE handle = "freed"
      BY <3>1
    <3>2. CASE handle # "freed"
      <4>1. fault' = fault
        BY Zenon, <2>4, <3>2 DEF Decode, FaultOK
      <4> QED
        BY <4>1
    <3> QED
      BY <3>1, <3>2
  <2>5. ASSUME NEW t \in Thread, TestBitmap(t) PROVE G
    BY <2>5 DEF TestBitmap, At
  <2>6. ASSUME NEW t \in Thread, MakeBitmap(t) PROVE G
    BY <2>6 DEF MakeBitmap, At
  <2>7. ASSUME NEW t \in Thread, Unlock(t) PROVE G
    BY <2>7 DEF Unlock, At
  <2>8. ASSUME NEW t \in Thread, Invoke(t) PROVE G
    BY <2>8 DEF Invoke, At
  <2>9. ASSUME NEW t \in Thread, InvokeAborted(t) PROVE G
    BY <2>9 DEF InvokeAborted, At
  <2>10. ASSUME NEW t \in Thread, UiTakes(t) PROVE G
    BY <2>10 DEF UiTakes
  <2>11. ASSUME UiEnters PROVE G
    BY <2>11 DEF UiEnters
  <2>12. ASSUME UiShows PROVE G
    BY <2>12 DEF UiShows
  <2>13. ASSUME CloseClears PROVE G
    BY <2>13 DEF CloseClears
  <2>14. ASSUME Closed PROVE G
    BY <2>14 DEF Closed
  <2>15. ASSUME CloseFrees PROVE G
    BY <2>15 DEF CloseFrees
  <2>16. CASE UNCHANGED vars
    BY <2>16
  <2> QED
    BY Zenon, <2>1, <2>2, <2>3, <2>4, <2>5, <2>6, <2>7, <2>8, <2>9, <2>10,
       <2>11, <2>12, <2>13, <2>14, <2>15, <2>16 DEF Next, Callback, Ui
<1> QED
  BY <1>1, <1>2, <1>3, FaultIsBoolean, PTL DEF Spec, FaultOnlyInWindow

-----------------------------------------------------------------------------
(***************************************************************************)
(* No deadlock: what the liveness property CallbackReturns rests on.       *)
(***************************************************************************)
\* Who holds the lock of a box is inside, and the UI thread runs the Invoke of a
\* callback that waits for it.
HolderInside ==
  /\ \A s \in Side : /\ lock[s] \in Thread => pc[lock[s]] \in Inside /\ SideOf(lock[s]) = s
                     /\ lock[s] = "ui" => ui = "show" /\ SideOf(guest) = s
  /\ ui \in {"enter", "show"} => pc[guest] = "waiting"

\* What has to be the case for a thread, and for the UI thread, to take a step.
ThreadGoes(t) ==
  \/ pc[t] \in Inside \cup {"invoke"}
  \/ pc[t] = "wants" /\ lock[SideOf(t)] = None
  \/ pc[t] = "waiting" /\ ui \in {"idle", "closed"}
UiGoes ==
  \/ ui \in {"show", "freed", "closing"}
  \/ ui = "enter" /\ lock[SideOf(guest)] = None

\* While a callback has not returned, one of the threads it may be waiting for can
\* go on (MainForm.cs:62-96, 105-139: Invoke is called after the lock is left).
NeverStuck ==
  \A t \in Thread : pc[t] # "idle" => UiGoes \/ \E u \in Thread : ThreadGoes(u)

LEMMA NextHolder == Places /\ Mutex /\ HolderInside /\ [Next]_vars => HolderInside'
<1> SUFFICES ASSUME Places, Mutex, HolderInside, [Next]_vars PROVE HolderInside'
  OBVIOUS
<1> USE Sides, ThreadAssumption DEF Places, Mutex, HolderInside, Inside, Thread, vars, threadVars, imageVars
<1>1. ASSUME NEW t \in Thread, Frame(t) PROVE HolderInside'
  BY <1>1 DEF Frame, At
<1>2. ASSUME NEW t \in Thread, Lock(t) PROVE HolderInside'
  BY <1>2 DEF Lock, At
<1>3. ASSUME NEW t \in Thread, Allocate(t) PROVE HolderInside'
  BY <1>3 DEF Allocate, At
<1>4. ASSUME NEW t \in Thread, Decode(t) PROVE HolderInside'
  BY <1>4 DEF Decode, At
<1>5. ASSUME NEW t \in Thread, TestBitmap(t) PROVE HolderInside'
  BY <1>5 DEF TestBitmap, At
<1>6. ASSUME NEW t \in Thread, MakeBitmap(t) PROVE HolderInside'
  BY <1>6 DEF MakeBitmap, At
<1>7. ASSUME NEW t \in Thread, Unlock(t) PROVE HolderInside'
  BY <1>7 DEF Unlock, At
<1>8. ASSUME NEW t \in Thread, Invoke(t) PROVE HolderInside'
  BY <1>8 DEF Invoke, At
<1>9. ASSUME NEW t \in Thread, InvokeAborted(t) PROVE HolderInside'
  BY <1>9 DEF InvokeAborted, At
<1>10. ASSUME NEW t \in Thread, UiTakes(t) PROVE HolderInside'
  BY <1>10 DEF UiTakes
<1>11. ASSUME UiEnters PROVE HolderInside'
  BY <1>11 DEF UiEnters
<1>12. ASSUME UiShows PROVE HolderInside'
  BY <1>12 DEF UiShows
<1>13. ASSUME CloseClears PROVE HolderInside'
  BY <1>13 DEF CloseClears
<1>14. ASSUME Closed PROVE HolderInside'
  BY <1>14 DEF Closed
<1>15. ASSUME CloseFrees PROVE HolderInside'
  BY <1>15 DEF CloseFrees
<1>16. CASE UNCHANGED vars
  BY <1>16
<1> QED
  BY Zenon, <1>1, <1>2, <1>3, <1>4, <1>5, <1>6, <1>7, <1>8, <1>9, <1>10,
     <1>11, <1>12, <1>13, <1>14, <1>15, <1>16 DEF Next, Callback, Ui

\* A callback never waits for a thread that waits for it: no lock is held during
\* Invoke, and the holder of a lock always goes on.
THEOREM CallbacksNeverStuck == Spec => []NeverStuck
<1>1. Init => HolderInside
  BY ThreadAssumption DEF Init, HolderInside, Thread
<1>2. Places /\ HolderInside => NeverStuck
  <2> SUFFICES ASSUME Places, HolderInside, NEW t \in Thread, pc[t] # "idle"
               PROVE  UiGoes \/ \E u \in Thread : ThreadGoes(u)
    BY DEF NeverStuck
  <2>1. \A s \in Side : lock[s] # None => UiGoes \/ \E u \in Thread : ThreadGoes(u)
    BY DEF Places, HolderInside, UiGoes, ThreadGoes
  <2>2. SideOf(t) \in Side /\ (ui = "enter" => SideOf(guest) \in Side)
    BY Sides DEF Places
  <2>3. CASE pc[t] = "waiting"
    BY <2>1, <2>2, <2>3 DEF Places, UiGoes, ThreadGoes
  <2>4. CASE pc[t] # "waiting"
    BY <2>1, <2>2, <2>4 DEF Places, Place, Inside, ThreadGoes
  <2> QED
    BY <2>3, <2>4
<1> QED
  BY <1>1, <1>2, NextHolder, PartsCorrect, PTL DEF Spec
=============================================================================
