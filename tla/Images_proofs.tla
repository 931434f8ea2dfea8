--------------------------- MODULE Images_proofs ---------------------------
(***************************************************************************)
(* Proofs about the parts that work on images, for any filters, addresses, *)
(* image sizes, lists of scaling factors, sizes of the camera and times.   *)
(*                                                                         *)
(* Filters: that every image has one owner is inductive once types are     *)
(* known; the other facts rest on it.  JPEG wrapper: what each buffer was  *)
(* made for gives its length, and the factor in hand was selected for the  *)
(* recorded request.  Camera: without a change the three sizes are one,    *)
(* and a frame's code is that of its value.                                *)
(*                                                                         *)
(* The loop over the factors, the check sum and the numbers a code spells  *)
(* are recursive functions; induction over them goes through least         *)
(* elements (SetInduction), and that they are defined through              *)
(* RecursionDefines.                                                       *)
(***************************************************************************)
EXTENDS MCImages, Integers, Sequences, TLAPS, WellFoundedInduction

\* Only a link makes an output borrowed.
BorrowedIsLoose == \A f \in Filter : ~ownedOut[f] => loose

\* The address a filter has is that of the buffer it pins, unless it is marked.
HandleIsBuffer ==
  \A f \in Filter : Usable(f) /\ f \notin repinned => held[f] = data[f]

\* Every step keeps the types.
LEMMA TypeStep ==
  ASSUME TypeOK, [Next]_vars
  PROVE  TypeOK'
<1>. USE FilterAssumption DEF bufVars, linkVars, history, TypeOK, OwnIn, OwnOut, Usable
<1>1. ASSUME NEW f \in Filter, NEW b \in Buffer, PinnBuffer(f, b)
     PROVE  TypeOK'
  BY <1>1 DEF PinnBuffer
<1>2. ASSUME NEW f \in Filter, NEW g \in Filter, SetPinnedBuffer(f, g)
     PROVE  TypeOK'
  BY <1>2 DEF SetPinnedBuffer
<1>3. ASSUME NEW f \in Filter, NEW p \in Pix, SetInput(f, p)
     PROVE  TypeOK'
  BY <1>3 DEF SetInput, Replace, Revive
<1>4. ASSUME NEW f \in Filter, NEW p \in Pix \cup {None}, LinkInput(f, p)
     PROVE  TypeOK'
  BY <1>4 DEF LinkInput
<1>5. ASSUME NEW f \in Filter, NEW p \in Pix \cup {None}, LinkOutput(f, p)
     PROVE  TypeOK'
  BY <1>5 DEF LinkOutput
<1>6. ASSUME NEW f \in Filter, NEW p \in Pix, Apply(f, p)
     PROVE  TypeOK'
  BY <1>6 DEF Apply, Replace, Revive
<1>7. ASSUME NEW f \in Filter, ApplyFails(f)
     PROVE  TypeOK'
  BY <1>7 DEF ApplyFails, Destroy
<1>8. ASSUME NEW f \in Filter, ApplyInPlace(f)
     PROVE  TypeOK'
  BY <1>8 DEF ApplyInPlace, Destroy
<1>9. ASSUME NEW f \in Filter, Dispose(f)
     PROVE  TypeOK'
  BY <1>9 DEF Dispose, Destroy, Finalize
<1>10. ASSUME NEW f \in Filter, Collect(f)
     PROVE  TypeOK'
  BY <1>10 DEF Collect, Destroy, Finalize
<1>11. CASE UNCHANGED vars
  BY <1>11 DEF vars
<1>. QED
  BY <1>1, <1>2, <1>3, <1>4, <1>5, <1>6, <1>7, <1>8, <1>9, <1>10, <1>11
     DEF Next, SetInputFromInput, SetInputFromOutput, SetOutputFromInput, SetOutputFromOutput

\* Every step keeps the owner of every image unique.
LEMMA OwnerStep ==
  ASSUME TypeOK, OneOwner, [Next]_vars
  PROVE  OneOwner'
<1>. USE FilterAssumption DEF bufVars, linkVars, history, TypeOK, OneOwner, OwnIn, OwnOut, Usable
<1>1. ASSUME NEW f \in Filter, NEW b \in Buffer, PinnBuffer(f, b)
     PROVE  OneOwner'
  BY <1>1 DEF PinnBuffer
<1>2. ASSUME NEW f \in Filter, NEW g \in Filter, SetPinnedBuffer(f, g)
     PROVE  OneOwner'
  BY <1>2 DEF SetPinnedBuffer
<1>3. ASSUME NEW f \in Filter, NEW p \in Pix, SetInput(f, p)
     PROVE  OneOwner'
  BY <1>3 DEF SetInput, Replace, Revive
<1>4. ASSUME NEW f \in Filter, NEW p \in Pix \cup {None}, LinkInput(f, p)
     PROVE  OneOwner'
  BY <1>4 DEF LinkInput
<1>5. ASSUME NEW f \in Filter, NEW p \in Pix \cup {None}, LinkOutput(f, p)
     PROVE  OneOwner'
  BY <1>5 DEF LinkOutput
<1>6. ASSUME NEW f \in Filter, NEW p \in Pix, Apply(f, p)
     PROVE  OneOwner'
  BY <1>6 DEF Apply, Replace, Revive
<1>7. ASSUME NEW f \in Filter, ApplyFails(f)
     PROVE  OneOwner'
  BY <1>7 DEF ApplyFails, Destroy
<1>8. ASSUME NEW f \in Filter, ApplyInPlace(f)
     PROVE  OneOwner'
  BY <1>8 DEF ApplyInPlace, Destroy
<1>9. ASSUME NEW f \in Filter, Dispose(f)
     PROVE  OneOwner'
  BY <1>9 DEF Dispose, Destroy, Finalize
<1>10. ASSUME NEW f \in Filter, Collect(f)
     PROVE  OneOwner'
  BY <1>10 DEF Collect, Destroy, Finalize
<1>11. CASE UNCHANGED vars
  BY <1>11 DEF vars
<1>. QED
  BY <1>1, <1>2, <1>3, <1>4, <1>5, <1>6, <1>7, <1>8, <1>9, <1>10, <1>11
     DEF Next, SetInputFromInput, SetInputFromOutput, SetOutputFromInput, SetOutputFromOutput

\* Every step keeps managed buffers out of the outputs a filter destroys.
LEMMA PixelsStep ==
  ASSUME TypeOK, OneOwner, OutputOwnsPixels, [Next]_vars
  PROVE  OutputOwnsPixels'
<1>. USE FilterAssumption DEF bufVars, linkVars, history, TypeOK, OneOwner, OutputOwnsPixels, OwnIn, OwnOut, Usable
<1>1. ASSUME NEW f \in Filter, NEW b \in Buffer, PinnBuffer(f, b)
     PROVE  OutputOwnsPixels'
  BY <1>1 DEF PinnBuffer
<1>2. ASSUME NEW f \in Filter, NEW g \in Filter, SetPinnedBuffer(f, g)
     PROVE  OutputOwnsPixels'
  BY <1>2 DEF SetPinnedBuffer
<1>3. ASSUME NEW f \in Filter, NEW p \in Pix, SetInput(f, p)
     PROVE  OutputOwnsPixels'
  BY <1>3 DEF SetInput, Replace, Revive
<1>4. ASSUME NEW f \in Filter, NEW p \in Pix \cup {None}, LinkInput(f, p)
     PROVE  OutputOwnsPixels'
  BY <1>4 DEF LinkInput
<1>5. ASSUME NEW f \in Filter, NEW p \in Pix \cup {None}, LinkOutput(f, p)
     PROVE  OutputOwnsPixels'
  BY <1>5 DEF LinkOutput
<1>6. ASSUME NEW f \in Filter, NEW p \in Pix, Apply(f, p)
     PROVE  OutputOwnsPixels'
  BY <1>6 DEF Apply, Replace, Revive
<1>7. ASSUME NEW f \in Filter, ApplyFails(f)
     PROVE  OutputOwnsPixels'
  BY <1>7 DEF ApplyFails, Destroy
<1>8. ASSUME NEW f \in Filter, ApplyInPlace(f)
     PROVE  OutputOwnsPixels'
  BY <1>8 DEF ApplyInPlace, Destroy
<1>9. ASSUME NEW f \in Filter, Dispose(f)
     PROVE  OutputOwnsPixels'
  BY <1>9 DEF Dispose, Destroy, Finalize
<1>10. ASSUME NEW f \in Filter, Collect(f)
     PROVE  OutputOwnsPixels'
  BY <1>10 DEF Collect, Destroy, Finalize
<1>11. CASE UNCHANGED vars
  BY <1>11 DEF vars
<1>. QED
  BY <1>1, <1>2, <1>3, <1>4, <1>5, <1>6, <1>7, <1>8, <1>9, <1>10, <1>11
     DEF Next, SetInputFromInput, SetInputFromOutput, SetOutputFromInput, SetOutputFromOutput

\* Every step that makes an output borrowed is a loose one.
LEMMA BorrowedStep ==
  ASSUME TypeOK, BorrowedIsLoose, [Next]_vars
  PROVE  BorrowedIsLoose'
<1>. USE FilterAssumption DEF bufVars, linkVars, history, TypeOK, BorrowedIsLoose, Usable
<1>1. ASSUME NEW f \in Filter, NEW b \in Buffer, PinnBuffer(f, b)
     PROVE  BorrowedIsLoose'
  BY <1>1 DEF PinnBuffer
<1>2. ASSUME NEW f \in Filter, NEW g \in Filter, SetPinnedBuffer(f, g)
     PROVE  BorrowedIsLoose'
  BY <1>2 DEF SetPinnedBuffer
<1>3. ASSUME NEW f \in Filter, NEW p \in Pix, SetInput(f, p)
     PROVE  BorrowedIsLoose'
  BY <1>3 DEF SetInput, Replace, Revive
<1>4. ASSUME NEW f \in Filter, NEW p \in Pix \cup {None}, LinkInput(f, p)
     PROVE  BorrowedIsLoose'
  BY <1>4 DEF LinkInput
<1>5. ASSUME NEW f \in Filter, NEW p \in Pix \cup {None}, LinkOutput(f, p)
     PROVE  BorrowedIsLoose'
  BY <1>5 DEF LinkOutput
<1>6. ASSUME NEW f \in Filter, NEW p \in Pix, Apply(f, p)
     PROVE  BorrowedIsLoose'
  BY <1>6 DEF Apply, Replace, Revive
<1>7. ASSUME NEW f \in Filter, ApplyFails(f)
     PROVE  BorrowedIsLoose'
  BY <1>7 DEF ApplyFails, Destroy
<1>8. ASSUME NEW f \in Filter, ApplyInPlace(f)
     PROVE  BorrowedIsLoose'
  BY <1>8 DEF ApplyInPlace, Destroy
<1>9. ASSUME NEW f \in Filter, Dispose(f)
     PROVE  BorrowedIsLoose'
  BY <1>9 DEF Dispose, Destroy, Finalize
<1>10. ASSUME NEW f \in Filter, Collect(f)
     PROVE  BorrowedIsLoose'
  BY <1>10 DEF Collect, Destroy, Finalize
<1>11. CASE UNCHANGED vars
  BY <1>11 DEF vars
<1>. QED
  BY <1>1, <1>2, <1>3, <1>4, <1>5, <1>6, <1>7, <1>8, <1>9, <1>10, <1>11
     DEF Next, SetInputFromInput, SetInputFromOutput, SetOutputFromInput, SetOutputFromOutput

\* Every step that parts the address from the handle marks the filter.
LEMMA HandleStep ==
  ASSUME TypeOK, HandleIsBuffer, [Next]_vars
  PROVE  HandleIsBuffer'
<1>. USE FilterAssumption DEF bufVars, linkVars, history, TypeOK, HandleIsBuffer, OwnIn, Usable
<1>1. ASSUME NEW f \in Filter, NEW b \in Buffer, PinnBuffer(f, b)
     PROVE  HandleIsBuffer'
  BY <1>1 DEF PinnBuffer
<1>2. ASSUME NEW f \in Filter, NEW g \in Filter, SetPinnedBuffer(f, g)
     PROVE  HandleIsBuffer'
  BY <1>2 DEF SetPinnedBuffer
<1>3. ASSUME NEW f \in Filter, NEW p \in Pix, SetInput(f, p)
     PROVE  HandleIsBuffer'
  BY <1>3 DEF SetInput, Replace, Revive
<1>4. ASSUME NEW f \in Filter, NEW p \in Pix \cup {None}, LinkInput(f, p)
     PROVE  HandleIsBuffer'
  BY <1>4 DEF LinkInput
<1>5. ASSUME NEW f \in Filter, NEW p \in Pix \cup {None}, LinkOutput(f, p)
     PROVE  HandleIsBuffer'
  BY <1>5 DEF LinkOutput
<1>6. ASSUME NEW f \in Filter, NEW p \in Pix, Apply(f, p)
     PROVE  HandleIsBuffer'
  BY <1>6 DEF Apply, Replace, Revive
<1>7. ASSUME NEW f \in Filter, ApplyFails(f)
     PROVE  HandleIsBuffer'
  BY <1>7 DEF ApplyFails, Destroy
<1>8. ASSUME NEW f \in Filter, ApplyInPlace(f)
     PROVE  HandleIsBuffer'
  BY <1>8 DEF ApplyInPlace, Destroy
<1>9. ASSUME NEW f \in Filter, Dispose(f)
     PROVE  HandleIsBuffer'
  BY <1>9 DEF Dispose, Destroy, Finalize
<1>10. ASSUME NEW f \in Filter, Collect(f)
     PROVE  HandleIsBuffer'
  BY <1>10 DEF Collect, Destroy, Finalize
<1>11. CASE UNCHANGED vars
  BY <1>11 DEF vars
<1>. QED
  BY <1>1, <1>2, <1>3, <1>4, <1>5, <1>6, <1>7, <1>8, <1>9, <1>10, <1>11
     DEF Next, SetInputFromInput, SetInputFromOutput, SetOutputFromInput, SetOutputFromOutput

\* Every step that loses an image is, or follows, a loose one.
LEMMA LostStep ==
  ASSUME TypeOK, OneOwner, BorrowedIsLoose, LostOnlyByLinks, [Next]_vars
  PROVE  LostOnlyByLinks'
<1>. USE FilterAssumption DEF bufVars, linkVars, history, TypeOK, OneOwner, BorrowedIsLoose, LostOnlyByLinks, OwnIn, OwnOut, Usable
<1>1. ASSUME NEW f \in Filter, NEW b \in Buffer, PinnBuffer(f, b)
     PROVE  LostOnlyByLinks'
  BY <1>1 DEF PinnBuffer
<1>2. ASSUME NEW f \in Filter, NEW g \in Filter, SetPinnedBuffer(f, g)
     PROVE  LostOnlyByLinks'
  BY <1>2 DEF SetPinnedBuffer
<1>3. ASSUME NEW f \in Filter, NEW p \in Pix, SetInput(f, p)
     PROVE  LostOnlyByLinks'
  BY <1>3 DEF SetInput, Replace, Revive
<1>4. ASSUME NEW f \in Filter, NEW p \in Pix \cup {None}, LinkInput(f, p)
     PROVE  LostOnlyByLinks'
  BY <1>4 DEF LinkInput
<1>5. ASSUME NEW f \in Filter, NEW p \in Pix \cup {None}, LinkOutput(f, p)
     PROVE  LostOnlyByLinks'
  BY <1>5 DEF LinkOutput
<1>6. ASSUME NEW f \in Filter, NEW p \in Pix, Apply(f, p)
     PROVE  LostOnlyByLinks'
  BY <1>6 DEF Apply, Replace, Revive
<1>7. ASSUME NEW f \in Filter, ApplyFails(f)
     PROVE  LostOnlyByLinks'
  BY <1>7 DEF ApplyFails, Destroy
<1>8. ASSUME NEW f \in Filter, ApplyInPlace(f)
     PROVE  LostOnlyByLinks'
  BY <1>8 DEF ApplyInPlace, Destroy
<1>9. ASSUME NEW f \in Filter, Dispose(f)
     PROVE  LostOnlyByLinks'
  BY <1>9 DEF Dispose, Destroy, Finalize
<1>10. ASSUME NEW f \in Filter, Collect(f)
     PROVE  LostOnlyByLinks'
  BY <1>10 DEF Collect, Destroy, Finalize
<1>11. CASE UNCHANGED vars
  BY <1>11 DEF vars
<1>. QED
  BY <1>1, <1>2, <1>3, <1>4, <1>5, <1>6, <1>7, <1>8, <1>9, <1>10, <1>11
     DEF Next, SetInputFromInput, SetInputFromOutput, SetOutputFromInput, SetOutputFromOutput

\* Every step keeps an input over the buffer its filter pins, or marks the filter.
LEMMA PinnedStep ==
  ASSUME TypeOK, OneOwner, HandleIsBuffer, InputPinned, [Next]_vars
  PROVE  InputPinned'
<1>. USE FilterAssumption DEF bufVars, linkVars, history, TypeOK, OneOwner, HandleIsBuffer, InputPinned, OwnIn, OwnOut, Usable
<1>1. ASSUME NEW f \in Filter, NEW b \in Buffer, PinnBuffer(f, b)
     PROVE  InputPinned'
  BY <1>1 DEF PinnBuffer
<1>2. ASSUME NEW f \in Filter, NEW g \in Filter, SetPinnedBuffer(f, g)
     PROVE  InputPinned'
  BY <1>2 DEF SetPinnedBuffer
<1>3. ASSUME NEW f \in Filter, NEW p \in Pix, SetInput(f, p)
     PROVE  InputPinned'
  BY <1>3 DEF SetInput, Replace, Revive
<1>4. ASSUME NEW f \in Filter, NEW p \in Pix \cup {None}, LinkInput(f, p)
     PROVE  InputPinned'
  BY <1>4 DEF LinkInput
<1>5. ASSUME NEW f \in Filter, NEW p \in Pix \cup {None}, LinkOutput(f, p)
     PROVE  InputPinned'
  BY <1>5 DEF LinkOutput
<1>6. ASSUME NEW f \in Filter, NEW p \in Pix, Apply(f, p)
     PROVE  InputPinned'
  BY <1>6 DEF Apply, Replace, Revive
<1>7. ASSUME NEW f \in Filter, ApplyFails(f)
     PROVE  InputPinned'
  BY <1>7 DEF ApplyFails, Destroy
<1>8. ASSUME NEW f \in Filter, ApplyInPlace(f)
     PROVE  InputPinned'
  BY <1>8 DEF ApplyInPlace, Destroy
<1>9. ASSUME NEW f \in Filter, Dispose(f)
     PROVE  InputPinned'
  BY <1>9 DEF Dispose, Destroy, Finalize
<1>10. ASSUME NEW f \in Filter, Collect(f)
     PROVE  InputPinned'
  BY <1>10 DEF Collect, Destroy, Finalize
<1>11. CASE UNCHANGED vars
  BY <1>11 DEF vars
<1>. QED
  BY <1>1, <1>2, <1>3, <1>4, <1>5, <1>6, <1>7, <1>8, <1>9, <1>10, <1>11
     DEF Next, SetInputFromInput, SetInputFromOutput, SetOutputFromInput, SetOutputFromOutput

-----------------------------------------------------------------------------
Inv == /\ TypeOK /\ OneOwner /\ OutputOwnsPixels
       /\ BorrowedIsLoose /\ LostOnlyByLinks /\ HandleIsBuffer /\ InputPinned

\* The invariant holds at the start: there is no image.
LEMMA InvInit == Init => Inv
<1>. SUFFICES ASSUME Init PROVE Inv
  OBVIOUS
<1>. USE FilterAssumption DEF Init
<1>1. TypeOK
  BY DEF TypeOK
<1>2. \A f \in Filter : OwnIn(f) = {} /\ OwnOut(f) = {}
  BY DEF OwnIn, OwnOut
<1>3. OneOwner /\ OutputOwnsPixels /\ InputPinned
  BY <1>2 DEF OneOwner, OutputOwnsPixels, InputPinned
<1>4. LostOnlyByLinks
  BY DEF LostOnlyByLinks
<1>5. BorrowedIsLoose /\ HandleIsBuffer
  BY DEF BorrowedIsLoose, HandleIsBuffer
<1>. QED
  BY <1>1, <1>3, <1>4, <1>5 DEF Inv

\* Every step keeps the invariant.
LEMMA InvStep == Inv /\ [Next]_vars => Inv'
BY TypeStep, OwnerStep, PixelsStep, BorrowedStep, HandleStep, LostStep, PinnedStep DEF Inv

\* The invariant holds in every reachable state.
LEMMA InvAlways == Spec => []Inv
BY InvInit, InvStep, PTL DEF Spec

-----------------------------------------------------------------------------
\* Every variable keeps its type.
THEOREM TypeCorrect == Spec => []TypeOK
<1>1. Inv => TypeOK
  BY DEF Inv
<1>. QED
  BY <1>1, InvAlways, PTL

\* However filters are linked, applied, disposed and collected, each image that a
\* filter would destroy exists and is destroyed by that filter alone.
THEOREM NoDoubleDestroy == Spec => []OneOwner
<1>1. Inv => OneOwner
  BY DEF Inv
<1>. QED
  BY <1>1, InvAlways, PTL

\* pixDestroy never frees a managed buffer as the pixels of an output.
THEOREM BuffersNotFreed == Spec => []OutputOwnsPixels
<1>1. Inv => OutputOwnsPixels
  BY DEF Inv
<1>. QED
  BY <1>1, InvAlways, PTL

\* An image is lost only after a link over an owned pointer or for an output, or
\* by a filter used after its Dispose.
THEOREM LossNeedsLink == Spec => []LostOnlyByLinks
<1>1. Inv => LostOnlyByLinks
  BY DEF Inv
<1>. QED
  BY <1>1, InvAlways, PTL

\* An image is destroyed once and by one filter, unless a link lost it.
LEMMA DestroyedByOne == Spec => []DestroyedOnce
  BY NoDoubleDestroy, BuffersNotFreed, LossNeedsLink, PTL DEF DestroyedOnce

\* An input a filter made lies over the buffer it pins, unless the program
\* pinned another or shared an address.
THEOREM InputOverPinned == Spec => []InputPinned
<1>1. Inv => InputPinned
  BY DEF Inv
<1>. QED
  BY <1>1, InvAlways, PTL

-----------------------------------------------------------------------------
(***************************************************************************)
(* Induction, for the functions that are defined by recursion.  The        *)
(* predicate is a set: the library's theorem with a predicate as parameter *)
(* is out of the provers' reach, the one about minimal elements is not.    *)
(***************************************************************************)
Less == {ss \in Nat \X Nat : ss[1] < ss[2]}

\* No sequence of numbers descends for ever.
LEMMA LessWellFounded == IsWellFoundedOn(Less, Nat)
BY NatLessThanWellFounded DEF OpToRel, Less

\* A set with 0 and the successor of each of its numbers holds every number.
LEMMA SetInduction ==
  ASSUME NEW S, 0 \in S, \A n \in Nat : n \in S => n + 1 \in S
  PROVE  Nat \subseteq S
<1>. DEFINE T == Nat \ S
<1>1. SUFFICES ASSUME T # {} PROVE FALSE
  OBVIOUS
<1>2. PICK x \in T : \A y \in T : ~ (<<y, x>> \in Less)
  <2>. HIDE DEF T
  <2>1. T \subseteq Nat
    BY DEF T
  <2>. QED
    BY <1>1, <2>1, WFMin, LessWellFounded
<1>3. x # 0 /\ x \in Nat
  OBVIOUS
<1>4. x - 1 \in T
  BY <1>3
<1>5. <<x - 1, x>> \in Less
  BY <1>3 DEF Less
<1>. QED
  BY <1>2, <1>4, <1>5

\* f starts with b and takes the step from each value to the next.
Follows(f, b, n, step) == f[0] = b /\ \A i \in 1 .. n : f[i] = step[<<f[i - 1], i>>]

\* There is a function with a given start and a given step.
LEMMA RecursionDefines ==
  ASSUME NEW V, NEW b \in V, NEW n \in Nat, NEW step \in [V \X (1 .. n) -> V]
  PROVE  \E f \in [0 .. n -> V] : Follows(f, b, n, step)
<1>. DEFINE Solves(f, m) == f = [i \in 0 .. m |-> IF i = 0 THEN b ELSE step[<<f[i - 1], i>>]]
            S == {m \in Nat : m <= n => \E f \in [0 .. m -> V] : Solves(f, m)}
<1>1. 0 \in S
  <2>1. [i \in 0 .. 0 |-> b] \in [0 .. 0 -> V] /\ Solves([i \in 0 .. 0 |-> b], 0)
    OBVIOUS
  <2>. QED
    BY <2>1
<1>2. ASSUME NEW m \in Nat, m \in S
     PROVE  m + 1 \in S
  <2>. SUFFICES ASSUME m + 1 <= n
                PROVE  \E f \in [0 .. m + 1 -> V] : Solves(f, m + 1)
    OBVIOUS
  <2>1. PICK f \in [0 .. m -> V] : Solves(f, m)
    BY <1>2
  <2>. DEFINE g == [i \in 0 .. m + 1 |-> IF i <= m THEN f[i] ELSE step[<<f[m], m + 1>>]]
  <2>2. step[<<f[m], m + 1>>] \in V
    <3>1. <<f[m], m + 1>> \in V \X (1 .. n)
      OBVIOUS
    <3>. QED
      BY <3>1
  <2>3. g \in [0 .. m + 1 -> V]
    BY <2>2
  <2>4. Solves(g, m + 1)
    <3>1. ASSUME NEW i \in 0 .. m + 1
         PROVE  g[i] = IF i = 0 THEN b ELSE step[<<g[i - 1], i>>]
      <4>1. CASE i = 0
        BY <2>1, <4>1
      <4>2. CASE i \in 1 .. m
        <5>1. g[i] = f[i] /\ g[i - 1] = f[i - 1]
          BY <4>2
        <5>. QED
          BY <2>1, <4>2, <5>1
      <4>3. CASE i = m + 1
        <5>1. g[m + 1] = step[<<f[m], m + 1>>] /\ g[m] = f[m] /\ m + 1 # 0
          OBVIOUS
        <5>2. g[(m + 1) - 1] = f[m]
          BY <5>1
        <5>. HIDE DEF g
        <5>. QED
          BY <4>3, <5>1, <5>2
      <4>. QED
        BY <4>1, <4>2, <4>3
    <3>. QED
      BY <3>1
  <2>. QED
    BY <2>3, <2>4
<1>3. n \in S
  <2>. HIDE DEF S
  <2>. QED
    BY <1>1, <1>2, SetInduction
<1>4. PICK f \in [0 .. n -> V] : Solves(f, n)
  BY <1>3
<1>5. f[0] = b
  BY <1>4
<1>6. ASSUME NEW i \in 1 .. n
     PROVE  f[i] = step[<<f[i - 1], i>>]
  BY <1>4
<1>. QED
  BY <1>5, <1>6 DEF Follows

-----------------------------------------------------------------------------
(***************************************************************************)
(* The JPEG wrapper: the loop that selects a scaling factor.               *)
(***************************************************************************)
\* What the loop carries along the list, with any numbers.
Carried == [best : Nat, f : Nat, found : BOOLEAN]

\* A distance is a number, and a turn of the loop keeps what it carries in Carried.
LEMMA TurnType ==
  ASSUME NEW d \in Jpeg!Desired, NEW n \in Nat
  PROVE  /\ Jpeg!Distance(n, d) \in Nat
         /\ \A p \in Carried : Jpeg!Turn(p, n, d) \in Carried
<1>1. n * d[2] \in Int /\ d[1] \in Int /\ d[2] \in Nat
  BY DEF Jpeg!Desired
<1>2. ASSUME NEW x \in Int
     PROVE  (IF x < 0 THEN -x ELSE x) \in Nat
  OBVIOUS
<1>3. n * d[2] - 8 * d[1] \in Int
  BY <1>1
<1>4. Jpeg!Distance(n, d) \in Nat
  BY <1>2, <1>3 DEF Jpeg!Distance
<1>5. ASSUME NEW p \in Carried
     PROVE  Jpeg!Turn(p, n, d) \in Carried
  BY DEF Jpeg!Turn, Carried
<1>. QED
  BY <1>4, <1>5

\* Every factor has a place in the list.
LEMMA FactorsListed ==
  \A n \in Jpeg!Factor : \E i \in 1 .. Len(Factors) : Factors[i] = n
BY DEF Jpeg!Factor

\* The numbers of the list, and which are there.
LEMMA FactorsKnown ==
  /\ Len(Factors) \in Nat
  /\ \A i \in 1 .. Len(Factors) : Factors[i] \in Nat \ {0} /\ Factors[i] \in Jpeg!Factor
  /\ Jpeg!Factor \subseteq Nat \ {0}
  /\ 1 .. 16 \subseteq Jpeg!Factor
<1>0. Factors \in Seq(Nat \ {0})
  BY JpegAssumption DEF Jpeg!FactorAssumption
<1>1. \A n \in 1 .. 16 : \E i \in 1 .. Len(Factors) : Factors[i] = n
  BY JpegAssumption DEF Jpeg!FactorAssumption
<1>2. Len(Factors) \in Nat /\ \A i \in 1 .. Len(Factors) : Factors[i] \in Nat \ {0}
  BY <1>0
<1>3. ASSUME NEW i \in 1 .. Len(Factors)
     PROVE  Factors[i] \in Jpeg!Factor
  BY DEF Jpeg!Factor
<1>4. Jpeg!Factor \subseteq Nat \ {0}
  BY <1>2, FactorsListed
<1>5. 1 .. 16 \subseteq Jpeg!Factor
  BY <1>1, <1>3
<1>. QED
  BY <1>2, <1>3, <1>4, <1>5

\* The loop starts with the factor in hand and takes a turn for each of the list.
LEMMA ScanUnfolds ==
  ASSUME NEW prev \in Nat, NEW d \in Jpeg!Desired
  PROVE  /\ Jpeg!Scan(prev, d)[0] = [best |-> prev, f |-> 8, found |-> FALSE]
         /\ \A i \in 1 .. Len(Factors) :
              Jpeg!Scan(prev, d)[i] = Jpeg!Turn(Jpeg!Scan(prev, d)[i - 1], Factors[i], d)
<1>. DEFINE first == [best |-> prev, f |-> 8, found |-> FALSE]
            N == Len(Factors)
            step == [x \in Carried \X (1 .. N) |-> Jpeg!Turn(x[1], Factors[x[2]], d)]
            Solves(f) == f = [i \in 0 .. N |-> IF i = 0 THEN first
                                               ELSE Jpeg!Turn(f[i - 1], Factors[i], d)]
<1>1. first \in Carried /\ N \in Nat
  BY FactorsKnown DEF Carried
<1>2. step \in [Carried \X (1 .. N) -> Carried]
  BY FactorsKnown, TurnType
<1>3. PICK f \in [0 .. N -> Carried] : Follows(f, first, N, step)
  <2>. HIDE DEF first, N, step
  <2>. QED
    BY <1>1, <1>2, RecursionDefines
<1>4. f[0] = first
  BY <1>3 DEF Follows
<1>5. ASSUME NEW i \in 1 .. N
     PROVE  f[i] = Jpeg!Turn(f[i - 1], Factors[i], d)
  <2>1. f[i - 1] \in Carried
    BY <1>1
  <2>2. f[i] = step[<<f[i - 1], i>>]
    BY <1>3 DEF Follows
  <2>. QED
    BY <2>1, <2>2
<1>6. Solves(f)
  <2>. HIDE DEF first, N, step
  <2>1. ASSUME NEW i \in 0 .. N
       PROVE  f[i] = IF i = 0 THEN first ELSE Jpeg!Turn(f[i - 1], Factors[i], d)
    BY <1>1, <1>4, <1>5
  <2>. QED
    BY <2>1
<1>7. Jpeg!Scan(prev, d) = CHOOSE g : Solves(g)
  BY DEF Jpeg!Scan
<1>8. Solves(Jpeg!Scan(prev, d))
  <2>. HIDE DEF Solves
  <2>. QED
    BY <1>6, <1>7
<1>. DEFINE s == Jpeg!Scan(prev, d)
<1>9. s = [i \in 0 .. N |-> IF i = 0 THEN first ELSE Jpeg!Turn(s[i - 1], Factors[i], d)]
  BY <1>8
<1>. HIDE DEF s, first, N
<1>10. s[0] = first
  BY <1>1, <1>9
<1>11. ASSUME NEW i \in 1 .. N
      PROVE  s[i] = Jpeg!Turn(s[i - 1], Factors[i], d)
  BY <1>1, <1>9
<1>. QED
  BY <1>10, <1>11 DEF s, first, N

\* The distance of the factor that the loop compares with.
Here(p, d) == Jpeg!Distance(p.f, d)

\* What the loop knows after i factors: with none in hand it has taken the first;
\* the factor it compares with is of the list, and is the one in hand unless it is
\* still 1/1 with the older factor in hand; it has looked at no nearer one; and it
\* stops only at the factor that was desired.
Scanned(p, prev, i, d) ==
  /\ p \in Carried
  /\ p.f \in Jpeg!Factor
  /\ p.best = 0 => prev = 0 /\ i = 0 /\ ~p.found
  /\ p.best = 0 \/ p.best = p.f \/ (p.f = 8 /\ p.best = prev)
  /\ p.found => p.best = p.f /\ Here(p, d) = 0
  /\ (p.best # 0 /\ ~p.found) =>
       \A j \in 1 .. i : Here(p, d) <= Jpeg!Distance(Factors[j], d)

\* A turn of the loop keeps what it knows.
LEMMA TurnScans ==
  ASSUME NEW d \in Jpeg!Desired, NEW prev \in Nat, NEW p, NEW i \in 1 .. Len(Factors),
         Scanned(p, prev, i - 1, d)
  PROVE  Scanned(Jpeg!Turn(p, Factors[i], d), prev, i, d)
<1>. DEFINE n == Factors[i]
            q == Jpeg!Turn(p, n, d)
            there == Jpeg!Distance(n, d)
<1>1. n \in Nat /\ n # 0 /\ n \in Jpeg!Factor /\ i \in Nat /\ i # 0
  BY FactorsKnown
<1>2. p \in Carried /\ Here(p, d) \in Nat /\ there \in Nat
  BY <1>1, TurnType DEF Scanned, Carried, Here
<1>3. q \in Carried
  BY <1>1, <1>2, TurnType
<1>4. CASE p.found
  <2>1. q = p
    BY <1>4 DEF Jpeg!Turn
  <2>. QED
    BY <1>1, <1>4, <2>1 DEF Scanned
<1>5. CASE ~p.found /\ p.best # 0 /\ there >= Here(p, d) /\ there # 0
  <2>1. q = p
    BY <1>5 DEF Jpeg!Turn, Here
  <2>2. ASSUME NEW j \in 1 .. i
       PROVE  Here(p, d) <= Jpeg!Distance(Factors[j], d)
    <3>1. CASE j = i
      BY <1>5, <3>1
    <3>2. CASE j # i
      <4>1. j \in 1 .. i - 1
        BY <1>1, <3>2
      <4>. QED
        BY <1>5, <4>1 DEF Scanned
    <3>. QED
      BY <3>1, <3>2
  <2>. QED
    BY <1>5, <2>1, <2>2 DEF Scanned
<1>6. CASE ~p.found /\ ~(p.best # 0 /\ there >= Here(p, d) /\ there # 0)
  <2>1. q = [best |-> n, f |-> n, found |-> there = 0]
    BY <1>6 DEF Jpeg!Turn, Here
  <2>. HIDE DEF q, n, there
  <2>2. q.best = n /\ q.f = n /\ (q.found <=> there = 0)
    BY <2>1
  <2>4. Here(q, d) = there
    BY <2>2 DEF Here, n, there
  <2>3. ASSUME ~q.found, NEW j \in 1 .. i
       PROVE  there <= Jpeg!Distance(Factors[j], d)
    <3>1. CASE j = i
      BY <1>2, <3>1 DEF there, n
    <3>2. CASE j # i
      <4>1. j \in 1 .. i - 1 /\ j \in 1 .. Len(Factors)
        BY <1>1, <3>2, FactorsKnown
      <4>2. p.best # 0
        BY <1>1, <4>1 DEF Scanned
      <4>3. Here(p, d) <= Jpeg!Distance(Factors[j], d)
        BY <1>6, <4>1, <4>2 DEF Scanned
      <4>4. there < Here(p, d)
        BY <1>2, <1>6, <2>2, <2>3, <4>2
      <4>5. Jpeg!Distance(Factors[j], d) \in Nat
        BY <4>1, FactorsKnown, TurnType
      <4>. QED
        BY <1>2, <4>3, <4>4, <4>5
    <3>. QED
      BY <3>1, <3>2
  <2>5. Scanned(q, prev, i, d)
    BY <1>1, <1>3, <2>2, <2>3, <2>4 DEF Scanned
  <2>. QED
    BY <2>5 DEF q, n
<1>. QED
  BY <1>4, <1>5, <1>6

\* Selecting a factor: with none in hand it is a nearest one of the list; with an
\* older one it is, or 1/1 is nearest and the older factor stays.
LEMMA SelectNearest ==
  ASSUME NEW d \in Jpeg!Desired, NEW prev \in Jpeg!Factor \cup {0}
  PROVE  /\ Jpeg!Select(prev, d) \in Jpeg!Factor
         /\ \/ Jpeg!Select(prev, d) \in Jpeg!Nearest(d)
            \/ prev # 0 /\ Jpeg!Select(prev, d) = prev /\ 8 \in Jpeg!Nearest(d)
<1>. DEFINE N == Len(Factors)
            scan == Jpeg!Scan(prev, d)
            S == {i \in Nat : i <= N => Scanned(scan[i], prev, i, d)}
<1>1. prev \in Nat /\ N \in Nat /\ N # 0 /\ 8 \in Jpeg!Factor
  <2>1. prev \in Nat /\ N \in Nat /\ 8 \in Jpeg!Factor
    BY FactorsKnown
  <2>2. \E i \in 1 .. N : Factors[i] = 8
    BY <2>1, FactorsListed
  <2>. QED
    BY <2>1, <2>2
<1>2. 0 \in S
  <2>1. scan[0] = [best |-> prev, f |-> 8, found |-> FALSE]
    BY <1>1, ScanUnfolds
  <2>. HIDE DEF scan
  <2>2. /\ scan[0] \in Carried
        /\ scan[0].best = prev /\ scan[0].f = 8 /\ ~scan[0].found
    BY <1>1, <2>1 DEF Carried
  <2>3. prev # 0 => \A j \in 1 .. 0 : Here(scan[0], d) <= Jpeg!Distance(Factors[j], d)
    OBVIOUS
  <2>4. Scanned(scan[0], prev, 0, d)
    BY <1>1, <2>2, <2>3 DEF Scanned
  <2>. QED
    BY <2>4
<1>3. ASSUME NEW i \in Nat, i \in S
     PROVE  i + 1 \in S
  <2>. SUFFICES ASSUME i + 1 <= N
                PROVE  Scanned(scan[i + 1], prev, i + 1, d)
    OBVIOUS
  <2>1. i + 1 \in 1 .. N /\ (i + 1) - 1 = i /\ Scanned(scan[i], prev, i, d)
    BY <1>1, <1>3
  <2>2. scan[i + 1] = Jpeg!Turn(scan[(i + 1) - 1], Factors[i + 1], d)
    BY <1>1, <2>1, ScanUnfolds
  <2>. HIDE DEF scan
  <2>3. Scanned(scan[(i + 1) - 1], prev, (i + 1) - 1, d)
    BY <2>1
  <2>4. Scanned(Jpeg!Turn(scan[(i + 1) - 1], Factors[i + 1], d), prev, i + 1, d)
    BY <1>1, <2>1, <2>3, TurnScans
  <2>. QED
    BY <2>2, <2>4
<1>4. Scanned(scan[N], prev, N, d)
  <2>1. Nat \subseteq S
    <3>. HIDE DEF S
    <3>. QED
      BY <1>2, <1>3, SetInduction
  <2>. QED
    BY <1>1, <2>1
<1>. DEFINE p == scan[N]
<1>5. Jpeg!Select(prev, d) = p.best
  BY DEF Jpeg!Select
<1>. HIDE DEF p
<1>6. p.best # 0 /\ p.f \in Jpeg!Factor /\ p \in Carried
  BY <1>1, <1>4 DEF Scanned, p
<1>7. p.f \in Jpeg!Nearest(d)
  <2>1. ASSUME NEW m \in Jpeg!Factor
       PROVE  Here(p, d) <= Jpeg!Distance(m, d)
    <3>1. Jpeg!Distance(m, d) \in Nat
      BY FactorsKnown, TurnType
    <3>2. CASE p.found
      BY <1>4, <3>1, <3>2 DEF Scanned, p
    <3>3. CASE ~p.found
      <4>1. PICK j \in 1 .. N : Factors[j] = m
        BY FactorsListed
      <4>. QED
        BY <1>4, <1>6, <3>3, <4>1 DEF Scanned, p
    <3>. QED
      BY <3>2, <3>3
  <2>. QED
    BY <1>6, <2>1 DEF Jpeg!Nearest, Here
<1>8. p.best = p.f \/ (p.f = 8 /\ p.best = prev)
  BY <1>4, <1>6 DEF Scanned, p
<1>. QED
  BY <1>5, <1>6, <1>7, <1>8

-----------------------------------------------------------------------------
(***************************************************************************)
(* The JPEG wrapper: sizes in bytes and in pixels.                         *)
(***************************************************************************)
\* A product grows with its factors.
LEMMA ProductGrows ==
  ASSUME NEW a \in Nat, NEW b \in Nat, NEW c \in Nat, NEW e \in Nat, a <= b, c <= e
  PROVE  a * c \in Nat /\ b * e \in Nat /\ a * c <= b * e
<1>1. (b - a) * c >= 0 /\ b * (e - c) >= 0
  <2>1. \A x, y \in Nat : x * y \in Nat
    OBVIOUS
  <2>2. b - a \in Nat /\ e - c \in Nat
    OBVIOUS
  <2>. QED
    BY <2>1, <2>2
<1>2. (b - a) * c = b * c - a * c /\ b * (e - c) = b * e - b * c
  OBVIOUS
<1>3. a * c \in Nat /\ b * e \in Nat /\ b * c \in Nat
  OBVIOUS
<1>. QED
  BY <1>1, <1>2, <1>3

\* Padding keeps the order, and reaches the number at least.
LEMMA PadGrows ==
  ASSUME NEW a \in Nat, NEW b \in Nat, a <= b, NEW k \in {2, 4, 8, 16}
  PROVE  Jpeg!Pad(a, k) \in Nat /\ Jpeg!Pad(a, k) <= Jpeg!Pad(b, k) /\ a <= Jpeg!Pad(a, k)
<1>1. CASE k = 2
  BY <1>1 DEF Jpeg!Pad
<1>2. CASE k = 4
  BY <1>2 DEF Jpeg!Pad
<1>3. CASE k = 8
  BY <1>3 DEF Jpeg!Pad
<1>4. CASE k = 16
  BY <1>4 DEF Jpeg!Pad
<1>. QED
  BY <1>1, <1>2, <1>3, <1>4

\* Half of a number, rounded up, keeps the order.
LEMMA HalfGrows ==
  ASSUME NEW a \in Nat, NEW b \in Nat, a <= b
  PROVE  Jpeg!Half(a) \in Nat /\ Jpeg!Half(a) <= Jpeg!Half(b)
BY DEF Jpeg!Half

\* The bytes of an image are numbers.
LEMMA BytesType ==
  ASSUME NEW s \in Nat \X Nat
  PROVE  /\ Jpeg!RgbAlloc(s) \in Nat /\ Jpeg!RgbBytes(s) \in Nat
         /\ Jpeg!YuvBytes(s) \in Nat /\ Jpeg!BgrBytes(s) \in Nat
         /\ \A gray \in BOOLEAN : Jpeg!JpegBytes(s, gray) \in Nat
<1>1. s[1] \in Nat /\ s[2] \in Nat /\ 3 * s[1] \in Nat
  OBVIOUS
<1>2. \A x, y \in Nat : x * y \in Nat
  OBVIOUS
<1>3. \A x \in Nat : \A k \in {2, 4, 8, 16} : Jpeg!Pad(x, k) \in Nat
  BY PadGrows
<1>4. Jpeg!Half(s[1]) \in Nat /\ Jpeg!Half(s[2]) \in Nat
  BY <1>1, HalfGrows
<1>5. /\ Jpeg!Pad(s[1], 16) * Jpeg!Pad(s[2], 16) \in Nat
      /\ Jpeg!Pad(s[1], 8) * Jpeg!Pad(s[2], 8) \in Nat
  BY <1>1, <1>2, <1>3
<1>6. Jpeg!RgbAlloc(s) \in Nat
  BY <1>5 DEF Jpeg!RgbAlloc
<1>7. Jpeg!RgbBytes(s) \in Nat
  BY <1>1, <1>2 DEF Jpeg!RgbBytes
<1>8. Jpeg!YuvBytes(s) \in Nat
  <2>1. /\ Jpeg!Pad(Jpeg!Pad(s[1], 2), 4) * Jpeg!Pad(s[2], 2) \in Nat
        /\ Jpeg!Pad(Jpeg!Half(s[1]), 4) * Jpeg!Half(s[2]) \in Nat
    BY <1>1, <1>2, <1>3, <1>4
  <2>2. (2 * Jpeg!Pad(Jpeg!Half(s[1]), 4)) * Jpeg!Half(s[2]) \in Nat
    <3>1. 2 * Jpeg!Pad(Jpeg!Half(s[1]), 4) \in Nat
      BY <1>3, <1>4
    <3>. QED
      BY <1>2, <1>4, <3>1
  <2>. QED
    BY <2>1, <2>2 DEF Jpeg!YuvBytes
<1>9. Jpeg!BgrBytes(s) \in Nat
  BY <1>1, <1>2, <1>3 DEF Jpeg!BgrBytes
<1>10. ASSUME NEW gray \in BOOLEAN
      PROVE  Jpeg!JpegBytes(s, gray) \in Nat
  BY <1>5 DEF Jpeg!JpegBytes
<1>. QED
  BY <1>6, <1>7, <1>8, <1>9, <1>10

\* What is written for an image fits what was allocated for one that is as wide
\* and as high at least.
LEMMA SmallerFits ==
  ASSUME NEW s \in Nat \X Nat, NEW m \in Nat \X Nat, s[1] <= m[1], s[2] <= m[2]
  PROVE  /\ Jpeg!RgbBytes(s) <= Jpeg!RgbAlloc(m)
         /\ Jpeg!YuvBytes(s) <= Jpeg!YuvBytes(m)
         /\ Jpeg!BgrBytes(s) <= Jpeg!BgrBytes(m)
<1>1. s[1] \in Nat /\ s[2] \in Nat /\ m[1] \in Nat /\ m[2] \in Nat
  OBVIOUS
<1>2. Jpeg!RgbBytes(s) <= Jpeg!RgbAlloc(m)
  <2>. DEFINE p == Jpeg!Pad(m[1], 16)
              q == Jpeg!Pad(m[2], 16)
  <2>1. p \in Nat /\ q \in Nat /\ s[1] <= p /\ s[2] <= q
    BY <1>1, PadGrows
  <2>. HIDE DEF p, q
  <2>2. s[1] * s[2] \in Nat /\ p * q \in Nat /\ s[1] * s[2] <= p * q
    BY <1>1, <2>1, ProductGrows
  <2>3. 3 * s[1] * s[2] = 3 * (s[1] * s[2])
    BY <1>1
  <2>4. 3 * (s[1] * s[2]) <= p * q * 6 + 2048
    BY <2>2
  <2>. QED
    BY <2>3, <2>4 DEF Jpeg!RgbBytes, Jpeg!RgbAlloc, p, q
<1>3. Jpeg!YuvBytes(s) <= Jpeg!YuvBytes(m)
  <2>. DEFINE lw(x) == Jpeg!Pad(Jpeg!Pad(x[1], 2), 4)
              lh(x) == Jpeg!Pad(x[2], 2)
              cw(x) == Jpeg!Pad(Jpeg!Half(x[1]), 4)
              ch(x) == Jpeg!Half(x[2])
  <2>1. lw(s) \in Nat /\ lw(m) \in Nat /\ lw(s) <= lw(m)
    <3>1. /\ Jpeg!Pad(s[1], 2) \in Nat /\ Jpeg!Pad(m[1], 2) \in Nat
          /\ Jpeg!Pad(s[1], 2) <= Jpeg!Pad(m[1], 2)
      BY <1>1, PadGrows
    <3>. QED
      BY <3>1, PadGrows
  <2>2. lh(s) \in Nat /\ lh(m) \in Nat /\ lh(s) <= lh(m)
    BY <1>1, PadGrows
  <2>3. cw(s) \in Nat /\ cw(m) \in Nat /\ cw(s) <= cw(m)
    <3>1. /\ Jpeg!Half(s[1]) \in Nat /\ Jpeg!Half(m[1]) \in Nat
          /\ Jpeg!Half(s[1]) <= Jpeg!Half(m[1])
      BY <1>1, HalfGrows
    <3>. QED
      BY <3>1, PadGrows
  <2>4. ch(s) \in Nat /\ ch(m) \in Nat /\ ch(s) <= ch(m)
    BY <1>1, HalfGrows
  <2>5. Jpeg!YuvBytes(s) = lw(s) * lh(s) + 2 * cw(s) * ch(s)
    BY DEF Jpeg!YuvBytes
  <2>6. Jpeg!YuvBytes(m) = lw(m) * lh(m) + 2 * cw(m) * ch(m)
    BY DEF Jpeg!YuvBytes
  <2>. HIDE DEF lw, lh, cw, ch
  <2>7. lw(s) * lh(s) \in Nat /\ lw(m) * lh(m) \in Nat /\ lw(s) * lh(s) <= lw(m) * lh(m)
    BY <2>1, <2>2, ProductGrows
  <2>8. /\ (2 * cw(s)) * ch(s) \in Nat /\ (2 * cw(m)) * ch(m) \in Nat
        /\ (2 * cw(s)) * ch(s) <= (2 * cw(m)) * ch(m)
    <3>1. 2 * cw(s) \in Nat /\ 2 * cw(m) \in Nat /\ 2 * cw(s) <= 2 * cw(m)
      BY <2>3
    <3>. QED
      BY <3>1, <2>4, ProductGrows
  <2>. QED
    BY <2>5, <2>6, <2>7, <2>8
<1>4. Jpeg!BgrBytes(s) <= Jpeg!BgrBytes(m)
  <2>1. 3 * s[1] \in Nat /\ 3 * m[1] \in Nat /\ 3 * s[1] <= 3 * m[1]
    BY <1>1
  <2>2. /\ Jpeg!Pad(3 * s[1], 4) \in Nat /\ Jpeg!Pad(3 * m[1], 4) \in Nat
        /\ Jpeg!Pad(3 * s[1], 4) <= Jpeg!Pad(3 * m[1], 4)
    BY <2>1, PadGrows
  <2>. QED
    BY <1>1, <2>2, ProductGrows DEF Jpeg!BgrBytes
<1>. QED
  BY <1>2, <1>3, <1>4

\* The factors are eighths up to 2/1: one of them is within a sixteenth of any
\* desired factor from 1/8 to 2/1, and so is a nearest one.
LEMMA NearestWithin ==
  ASSUME NEW d \in Jpeg!Desired, d[1] <= 2 * d[2], 8 * d[1] >= d[2],
         NEW n \in Jpeg!Nearest(d)
  PROVE  2 * Jpeg!Distance(n, d) <= d[2]
<1>1. d[1] \in Nat /\ d[2] \in Nat \ {0} /\ n \in Nat
  BY FactorsKnown DEF Jpeg!Desired, Jpeg!Nearest
<1>. DEFINE a == 16 * d[1] + d[2]
            b == 2 * d[2]
            q == a \div b
<1>2. a \in Nat /\ b \in Nat \ {0} /\ b <= a /\ a <= 16 * b + d[2]
  BY <1>1
<1>3. q \in Int /\ q * b <= a /\ a < (q + 1) * b
  <2>1. \A x \in Nat, y \in Nat \ {0} :
          x \div y \in Int /\ (x \div y) * y <= x /\ x < ((x \div y) + 1) * y
    OBVIOUS
  <2>. HIDE DEF a, b
  <2>. QED
    BY <1>2, <2>1
<1>4. q \in 1 .. 16
  <2>. HIDE DEF q
  <2>1. q >= 1
    <3>1. SUFFICES ASSUME q + 1 <= 1 PROVE FALSE
      BY <1>3
    <3>2. (q + 1) * b <= 1 * b
      <4>1. \A x \in Int, y \in Nat : x <= 1 => x * y <= 1 * y
        OBVIOUS
      <4>. HIDE DEF a, b
      <4>. QED
        BY <1>2, <1>3, <3>1, <4>1
    <3>. HIDE DEF a, b
    <3>. QED
      BY <1>2, <1>3, <3>2
  <2>2. q <= 16
    <3>1. SUFFICES ASSUME q >= 17 PROVE FALSE
      BY <1>3
    <3>2. 17 * b <= q * b
      <4>1. \A x \in Int, y \in Nat : x >= 17 => 17 * y <= x * y
        OBVIOUS
      <4>. HIDE DEF a, b
      <4>. QED
        BY <1>2, <1>3, <3>1, <4>1
    <3>3. 17 * b <= 16 * b + d[2]
      <4>. HIDE DEF a, b
      <4>. QED
        BY <1>1, <1>2, <1>3, <3>2
    <3>. QED
      BY <1>1, <3>3
  <2>. QED
    BY <1>3, <2>1, <2>2
<1>5. q * b = 2 * (q * d[2]) /\ (q + 1) * b = 2 * (q * d[2]) + 2 * d[2] /\ q * d[2] \in Nat
  <2>. HIDE DEF q
  <2>. QED
    BY <1>1, <1>4
<1>6. 2 * Jpeg!Distance(q, d) <= d[2]
  <2>. HIDE DEF q
  <2>1. 2 * (q * d[2]) <= 16 * d[1] + d[2] /\ 16 * d[1] < 2 * (q * d[2]) + d[2]
    BY <1>1, <1>3, <1>5
  <2>. QED
    BY <1>1, <1>5, <2>1 DEF Jpeg!Distance
<1>7. Jpeg!Distance(n, d) <= Jpeg!Distance(q, d)
  <2>. HIDE DEF q
  <2>1. q \in Jpeg!Factor
    BY <1>4, FactorsKnown
  <2>. QED
    BY <2>1 DEF Jpeg!Nearest
<1>8. Jpeg!Distance(n, d) \in Nat /\ Jpeg!Distance(q, d) \in Nat
  <2>. HIDE DEF q
  <2>. QED
    BY <1>1, <1>4, TurnType
<1>. QED
  BY <1>1, <1>6, <1>7, <1>8

\* An image scaled by a nearest factor is as wide as was asked for, within a
\* sixteenth of its own width and a pixel.
LEMMA ScaledNear ==
  ASSUME NEW d \in Jpeg!Desired, d[1] <= 2 * d[2], 8 * d[1] >= d[2],
         NEW n \in Jpeg!Nearest(d), NEW s \in Nat \X Nat
  PROVE  /\ 16 * Jpeg!Scaled(s, n)[1] * d[2] <= (16 * d[1] + d[2]) * s[1] + 16 * d[2]
         /\ 16 * Jpeg!Scaled(s, n)[1] * d[2] >= (16 * d[1] - d[2]) * s[1]
<1>. DEFINE w == s[1]
            x == Jpeg!Scaled(s, n)[1]
            nd == n * d[2]
<1>1. d[1] \in Nat /\ d[2] \in Nat \ {0} /\ n \in Nat /\ w \in Nat /\ w * n \in Nat /\ nd \in Nat
  <2>1. d[1] \in Nat /\ d[2] \in Nat \ {0} /\ w \in Nat
    BY DEF Jpeg!Desired
  <2>2. n \in Nat
    BY FactorsKnown DEF Jpeg!Nearest
  <2>. QED
    BY <2>1, <2>2
<1>2. 2 * nd <= 16 * d[1] + d[2] /\ 2 * nd >= 16 * d[1] - d[2]
  BY <1>1, NearestWithin DEF Jpeg!Distance
<1>3. x \in Nat /\ 8 * x <= w * n + 7 /\ 8 * x >= w * n
  <2>1. x = (w * n + 7) \div 8
    BY DEF Jpeg!Scaled
  <2>2. \A y \in Nat : /\ (y + 7) \div 8 \in Nat
                       /\ 8 * ((y + 7) \div 8) <= y + 7 /\ 8 * ((y + 7) \div 8) >= y
    OBVIOUS
  <2>. QED
    BY <1>1, <2>1, <2>2
<1>. HIDE DEF w, x, nd
<1>4. /\ (8 * x) * d[2] <= (w * n + 7) * d[2]
      /\ (w * n) * d[2] <= (8 * x) * d[2]
  <2>1. 8 * x \in Nat /\ w * n + 7 \in Nat /\ w * n \in Nat /\ d[2] \in Nat
    BY <1>1, <1>3
  <2>. QED
    BY <1>3, <2>1, ProductGrows
<1>5. (w * n) * d[2] = nd * w
  BY <1>1 DEF nd
<1>6. (2 * nd) * w <= (16 * d[1] + d[2]) * w
  BY <1>1, <1>2, ProductGrows
<1>7. (16 * d[1] - d[2]) * w <= (2 * nd) * w
  <2>1. (2 * nd - (16 * d[1] - d[2])) * w \in Nat
    <3>1. 2 * nd - (16 * d[1] - d[2]) \in Nat
      BY <1>1, <1>2
    <3>. QED
      BY <1>1, <3>1
  <2>2. (2 * nd - (16 * d[1] - d[2])) * w = (2 * nd) * w - (16 * d[1] - d[2]) * w
    BY <1>1
  <2>. QED
    BY <1>1, <2>1, <2>2
<1>8. /\ 16 * x * d[2] = 2 * ((8 * x) * d[2])
      /\ (w * n + 7) * d[2] = (w * n) * d[2] + 7 * d[2]
      /\ (2 * nd) * w = 2 * (nd * w)
  BY <1>1, <1>3
<1>9. (8 * x) * d[2] \in Nat /\ nd * w \in Nat
  BY <1>1, <1>3
<1>10. 16 * x * d[2] <= (16 * d[1] + d[2]) * w + 16 * d[2]
  <2>1. (16 * d[1] + d[2]) * w \in Int
    BY <1>1
  <2>. QED
    BY <1>1, <1>4, <1>5, <1>6, <1>8, <1>9, <2>1
<1>11. 16 * x * d[2] >= (16 * d[1] - d[2]) * w
  <2>1. (16 * d[1] - d[2]) * w \in Int
    BY <1>1
  <2>. QED
    BY <1>1, <1>4, <1>5, <1>7, <1>8, <1>9, <2>1
<1>. QED
  BY <1>10, <1>11 DEF w, x

-----------------------------------------------------------------------------
(***************************************************************************)
(* The JPEG wrapper: the invariant.  An array or _rgbBuf that is only      *)
(* checked for null holds exactly the image it was made for, and a factor  *)
(* chosen with none in hand stays a nearest one for what it was chosen.    *)
(***************************************************************************)
BuffersKnown ==
  /\ caller["yuv"] # 0 => made["yuv"] \in Image /\ caller["yuv"] = Jpeg!YuvBytes(made["yuv"])
  /\ caller["bgr"] # 0 => made["bgr"] \in Image /\ caller["bgr"] = Jpeg!BgrBytes(made["bgr"])
  /\ rgbBuf # 0 => made["native"] \in Image /\ rgbBuf = Jpeg!RgbAlloc(made["native"])

FactorKnown == (best # 0 /\ ~over) => best \in Jpeg!Nearest(want)

JpegInv == Jpeg!TypeOK /\ BuffersKnown /\ FactorKnown /\ Jpeg!BufferHolds /\ Jpeg!WidthNear

\* The sides of an image are numbers.
LEMMA ImageSides ==
  /\ Image \subseteq Nat \X Nat
  /\ \A s \in Image : s[1] \in Nat \ {0} /\ s[2] \in Nat \ {0}
BY JpegAssumption DEF Jpeg!ImageAssumption

\* A desired factor is a fraction.
LEMMA DesiredType ==
  ASSUME NEW s \in Image, NEW m \in MaxWidth, NEW sc \in Scale
  PROVE  Jpeg!DesiredFactor(s, m, sc) \in Jpeg!Desired
<1>1. m \in Nat \ {0} /\ sc \in Nat
  BY JpegAssumption DEF Jpeg!RequestAssumption
<1>2. s[1] \in Nat \ {0}
  BY ImageSides
<1>. QED
  BY <1>1, <1>2 DEF Jpeg!DesiredFactor, Jpeg!Desired

\* The sides of a scaled image are numbers.
LEMMA ScaledType ==
  ASSUME NEW s \in Image, NEW n \in Nat
  PROVE  Jpeg!Scaled(s, n) \in Nat \X Nat
<1>1. s[1] * n + 7 \in Nat /\ s[2] * n + 7 \in Nat
  BY ImageSides
<1>2. \A x \in Nat : x \div 8 \in Nat
  OBVIOUS
<1>. QED
  BY <1>1, <1>2 DEF Jpeg!Scaled

\* A call of EncodeJpeg has a factor of the list in hand: the one it kept, or one
\* it selected for this request.
LEMMA EncodeJpegFactor ==
  ASSUME Jpeg!TypeOK, NEW s \in Image, NEW d \in Jpeg!Desired,
         Jpeg!ChooseFactor(s, d) \/ Jpeg!KeepFactor(s)
  PROVE  /\ best' \in Jpeg!Factor /\ best' \in Nat /\ last' \in Image
         /\ want' \in Jpeg!Desired /\ over' \in BOOLEAN
         /\ FactorKnown => FactorKnown'
<1>0. best \in Jpeg!Factor \cup {0} /\ last \in Image \cup {Jpeg!NoImage}
      /\ want \in Jpeg!Desired /\ over \in BOOLEAN
  BY DEF Jpeg!TypeOK
<1>1. CASE Jpeg!ChooseFactor(s, d)
  <2>1. /\ best' = Jpeg!Select(best, d) /\ last' = s /\ want' = d /\ over' = (best # 0)
    BY <1>1 DEF Jpeg!ChooseFactor
  <2>2. best' \in Jpeg!Factor /\ (best = 0 => best' \in Jpeg!Nearest(d))
    BY <1>0, <2>1, SelectNearest
  <2>3. FactorKnown'
    BY <2>1, <2>2 DEF FactorKnown
  <2>4. best' \in Nat
    BY <2>2, FactorsKnown
  <2>. QED
    BY <2>1, <2>2, <2>3, <2>4
<1>2. CASE Jpeg!KeepFactor(s)
  <2>1. best # 0 /\ s = last /\ best' = best /\ last' = last /\ want' = want /\ over' = over
    BY <1>2 DEF Jpeg!KeepFactor, Jpeg!scaleVars
  <2>2. FactorKnown => FactorKnown'
    BY <2>1 DEF FactorKnown
  <2>3. best \in Jpeg!Factor /\ best \in Nat
    BY <1>0, <2>1, FactorsKnown
  <2>. QED
    BY <1>0, <2>1, <2>2, <2>3
<1>. QED
  BY <1>1, <1>2

\* Every step of the JPEG wrapper keeps its types.
LEMMA JpegTypeStep ==
  ASSUME Jpeg!TypeOK, [Jpeg!Next]_(Jpeg!vars)
  PROVE  Jpeg!TypeOK'
<1>. USE DEF Jpeg!TypeOK, Jpeg!Array, Jpeg!NoImage, Jpeg!Wrote, Jpeg!NoOutput, Jpeg!scaleVars,
             Jpeg!bufVars
<1>0. Jpeg!Undesired \in Jpeg!Desired
  BY DEF Jpeg!Undesired, Jpeg!Desired
<1>1. ASSUME NEW s \in Image, Jpeg!DecompressRgb(s)
     PROVE  Jpeg!TypeOK'
  <2>1. Jpeg!RgbAlloc(s) \in Nat /\ Jpeg!RgbBytes(s) \in Nat /\ s \in Nat \X Nat
    BY ImageSides, BytesType
  <2>. QED
    BY <1>0, <1>1, <2>1 DEF Jpeg!DecompressRgb
<1>2. ASSUME NEW s \in Image, Jpeg!EncodeToYuv(s)
     PROVE  Jpeg!TypeOK'
  <2>1. Jpeg!YuvBytes(s) \in Nat /\ s \in Nat \X Nat
    BY ImageSides, BytesType
  <2>. QED
    BY <1>0, <1>2, <2>1 DEF Jpeg!EncodeToYuv, Jpeg!FillOnce
<1>3. ASSUME NEW s \in Image, Jpeg!EncodeI420toBGR24(s)
     PROVE  Jpeg!TypeOK'
  <2>1. Jpeg!BgrBytes(s) \in Nat /\ s \in Nat \X Nat
    BY ImageSides, BytesType
  <2>. QED
    BY <1>0, <1>3, <2>1 DEF Jpeg!EncodeI420toBGR24, Jpeg!FillOnce
<1>4. ASSUME NEW s \in Image, NEW gray \in BOOLEAN, Jpeg!EncodeToJpeg(s, gray)
     PROVE  Jpeg!TypeOK'
  <2>1. Jpeg!JpegBytes(s, gray) \in Nat /\ s \in Nat \X Nat
    BY ImageSides, BytesType
  <2>. QED
    BY <1>0, <1>4, <2>1 DEF Jpeg!EncodeToJpeg, Jpeg!Grow
<1>5. ASSUME NEW s \in Image, NEW m \in MaxWidth, NEW sc \in Scale, Jpeg!EncodeJpeg(s, m, sc)
     PROVE  Jpeg!TypeOK'
  <2>. DEFINE d == Jpeg!DesiredFactor(s, m, sc)
              dims == Jpeg!Scaled(s, best')
  <2>1. d \in Jpeg!Desired
    BY DesiredType
  <2>2. (Jpeg!ChooseFactor(s, d) \/ Jpeg!KeepFactor(s)) /\ Jpeg!WriteScaled(s, d)
    BY <1>5 DEF Jpeg!EncodeJpeg
  <2>. HIDE DEF d
  <2>3. /\ best' \in Jpeg!Factor /\ best' \in Nat /\ last' \in Image
        /\ want' \in Jpeg!Desired /\ over' \in BOOLEAN
    BY <2>1, <2>2, EncodeJpegFactor
  <2>4. dims \in Nat \X Nat /\ Jpeg!BgrBytes(dims) \in Nat
    BY <2>3, ScaledType, BytesType
  <2>5. /\ Jpeg!Grow("rgb", s, Jpeg!BgrBytes(dims))
        /\ out' = [buf |-> "rgb", need |-> Jpeg!BgrBytes(dims), cap |-> caller'["rgb"],
                   img |-> s, dims |-> dims, for |-> d]
        /\ UNCHANGED <<alive, rgbBuf>>
    BY <2>2 DEF Jpeg!WriteScaled
  <2>. HIDE DEF dims
  <2>. QED
    BY <2>1, <2>3, <2>4, <2>5 DEF Jpeg!Grow
<1>6. ASSUME NEW s \in Image, NEW m \in MaxWidth, NEW sc \in Scale, Jpeg!DecodeJpeg(s, m, sc)
     PROVE  Jpeg!TypeOK'
  <2>. DEFINE d == Jpeg!DesiredFactor(s, m, sc)
              dims == Jpeg!Scaled(s, Jpeg!Select(0, d))
  <2>1. d \in Jpeg!Desired
    BY DesiredType
  <2>2. out' = [Jpeg!NoOutput EXCEPT !.img = s, !.dims = dims, !.for = d]
        /\ UNCHANGED <<alive, Jpeg!scaleVars, Jpeg!bufVars>>
    BY <1>6 DEF Jpeg!DecodeJpeg
  <2>. HIDE DEF d
  <2>3. Jpeg!Select(0, d) \in Jpeg!Factor
    BY <2>1, SelectNearest
  <2>4. dims \in Nat \X Nat
    <3>1. Jpeg!Select(0, d) \in Nat
      BY <2>3, FactorsKnown
    <3>. QED
      BY <3>1, ScaledType
  <2>. HIDE DEF dims
  <2>. QED
    BY <2>1, <2>2, <2>4
<1>7. CASE Jpeg!ResetScale
  BY <1>0, <1>7 DEF Jpeg!ResetScale
<1>8. CASE Jpeg!Dispose
  BY <1>0, <1>8 DEF Jpeg!Dispose
<1>9. CASE UNCHANGED Jpeg!vars
  BY <1>9 DEF Jpeg!vars
<1>. QED
  BY <1>1, <1>2, <1>3, <1>4, <1>5, <1>6, <1>7, <1>8, <1>9
     DEF Jpeg!Next, Jpeg!BufferNext, Jpeg!ScaleNext

\* Every step keeps what is known of the buffers that are only checked for null.
LEMMA BuffersStep ==
  ASSUME Jpeg!TypeOK, BuffersKnown, [Jpeg!Next]_(Jpeg!vars)
  PROVE  BuffersKnown'
<1>0. /\ DOMAIN caller = Jpeg!Array /\ DOMAIN made = Jpeg!Array \cup {"native"}
      /\ caller \in [Jpeg!Array -> Nat]
      /\ made \in [Jpeg!Array \cup {"native"} -> Image \cup {Jpeg!NoImage}]
  BY DEF Jpeg!TypeOK
<1>. USE <1>0 DEF BuffersKnown, Jpeg!Array, Jpeg!scaleVars, Jpeg!bufVars
<1>1. ASSUME NEW s \in Image, Jpeg!DecompressRgb(s)
     PROVE  BuffersKnown'
  BY <1>1 DEF Jpeg!DecompressRgb
<1>2. ASSUME NEW s \in Image, Jpeg!EncodeToYuv(s)
     PROVE  BuffersKnown'
  BY <1>2 DEF Jpeg!EncodeToYuv, Jpeg!FillOnce
<1>3. ASSUME NEW s \in Image, Jpeg!EncodeI420toBGR24(s)
     PROVE  BuffersKnown'
  BY <1>3 DEF Jpeg!EncodeI420toBGR24, Jpeg!FillOnce
<1>4. ASSUME NEW s \in Image, NEW gray \in BOOLEAN, Jpeg!EncodeToJpeg(s, gray)
     PROVE  BuffersKnown'
  BY <1>4 DEF Jpeg!EncodeToJpeg, Jpeg!Grow
<1>5. ASSUME NEW s \in Image, NEW m \in MaxWidth, NEW sc \in Scale, Jpeg!EncodeJpeg(s, m, sc)
     PROVE  BuffersKnown'
  <2>1. Jpeg!Grow("rgb", s, Jpeg!BgrBytes(Jpeg!Scaled(s, best'))) /\ rgbBuf' = rgbBuf
    BY <1>5 DEF Jpeg!EncodeJpeg, Jpeg!WriteScaled
  <2>. QED
    BY <2>1 DEF Jpeg!Grow
<1>6. ASSUME NEW s \in Image, NEW m \in MaxWidth, NEW sc \in Scale, Jpeg!DecodeJpeg(s, m, sc)
     PROVE  BuffersKnown'
  BY <1>6 DEF Jpeg!DecodeJpeg
<1>7. CASE Jpeg!ResetScale
  BY <1>7 DEF Jpeg!ResetScale
<1>8. CASE Jpeg!Dispose
  BY <1>8 DEF Jpeg!Dispose
<1>9. CASE UNCHANGED Jpeg!vars
  BY <1>9 DEF Jpeg!vars
<1>. QED
  BY <1>1, <1>2, <1>3, <1>4, <1>5, <1>6, <1>7, <1>8, <1>9
     DEF Jpeg!Next, Jpeg!BufferNext, Jpeg!ScaleNext

\* After every step the buffer holds what the last call wrote, or the image was
\* larger than the one the buffer was made for.
LEMMA HoldsStep ==
  ASSUME Jpeg!TypeOK, BuffersKnown, Jpeg!BufferHolds, [Jpeg!Next]_(Jpeg!vars)
  PROVE  Jpeg!BufferHolds'
<1>0. /\ caller \in [Jpeg!Array -> Nat] /\ rgbBuf \in Nat
      /\ made \in [Jpeg!Array \cup {"native"} -> Image \cup {Jpeg!NoImage}]
  BY DEF Jpeg!TypeOK
<1>1. ASSUME NEW s \in Image, Jpeg!DecompressRgb(s)
     PROVE  Jpeg!BufferHolds'
  <2>1. /\ out'.buf = "native" /\ out'.need = Jpeg!RgbBytes(s) /\ out'.cap = rgbBuf'
        /\ out'.img = s
        /\ rgbBuf' = IF rgbBuf = 0 THEN Jpeg!RgbAlloc(s) ELSE rgbBuf
        /\ made' = [made EXCEPT !["native"] = IF rgbBuf = 0 THEN s ELSE @]
    BY <1>1 DEF Jpeg!DecompressRgb, Jpeg!Wrote, Jpeg!NoOutput
  <2>2. s \in Nat \X Nat /\ s[1] \in Nat /\ s[2] \in Nat
    BY ImageSides
  <2>3. CASE rgbBuf = 0
    <3>1. Jpeg!RgbBytes(s) <= Jpeg!RgbAlloc(s)
      BY <2>2, SmallerFits
    <3>. QED
      BY <2>1, <2>3, <3>1 DEF Jpeg!BufferHolds
  <2>4. CASE rgbBuf # 0
    <3>. DEFINE m == made["native"]
    <3>1. m \in Nat \X Nat /\ m[1] \in Nat /\ m[2] \in Nat /\ rgbBuf = Jpeg!RgbAlloc(m)
      BY <2>4, ImageSides DEF BuffersKnown
    <3>2. rgbBuf' = rgbBuf /\ made'["native"] = m
      BY <1>0, <2>1, <2>4
    <3>. HIDE DEF m
    <3>3. CASE s[1] <= m[1] /\ s[2] <= m[2]
      <4>1. Jpeg!RgbBytes(s) <= Jpeg!RgbAlloc(m)
        BY <2>2, <3>1, <3>3, SmallerFits
      <4>. QED
        BY <2>1, <3>1, <3>2, <4>1 DEF Jpeg!BufferHolds
    <3>4. CASE \E i \in 1 .. 2 : s[i] > m[i]
      BY <2>1, <3>2, <3>4 DEF Jpeg!BufferHolds
    <3>. QED
      BY <2>2, <3>1, <3>3, <3>4
  <2>. QED
    BY <2>3, <2>4
<1>2. ASSUME NEW s \in Image, NEW a \in {"yuv", "bgr"}, NEW b \in Nat, Jpeg!FillOnce(a, s, b),
             b = IF a = "yuv" THEN Jpeg!YuvBytes(s) ELSE Jpeg!BgrBytes(s)
     PROVE  Jpeg!BufferHolds'
  <2>1. /\ out'.buf = a /\ out'.need = b /\ out'.cap = caller'[a] /\ out'.img = s
        /\ caller' = [caller EXCEPT ![a] = IF @ = 0 THEN b ELSE @]
        /\ made' = [made EXCEPT ![a] = IF caller[a] = 0 THEN s ELSE @]
    BY <1>2 DEF Jpeg!FillOnce, Jpeg!Wrote, Jpeg!NoOutput
  <2>2. s \in Nat \X Nat /\ s[1] \in Nat /\ s[2] \in Nat
    BY ImageSides
  <2>3. a \in Jpeg!Array /\ caller[a] \in Nat
    BY <1>0 DEF Jpeg!Array
  <2>4. CASE caller[a] = 0
    <3>1. caller'[a] = b
      BY <1>0, <2>1, <2>3, <2>4
    <3>. QED
      BY <1>2, <2>1, <3>1 DEF Jpeg!BufferHolds
  <2>5. CASE caller[a] # 0
    <3>. DEFINE m == made[a]
    <3>1. /\ m \in Nat \X Nat /\ m[1] \in Nat /\ m[2] \in Nat
          /\ caller[a] = IF a = "yuv" THEN Jpeg!YuvBytes(m) ELSE Jpeg!BgrBytes(m)
      BY <2>5, ImageSides DEF BuffersKnown
    <3>2. caller'[a] = caller[a] /\ made'[a] = m
      BY <1>0, <2>1, <2>3, <2>5
    <3>. HIDE DEF m
    <3>3. CASE s[1] <= m[1] /\ s[2] <= m[2]
      <4>1. Jpeg!YuvBytes(s) <= Jpeg!YuvBytes(m) /\ Jpeg!BgrBytes(s) <= Jpeg!BgrBytes(m)
        BY <2>2, <3>1, <3>3, SmallerFits
      <4>. QED
        BY <1>2, <2>1, <3>1, <3>2, <4>1 DEF Jpeg!BufferHolds
    <3>4. CASE \E i \in 1 .. 2 : s[i] > m[i]
      BY <2>1, <3>2, <3>4 DEF Jpeg!BufferHolds
    <3>. QED
      BY <2>2, <3>1, <3>3, <3>4
  <2>. QED
    BY <2>4, <2>5
<1>3. ASSUME NEW s \in Image, Jpeg!EncodeToYuv(s)
     PROVE  Jpeg!BufferHolds'
  <2>1. Jpeg!YuvBytes(s) \in Nat /\ Jpeg!FillOnce("yuv", s, Jpeg!YuvBytes(s))
    BY <1>3, ImageSides, BytesType DEF Jpeg!EncodeToYuv
  <2>. QED
    BY <1>2, <2>1
<1>4. ASSUME NEW s \in Image, Jpeg!EncodeI420toBGR24(s)
     PROVE  Jpeg!BufferHolds'
  <2>1. Jpeg!BgrBytes(s) \in Nat /\ Jpeg!FillOnce("bgr", s, Jpeg!BgrBytes(s))
    BY <1>4, ImageSides, BytesType DEF Jpeg!EncodeI420toBGR24
  <2>. QED
    BY <1>2, <2>1
<1>5. ASSUME NEW s, NEW a \in Jpeg!Array, NEW b \in Nat, Jpeg!Grow(a, s, b)
     PROVE  b <= caller'[a]
  BY <1>0, <1>5 DEF Jpeg!Grow
<1>6. ASSUME NEW s \in Image, NEW gray \in BOOLEAN, Jpeg!EncodeToJpeg(s, gray)
     PROVE  Jpeg!BufferHolds'
  <2>1. Jpeg!JpegBytes(s, gray) \in Nat
    BY ImageSides, BytesType
  <2>2. out'.need = Jpeg!JpegBytes(s, gray) /\ out'.cap = caller'["jpeg"]
    BY <1>6 DEF Jpeg!EncodeToJpeg, Jpeg!Wrote, Jpeg!NoOutput
  <2>3. Jpeg!Grow("jpeg", s, Jpeg!JpegBytes(s, gray))
    BY <1>6 DEF Jpeg!EncodeToJpeg
  <2>4. Jpeg!JpegBytes(s, gray) <= caller'["jpeg"]
    BY <1>5, <2>1, <2>3 DEF Jpeg!Array
  <2>. QED
    BY <2>2, <2>4 DEF Jpeg!BufferHolds
<1>7. ASSUME NEW s \in Image, NEW m \in MaxWidth, NEW sc \in Scale, Jpeg!EncodeJpeg(s, m, sc)
     PROVE  Jpeg!BufferHolds'
  <2>. DEFINE bytes == Jpeg!BgrBytes(Jpeg!Scaled(s, best'))
  <2>1. bytes \in Nat
    <3>1. best' \in Nat
      BY <1>7, DesiredType, EncodeJpegFactor DEF Jpeg!EncodeJpeg
    <3>. QED
      BY <3>1, ScaledType, BytesType
  <2>2. Jpeg!Grow("rgb", s, bytes) /\ out'.need = bytes /\ out'.cap = caller'["rgb"]
    BY <1>7 DEF Jpeg!EncodeJpeg, Jpeg!WriteScaled
  <2>. HIDE DEF bytes
  <2>3. bytes <= caller'["rgb"]
    BY <1>5, <2>1, <2>2 DEF Jpeg!Array
  <2>. QED
    BY <2>2, <2>3 DEF Jpeg!BufferHolds
<1>8. ASSUME NEW s \in Image, NEW m \in MaxWidth, NEW sc \in Scale, Jpeg!DecodeJpeg(s, m, sc)
     PROVE  Jpeg!BufferHolds'
  <2>1. out'.need = 0 /\ out'.cap = 0
    BY <1>8 DEF Jpeg!DecodeJpeg, Jpeg!NoOutput
  <2>. QED
    BY <2>1 DEF Jpeg!BufferHolds
<1>9. CASE Jpeg!ResetScale
  BY <1>9 DEF Jpeg!ResetScale, Jpeg!bufVars, Jpeg!BufferHolds
<1>10. CASE Jpeg!Dispose
  <2>1. out' = out /\ made' = [made EXCEPT !["native"] = Jpeg!NoImage]
    BY <1>10 DEF Jpeg!Dispose
  <2>2. CASE out.need <= out.cap
    BY <2>1, <2>2 DEF Jpeg!BufferHolds
  <2>3. CASE out.buf \in {"yuv", "bgr", "native"} /\ \E i \in 1 .. 2 : out.img[i] > made[out.buf][i]
    <3>1. PICK i \in 1 .. 2 : out.img[i] > made[out.buf][i]
      BY <2>3
    <3>2. /\ out.img \in Image \cup {Jpeg!NoImage}
          /\ made[out.buf] \in Image \cup {Jpeg!NoImage}
      BY <1>0, <2>3 DEF Jpeg!TypeOK, Jpeg!Array
    <3>3. out.img[i] \in Nat /\ made[out.buf][i] \in Nat
      BY <3>2, ImageSides DEF Jpeg!NoImage
    <3>4. made'[out.buf] = made[out.buf] \/ made'[out.buf] = Jpeg!NoImage
      BY <1>0, <2>1, <2>3 DEF Jpeg!Array
    <3>5. made'[out.buf][i] <= made[out.buf][i] /\ made'[out.buf][i] \in Nat
      BY <3>3, <3>4 DEF Jpeg!NoImage
    <3>6. out'.img[i] > made'[out'.buf][i]
      BY <2>1, <3>1, <3>3, <3>5
    <3>. QED
      BY <2>1, <2>3, <3>6 DEF Jpeg!BufferHolds
  <2>. QED
    BY <2>2, <2>3 DEF Jpeg!BufferHolds
<1>11. CASE UNCHANGED Jpeg!vars
  BY <1>11 DEF Jpeg!vars, Jpeg!bufVars, Jpeg!BufferHolds
<1>. QED
  BY <1>1, <1>3, <1>4, <1>6, <1>7, <1>8, <1>9, <1>10, <1>11
     DEF Jpeg!Next, Jpeg!BufferNext, Jpeg!ScaleNext

\* A step that is not EncodeJpeg leaves the factor in hand alone, or drops it.
LEMMA FactorStep ==
  ASSUME Jpeg!TypeOK, FactorKnown, [Jpeg!Next]_(Jpeg!vars)
  PROVE  FactorKnown'
<1>1. ASSUME NEW s \in Image, NEW m \in MaxWidth, NEW sc \in Scale, Jpeg!EncodeJpeg(s, m, sc)
     PROVE  FactorKnown'
  BY <1>1, DesiredType, EncodeJpegFactor DEF Jpeg!EncodeJpeg
<1>2. ASSUME UNCHANGED Jpeg!scaleVars
     PROVE  FactorKnown'
  BY <1>2 DEF FactorKnown, Jpeg!scaleVars
<1>3. ASSUME best' = 0
     PROVE  FactorKnown'
  BY <1>3 DEF FactorKnown
<1>4. ASSUME NEW s \in Image, NEW gray \in BOOLEAN,
             \/ Jpeg!DecompressRgb(s) \/ Jpeg!EncodeToYuv(s) \/ Jpeg!EncodeI420toBGR24(s)
             \/ Jpeg!EncodeToJpeg(s, gray)
     PROVE  UNCHANGED Jpeg!scaleVars
  BY <1>4 DEF Jpeg!DecompressRgb, Jpeg!EncodeToYuv, Jpeg!EncodeI420toBGR24, Jpeg!EncodeToJpeg,
              Jpeg!scaleVars
<1>5. ASSUME NEW s \in Image, NEW m \in MaxWidth, NEW sc \in Scale, Jpeg!DecodeJpeg(s, m, sc)
     PROVE  UNCHANGED Jpeg!scaleVars
  BY <1>5 DEF Jpeg!DecodeJpeg, Jpeg!scaleVars
<1>6. Jpeg!ResetScale \/ Jpeg!Dispose => best' = 0
  BY DEF Jpeg!ResetScale, Jpeg!Dispose
<1>7. UNCHANGED Jpeg!vars => UNCHANGED Jpeg!scaleVars
  BY DEF Jpeg!vars, Jpeg!scaleVars
<1>. QED
  BY <1>1, <1>2, <1>3, <1>4, <1>5, <1>6, <1>7 DEF Jpeg!Next, Jpeg!BufferNext, Jpeg!ScaleNext

\* A call that scales tells a width near the one asked for; the others tell none.
LEMMA WidthStep ==
  ASSUME Jpeg!TypeOK, FactorKnown, Jpeg!WidthNear, [Jpeg!Next]_(Jpeg!vars)
  PROVE  Jpeg!WidthNear'
<1>1. ASSUME NEW s \in Image, NEW m \in MaxWidth, NEW sc \in Scale, Jpeg!EncodeJpeg(s, m, sc)
     PROVE  Jpeg!WidthNear'
  <2>. DEFINE d == Jpeg!DesiredFactor(s, m, sc)
  <2>1. d \in Jpeg!Desired /\ s \in Nat \X Nat
    BY DesiredType, ImageSides
  <2>2. /\ Jpeg!ChooseFactor(s, d) \/ Jpeg!KeepFactor(s)
        /\ out'.for = d /\ out'.img = s /\ out'.dims = Jpeg!Scaled(s, best') /\ out'.buf = "rgb"
    BY <1>1 DEF Jpeg!EncodeJpeg, Jpeg!WriteScaled
  <2>. HIDE DEF d
  <2>3. best' \in Jpeg!Factor /\ best' # 0 /\ FactorKnown'
    BY <2>1, <2>2, EncodeJpegFactor, FactorsKnown
  <2>. SUFFICES ASSUME d[1] <= 2 * d[2], 8 * d[1] >= d[2], want' = d, ~over'
                PROVE  /\ 16 * Jpeg!Scaled(s, best')[1] * d[2]
                            <= (16 * d[1] + d[2]) * s[1] + 16 * d[2]
                       /\ 16 * Jpeg!Scaled(s, best')[1] * d[2] >= (16 * d[1] - d[2]) * s[1]
    BY <2>2 DEF Jpeg!WidthNear
  <2>4. best' \in Jpeg!Nearest(d)
    BY <2>3 DEF FactorKnown
  <2>. QED
    BY <2>1, <2>4, ScaledNear
<1>2. ASSUME NEW s \in Image, NEW m \in MaxWidth, NEW sc \in Scale, Jpeg!DecodeJpeg(s, m, sc)
     PROVE  Jpeg!WidthNear'
  <2>. DEFINE d == Jpeg!DesiredFactor(s, m, sc)
              n == Jpeg!Select(0, d)
  <2>1. d \in Jpeg!Desired /\ s \in Nat \X Nat
    BY DesiredType, ImageSides
  <2>2. out'.for = d /\ out'.img = s /\ out'.dims = Jpeg!Scaled(s, n)
    BY <1>2 DEF Jpeg!DecodeJpeg, Jpeg!NoOutput
  <2>. HIDE DEF d
  <2>3. n \in Jpeg!Nearest(d)
    BY <2>1, SelectNearest
  <2>. HIDE DEF n
  <2>. SUFFICES ASSUME d[1] <= 2 * d[2], 8 * d[1] >= d[2]
                PROVE  /\ 16 * Jpeg!Scaled(s, n)[1] * d[2]
                            <= (16 * d[1] + d[2]) * s[1] + 16 * d[2]
                       /\ 16 * Jpeg!Scaled(s, n)[1] * d[2] >= (16 * d[1] - d[2]) * s[1]
    BY <2>2 DEF Jpeg!WidthNear
  <2>. QED
    BY <2>1, <2>3, ScaledNear
<1>3. ASSUME NEW s \in Image, NEW gray \in BOOLEAN,
             \/ Jpeg!DecompressRgb(s) \/ Jpeg!EncodeToYuv(s) \/ Jpeg!EncodeI420toBGR24(s)
             \/ Jpeg!EncodeToJpeg(s, gray)
     PROVE  Jpeg!WidthNear'
  <2>1. out'.for = Jpeg!Undesired
    BY <1>3 DEF Jpeg!DecompressRgb, Jpeg!EncodeToYuv, Jpeg!EncodeI420toBGR24, Jpeg!EncodeToJpeg,
                Jpeg!FillOnce, Jpeg!Wrote, Jpeg!NoOutput
  <2>. QED
    BY <2>1 DEF Jpeg!WidthNear
<1>4. CASE Jpeg!ResetScale \/ Jpeg!Dispose
  <2>1. out' = out /\ want' = Jpeg!Undesired
    BY <1>4 DEF Jpeg!ResetScale, Jpeg!Dispose
  <2>2. CASE out.buf = "rgb" \/ out.for = Jpeg!Undesired
    BY <2>1, <2>2 DEF Jpeg!WidthNear
  <2>3. CASE out.buf # "rgb"
    BY <2>1, <2>3 DEF Jpeg!WidthNear
  <2>. QED
    BY <2>2, <2>3
<1>5. CASE UNCHANGED Jpeg!vars
  BY <1>5 DEF Jpeg!vars, Jpeg!scaleVars, Jpeg!WidthNear
<1>. QED
  BY <1>1, <1>2, <1>3, <1>4, <1>5 DEF Jpeg!Next, Jpeg!BufferNext, Jpeg!ScaleNext

\* The invariant of the JPEG wrapper holds initially and every step keeps it.
LEMMA JpegInvInit == Jpeg!Init => JpegInv
<1>. SUFFICES ASSUME Jpeg!Init PROVE JpegInv
  OBVIOUS
<1>1. Jpeg!TypeOK
  <2>1. Jpeg!Undesired \in Jpeg!Desired /\ Jpeg!NoImage \in Nat \X Nat
    BY DEF Jpeg!Undesired, Jpeg!Desired, Jpeg!NoImage
  <2>2. Jpeg!NoOutput \in [buf : Jpeg!Array \cup {"none", "native"}, need : Nat, cap : Nat,
                          img : Image \cup {Jpeg!NoImage}, dims : Nat \X Nat,
                          for : Jpeg!Desired]
    BY <2>1 DEF Jpeg!NoOutput
  <2>. QED
    BY <2>1, <2>2 DEF Jpeg!Init, Jpeg!TypeOK
<1>2. BuffersKnown /\ FactorKnown
  BY DEF Jpeg!Init, Jpeg!Array, BuffersKnown, FactorKnown
<1>3. Jpeg!BufferHolds /\ Jpeg!WidthNear
  BY DEF Jpeg!Init, Jpeg!BufferHolds, Jpeg!WidthNear, Jpeg!NoOutput
<1>. QED
  BY <1>1, <1>2, <1>3 DEF JpegInv

LEMMA JpegInvStep == JpegInv /\ [Jpeg!Next]_(Jpeg!vars) => JpegInv'
BY JpegTypeStep, BuffersStep, FactorStep, HoldsStep, WidthStep DEF JpegInv

\* A step that chooses a factor for another size chooses a nearest one, or keeps
\* the older factor where 1/1 is nearest.
LEMMA ChoiceStep ==
  ASSUME Jpeg!TypeOK, [Jpeg!Next]_(Jpeg!vars), last' \notin {last, Jpeg!NoImage}
  PROVE  \/ best' \in Jpeg!Nearest(want')
         \/ best # 0 /\ best' = best /\ 8 \in Jpeg!Nearest(want')
<1>1. PICK s \in Image, m \in MaxWidth, sc \in Scale : Jpeg!EncodeJpeg(s, m, sc)
  BY DEF Jpeg!Next, Jpeg!BufferNext, Jpeg!ScaleNext, Jpeg!DecompressRgb, Jpeg!EncodeToYuv,
         Jpeg!EncodeI420toBGR24, Jpeg!EncodeToJpeg, Jpeg!DecodeJpeg, Jpeg!ResetScale,
         Jpeg!Dispose, Jpeg!vars, Jpeg!scaleVars
<1>. DEFINE d == Jpeg!DesiredFactor(s, m, sc)
<1>2. d \in Jpeg!Desired /\ best \in Jpeg!Factor \cup {0}
  BY DesiredType DEF Jpeg!TypeOK
<1>3. Jpeg!ChooseFactor(s, d)
  BY <1>1 DEF Jpeg!EncodeJpeg, Jpeg!KeepFactor, Jpeg!scaleVars
<1>. HIDE DEF d
<1>4. best' = Jpeg!Select(best, d) /\ want' = d
  BY <1>3 DEF Jpeg!ChooseFactor
<1>. QED
  BY <1>2, <1>4, SelectNearest

-----------------------------------------------------------------------------
(***************************************************************************)
(* The virtual camera: the three sizes.                                    *)
(***************************************************************************)
\* While the size has not changed since the capturer was made, the conductor, the
\* buffer and the generator (if there is one) have the same.
SizesKnown ==
  /\ buf = None => frame = None
  /\ (buf # None /\ ~changed) => size = buf /\ gen \in {None, buf}
  /\ (frame # None /\ frame.drawn /\ ~changed) => gen = buf /\ frame.told = buf

\* A frame that carries a code carries the code of its value.
CodeKnown ==
  (frame # None /\ frame.code # <<>>) =>
    frame.value \in Nat /\ frame.code = Camera!ComputeBarcodeDigits(frame.value)

CameraInv == Camera!TypeOK /\ SizesKnown /\ CodeKnown

\* The sizes a camera can have.
CameraSize == Size \cup {<<640, 360>>}

LEMMA CameraSizes == \A s \in CameraSize : s \in Nat \X Nat /\ s[1] \in Nat /\ s[2] \in Nat
BY CameraAssumption DEF Camera!SizeAssumption, CameraSize

\* What the generator copies fits a buffer of its size, and for even sizes its
\* planes lie where the buffer has them.
LEMMA GeneratorFits ==
  ASSUME NEW s \in Nat \X Nat
  PROVE  /\ Camera!GenBytes(s) <= Camera!BufBytes(s)
         /\ (s[1] % 2 = 0 /\ s[2] % 2 = 0) => Camera!GenChroma(s) = Camera!BufChroma(s)
<1>. DEFINE w == s[1]
            h == s[2]
            a == (w + 1) \div 2
            b == (h + 1) \div 2
<1>1. w \in Nat /\ h \in Nat /\ w * h \in Nat
  OBVIOUS
<1>2. a \in Nat /\ b \in Nat /\ w <= 2 * a /\ h <= 2 * b
      /\ (w % 2 = 0 => w = 2 * a) /\ (h % 2 = 0 => h = 2 * b)
  BY <1>1
<1>3. Camera!GenChroma(s) = (w * h) \div 4 /\ Camera!BufChroma(s) = a * b
  BY DEF Camera!GenChroma, Camera!BufChroma
<1>4. /\ Camera!GenBytes(s) = w * h + 2 * Camera!GenChroma(s)
      /\ Camera!BufBytes(s) = w * h + 2 * Camera!BufChroma(s)
  BY DEF Camera!GenBytes, Camera!BufBytes
<1>. HIDE DEF a, b, w, h
<1>5. (2 * a) * (2 * b) = 4 * (a * b) /\ a * b \in Nat
  BY <1>2
<1>6. w * h <= 4 * (a * b)
  BY <1>1, <1>2, <1>5, ProductGrows
<1>7. (w * h) \div 4 <= a * b /\ (w * h) \div 4 \in Nat
  BY <1>1, <1>5, <1>6
<1>8. ASSUME w % 2 = 0, h % 2 = 0
     PROVE  (w * h) \div 4 = a * b
  <2>1. w * h = 4 * (a * b)
    BY <1>2, <1>5, <1>8
  <2>. QED
    BY <1>5, <2>1
<1>. QED
  BY <1>1, <1>3, <1>4, <1>5, <1>7, <1>8 DEF w, h

-----------------------------------------------------------------------------
(***************************************************************************)
(* The virtual camera: the digits of the barcode.                          *)
(***************************************************************************)
\* A sequence is a function of its places ...
LEMMA SequencePlaces ==
  ASSUME NEW S, NEW s \in Seq(S)
  PROVE  s \in [1 .. Len(s) -> S]
OBVIOUS

\* ... a function of the first numbers is a sequence ...
LEMMA PlacesSequence ==
  ASSUME NEW S, NEW L \in Nat, NEW d \in [1 .. L -> S]
  PROVE  d \in Seq(S) /\ Len(d) = L
OBVIOUS

\* ... and appending adds one place.
LEMMA Appended ==
  ASSUME NEW S, NEW s \in Seq(S), NEW k \in S
  PROVE  /\ Append(s, k) \in Seq(S) /\ Len(Append(s, k)) = Len(s) + 1
         /\ Append(s, k)[Len(s) + 1] = k
         /\ \A i \in 1 .. Len(s) : Append(s, k)[i] = s[i]
OBVIOUS

\* What a quotient is ...
LEMMA QuotientBounds ==
  ASSUME NEW n \in Nat, NEW p \in Nat \ {0}
  PROVE  n \div p \in Nat /\ (n \div p) * p <= n /\ n < ((n \div p) + 1) * p
OBVIOUS

\* ... and that there is no other.
LEMMA QuotientUnique ==
  ASSUME NEW n \in Nat, NEW p \in Nat \ {0}, NEW y \in Nat, y * p <= n, n < (y + 1) * p
  PROVE  n \div p = y
<1>. DEFINE x == n \div p
<1>1. x \in Nat /\ x * p <= n /\ n < (x + 1) * p
  BY QuotientBounds
<1>. HIDE DEF x
<1>2. ASSUME NEW u \in Nat, NEW v \in Nat, u < v, v * p <= n, n < (u + 1) * p
     PROVE  FALSE
  <2>1. (u + 1) * p <= v * p /\ (u + 1) * p \in Nat /\ v * p \in Nat
    BY <1>2, ProductGrows
  <2>. QED
    BY <1>2, <2>1
<1>3. ~(x < y) /\ ~(y < x)
  BY <1>1, <1>2
<1>4. x = y
  BY <1>1, <1>3
<1>. QED
  BY <1>4 DEF x

\* A tenth of a quotient is the quotient by ten times as much, and its last digit
\* is what that loses.
LEMMA QuotientByTen ==
  ASSUME NEW n \in Nat, NEW p \in Nat \ {0}, NEW q, q = 10 * p
  PROVE  10 * (n \div q) + ((n \div p) % 10) = n \div p
<1>. DEFINE x == n \div p
            y == x \div 10
<1>1. x \in Nat /\ x * p <= n /\ n < (x + 1) * p
  BY QuotientBounds
<1>2. y \in Nat /\ 10 * y <= x /\ x + 1 <= 10 * y + 10 /\ 10 * y + (x % 10) = x
  <2>. HIDE DEF x
  <2>. QED
    BY <1>1
<1>. HIDE DEF x, y
<1>3. (10 * y) * p <= x * p /\ (x + 1) * p <= (10 * y + 10) * p
      /\ (10 * y) * p \in Nat /\ x * p \in Nat /\ (x + 1) * p \in Nat /\ (10 * y + 10) * p \in Nat
  <2>1. 10 * y \in Nat /\ x + 1 \in Nat /\ 10 * y + 10 \in Nat
    BY <1>1, <1>2
  <2>2. (10 * y) * p <= x * p /\ (10 * y) * p \in Nat /\ x * p \in Nat
    BY <1>1, <1>2, <2>1, ProductGrows
  <2>3. /\ (x + 1) * p <= (10 * y + 10) * p
        /\ (x + 1) * p \in Nat /\ (10 * y + 10) * p \in Nat
    BY <1>1, <1>2, <2>1, ProductGrows
  <2>. QED
    BY <2>2, <2>3
<1>4. q \in Nat \ {0} /\ y * q = (10 * y) * p /\ (y + 1) * q = (10 * y + 10) * p
  BY <1>2
<1>5. y * q <= n /\ n < (y + 1) * q
  BY <1>1, <1>3, <1>4
<1>6. n \div q = y
  BY <1>2, <1>4, <1>5, QuotientUnique
<1>. QED
  BY <1>2, <1>6 DEF x

\* The powers of ten.
LEMMA PowersType == \A k \in 1 .. 10 : Camera!Power10[k] \in Nat \ {0}
BY SMT DEF Camera!Power10

LEMMA PowersStep ==
  Camera!Power10[1] = 1 /\ \A k \in 1 .. 7 : Camera!Power10[k + 1] = 10 * Camera!Power10[k]
BY SMT DEF Camera!Power10

\* n is shown with k digits.
Shown(n, k) ==
  /\ Camera!Digits(n) = [i \in 1 .. k |-> (n \div Camera!Power10[k - i + 1]) % 10]
  /\ Camera!Digits(n) \in [1 .. k -> 0 .. 9]
  /\ n < Camera!Power10[8] => k = 7

\* A number is shown with seven digits at least, and with seven if that is enough.
LEMMA DigitsType ==
  ASSUME NEW n \in Nat
  PROVE  \E k \in 7 .. 10 : Shown(n, k)
<1>. DEFINE P(k) == (k = 10 \/ n < Camera!Power10[k + 1]) /\ (k = 7 \/ n >= Camera!Power10[k])
            shown == CHOOSE k \in 7 .. 10 : P(k)
            p(k) == Camera!Power10[k]
<1>1. p(8) \in Nat /\ p(9) \in Nat /\ p(10) \in Nat /\ p(8) <= p(9) /\ p(9) <= p(10)
  BY SMT DEF Camera!Power10
<1>2. \E k \in 7 .. 10 : P(k)
  <2>. HIDE DEF p
  <2>0. \A k \in 7 .. 10 : P(k) <=> (k = 10 \/ n < p(k + 1)) /\ (k = 7 \/ n >= p(k))
    BY DEF p
  <2>. HIDE DEF P
  <2>1. CASE n < p(8)
    <3>1. P(7)
      BY <2>0, <2>1
    <3>. QED
      BY <3>1
  <2>2. CASE n >= p(8) /\ n < p(9)
    <3>1. P(8)
      BY <2>0, <2>2
    <3>. QED
      BY <3>1
  <2>3. CASE n >= p(9) /\ n < p(10)
    <3>1. P(9)
      BY <2>0, <2>3
    <3>. QED
      BY <3>1
  <2>4. CASE n >= p(10)
    <3>1. P(10)
      BY <2>0, <2>4
    <3>. QED
      BY <3>1
  <2>. QED
    BY <1>1, <2>1, <2>2, <2>3, <2>4
<1>3. shown \in 7 .. 10 /\ P(shown)
  <2>. HIDE DEF P
  <2>. QED
    BY <1>2
<1>4. Camera!Digits(n) = [i \in 1 .. shown |-> (n \div Camera!Power10[shown - i + 1]) % 10]
  BY DEF Camera!Digits, Camera!MaxDigits
<1>. HIDE DEF shown
<1>5. Camera!Digits(n) \in [1 .. shown -> 0 .. 9]
  <2>1. ASSUME NEW i \in 1 .. shown
       PROVE  (n \div Camera!Power10[shown - i + 1]) % 10 \in 0 .. 9
    <3>1. Camera!Power10[shown - i + 1] \in Nat \ {0}
      BY <1>3, PowersType
    <3>2. \A q \in Nat \ {0} : (n \div q) % 10 \in 0 .. 9
      <4>1. \A q \in Nat \ {0} : n \div q \in Int
        OBVIOUS
      <4>. QED
        BY <4>1
    <3>. QED
      BY <3>1, <3>2
  <2>. QED
    BY <1>4, <2>1
<1>6. n < Camera!Power10[8] => shown = 7
  <2>1. shown \in {8, 9, 10} => n >= p(shown) /\ p(shown) >= p(8)
    BY <1>1, <1>3
  <2>. HIDE DEF P
  <2>. QED
    BY <1>1, <1>3, <2>1
<1>7. Shown(n, shown)
  BY <1>4, <1>5, <1>6 DEF Shown
<1>. QED
  BY <1>3, <1>7

\* The weighted sums and the numbers that the first digits of a code spell, each
\* from the one before.
LEMMA SumsUnfold ==
  ASSUME NEW L \in Nat, NEW c \in [1 .. L -> Nat]
  PROVE  /\ Camera!Sums(c)[0] = 0
         /\ \A i \in 1 .. L : Camera!Sums(c)[i] = Camera!Sums(c)[i - 1]
                                + c[i] * (IF i % 2 = 1 THEN 3 ELSE 1)
<1>. DEFINE step == [x \in Nat \X (1 .. L) |-> x[1] + c[x[2]] * (IF x[2] % 2 = 1 THEN 3 ELSE 1)]
            Solves(f) == f = [i \in 0 .. L |-> IF i = 0 THEN 0
                                ELSE f[i - 1] + c[i] * (IF i % 2 = 1 THEN 3 ELSE 1)]
<1>1. step \in [Nat \X (1 .. L) -> Nat]
  OBVIOUS
<1>2. PICK f \in [0 .. L -> Nat] : Follows(f, 0, L, step)
  <2>. HIDE DEF step
  <2>. QED
    BY <1>1, RecursionDefines
<1>3. ASSUME NEW i \in 1 .. L
     PROVE  f[i] = f[i - 1] + c[i] * (IF i % 2 = 1 THEN 3 ELSE 1)
  <2>1. f[i - 1] \in Nat
    OBVIOUS
  <2>2. f[i] = step[<<f[i - 1], i>>]
    BY <1>2 DEF Follows
  <2>. QED
    BY <2>1, <2>2
<1>4. Solves(f)
  <2>1. f[0] = 0
    BY <1>2 DEF Follows
  <2>2. ASSUME NEW i \in 0 .. L
       PROVE  f[i] = IF i = 0 THEN 0 ELSE f[i - 1] + c[i] * (IF i % 2 = 1 THEN 3 ELSE 1)
    <3>1. i = 0 \/ i \in 1 .. L
      OBVIOUS
    <3>. QED
      BY <1>3, <2>1, <3>1
  <2>. QED
    BY <2>2
<1>5. Camera!Sums(c) = CHOOSE g : Solves(g)
  <2>1. Len(c) = L
    OBVIOUS
  <2>. QED
    BY <2>1 DEF Camera!Sums
<1>6. Solves(Camera!Sums(c))
  <2>. HIDE DEF Solves
  <2>. QED
    BY <1>4, <1>5
<1>. QED
  BY <1>6

LEMMA NumberUnfolds ==
  ASSUME NEW L \in Nat, NEW c \in [1 .. L -> Nat]
  PROVE  /\ Camera!Number(c)[0] = 0
         /\ \A i \in 1 .. L : Camera!Number(c)[i] = 10 * Camera!Number(c)[i - 1] + c[i]
<1>. DEFINE step == [x \in Nat \X (1 .. L) |-> 10 * x[1] + c[x[2]]]
            Solves(f) == f = [i \in 0 .. L |-> IF i = 0 THEN 0 ELSE 10 * f[i - 1] + c[i]]
<1>1. step \in [Nat \X (1 .. L) -> Nat]
  OBVIOUS
<1>2. PICK f \in [0 .. L -> Nat] : Follows(f, 0, L, step)
  <2>. HIDE DEF step
  <2>. QED
    BY <1>1, RecursionDefines
<1>3. ASSUME NEW i \in 1 .. L
     PROVE  f[i] = 10 * f[i - 1] + c[i]
  <2>1. f[i - 1] \in Nat
    OBVIOUS
  <2>2. f[i] = step[<<f[i - 1], i>>]
    BY <1>2 DEF Follows
  <2>. QED
    BY <2>1, <2>2
<1>4. Solves(f)
  BY <1>2, <1>3 DEF Follows
<1>5. Camera!Number(c) = CHOOSE g : Solves(g)
  <2>1. Len(c) = L
    OBVIOUS
  <2>. QED
    BY <2>1 DEF Camera!Number
<1>6. Solves(Camera!Number(c))
  <2>. HIDE DEF Solves
  <2>. QED
    BY <1>4, <1>5
<1>. QED
  BY <1>6

\* The check digit of a number is a digit.
LEMMA CheckType ==
  ASSUME NEW n \in Nat
  PROVE  Camera!CheckDigit(Camera!Digits(n)) \in 0 .. 9
<1>1. PICK k \in 7 .. 10 : Shown(n, k)
  BY DigitsType
<1>. DEFINE c == Camera!Digits(n)
<1>2. c \in [1 .. k -> 0 .. 9]
  BY <1>1 DEF Shown
<1>. HIDE DEF c
<1>3. /\ Camera!Sums(c)[0] = 0
      /\ \A i \in 1 .. k : Camera!Sums(c)[i] = Camera!Sums(c)[i - 1]
                             + c[i] * (IF i % 2 = 1 THEN 3 ELSE 1)
  <2>1. c \in [1 .. k -> Nat] /\ k \in Nat
    BY <1>2
  <2>. QED
    BY <2>1, SumsUnfold
<1>4. Camera!Sums(c)[7] \in Nat
  <2>. DEFINE s == Camera!Sums(c)
              S == {i \in Nat : i <= 7 => s[i] \in Nat}
  <2>1. 0 \in S
    BY <1>3
  <2>2. ASSUME NEW i \in Nat, i \in S
       PROVE  i + 1 \in S
    <3>. SUFFICES ASSUME i + 1 <= 7
                  PROVE  s[i + 1] \in Nat
      OBVIOUS
    <3>1. i + 1 \in 1 .. k /\ (i + 1) - 1 = i /\ s[i] \in Nat
      BY <2>2
    <3>2. s[i + 1] = s[i] + c[i + 1] * (IF (i + 1) % 2 = 1 THEN 3 ELSE 1)
      BY <1>3, <3>1
    <3>3. c[i + 1] \in Nat
      BY <1>2, <3>1
    <3>. HIDE DEF s
    <3>. QED
      BY <3>1, <3>2, <3>3
  <2>. HIDE DEF S
  <2>3. 7 \in S
    BY <2>1, <2>2, SetInduction
  <2>. QED
    BY <2>3 DEF S
<1>. QED
  BY <1>4 DEF Camera!CheckDigit, Camera!MaxDigits, c

\* A code is a sequence of digits: those of the number and the check digit.
LEMMA CodeType ==
  ASSUME NEW n \in Nat
  PROVE  Camera!ComputeBarcodeDigits(n) \in Seq(0 .. 9)
<1>1. PICK k \in 7 .. 10 : Shown(n, k)
  BY DigitsType
<1>2. Camera!Digits(n) \in Seq(0 .. 9)
  <2>1. Camera!Digits(n) \in [1 .. k -> 0 .. 9] /\ k \in Nat
    BY <1>1 DEF Shown
  <2>. QED
    BY <2>1, PlacesSequence
<1>. QED
  BY <1>2, CheckType DEF Camera!ComputeBarcodeDigits

\* The code of a number of seven digits: it has eight digits, of which the first
\* seven spell the number, and the check sum of EAN-8.
LEMMA CodeOfSeven ==
  ASSUME NEW n \in Nat, n < Camera!Power10[8], NEW c, c = Camera!ComputeBarcodeDigits(n)
  PROVE  /\ c \in [1 .. 8 -> 0 .. 9] /\ Len(c) = 8
         /\ Camera!Number(c)[7] = n
         /\ Camera!Sums(c)[8] % 10 = 0
<1>. DEFINE d == Camera!Digits(n)
            check == Camera!CheckDigit(d)
<1>1. /\ d = [i \in 1 .. 7 |-> (n \div Camera!Power10[7 - i + 1]) % 10]
      /\ d \in [1 .. 7 -> 0 .. 9]
  BY DigitsType DEF Shown
<1>2. c = Append(d, check) /\ check \in 0 .. 9
  BY CheckType DEF Camera!ComputeBarcodeDigits
<1>. HIDE DEF d, check
<1>3. d \in Seq(0 .. 9) /\ Len(d) = 7
  BY <1>1, PlacesSequence
<1>4. Len(c) = 8 /\ c \in [1 .. 8 -> 0 .. 9] /\ c[8] = check /\ \A i \in 1 .. 7 : c[i] = d[i]
  <2>1. Append(d, check) \in Seq(0 .. 9) /\ Len(Append(d, check)) = 8
    <3>1. ASSUME NEW S, d \in Seq(S), check \in S
         PROVE  Append(d, check) \in Seq(S) /\ Len(Append(d, check)) = Len(d) + 1
      BY <3>1, Appended
    <3>2. Append(d, check) \in Seq(0 .. 9) /\ Len(Append(d, check)) = Len(d) + 1
      BY <1>2, <1>3, <3>1
    <3>. QED
      BY <1>3, <3>2
  <2>2. c \in [1 .. 8 -> 0 .. 9]
    BY <1>2, <2>1, SequencePlaces
  <2>. QED
    BY <1>2, <1>3, <2>1, <2>2, Appended
<1>5. Camera!Number(c)[7] = n
  <2>. DEFINE m == Camera!Number(c)
  <2>1. m[0] = 0 /\ \A i \in 1 .. 8 : m[i] = 10 * m[i - 1] + c[i]
    <3>1. c \in [1 .. 8 -> Nat]
      BY <1>4
    <3>. QED
      BY <3>1, NumberUnfolds
  <2>. HIDE DEF m
  <2>. DEFINE p(j) == Camera!Power10[j]
              S == {i \in Nat : i <= 7 => m[i] = n \div p(8 - i)}
  <2>2. 0 \in S
    <3>1. p(8) \in Nat \ {0}
      BY PowersType
    <3>. HIDE DEF p
    <3>2. n < p(8)
      BY DEF p
    <3>3. n \div p(8) = 0
      BY <3>1, <3>2, QuotientUnique
    <3>. QED
      BY <2>1, <3>3
  <2>3. ASSUME NEW i \in Nat, i \in S
       PROVE  i + 1 \in S
    <3>. SUFFICES ASSUME i + 1 <= 7
                  PROVE  m[i + 1] = n \div p(8 - (i + 1))
      OBVIOUS
    <3>. DEFINE k == 7 - i
    <3>1. k \in 1 .. 7 /\ 8 - i = k + 1 /\ 8 - (i + 1) = k /\ i + 1 \in 1 .. 7
      OBVIOUS
    <3>2. p(k) \in Nat \ {0} /\ p(k + 1) = 10 * p(k)
      BY <3>1, PowersType, PowersStep
    <3>3. m[i] = n \div p(k + 1)
      BY <2>3, <3>1
    <3>4. c[i + 1] = (n \div p(k)) % 10
      BY <1>1, <1>4, <3>1
    <3>5. m[i + 1] = 10 * m[i] + c[i + 1]
      BY <2>1, <3>1
    <3>. HIDE DEF p, k
    <3>6. m[i + 1] = n \div p(k)
      BY <3>2, <3>3, <3>4, <3>5, QuotientByTen
    <3>. QED
      BY <3>1, <3>6
  <2>. HIDE DEF S
  <2>4. 7 \in S
    BY <2>2, <2>3, SetInduction
  <2>5. m[7] = n \div 1
    <3>1. m[7] = n \div p(8 - 7)
      BY <2>4 DEF S
    <3>. QED
      BY <3>1, PowersStep
  <2>. QED
    BY <2>5 DEF m
<1>6. Camera!Sums(c)[8] % 10 = 0
  <2>. DEFINE s == Camera!Sums(c)
              t == Camera!Sums(d)
              w(i) == IF i % 2 = 1 THEN 3 ELSE 1
  <2>1. s[0] = 0 /\ \A i \in 1 .. 8 : s[i] = s[i - 1] + c[i] * w(i)
    <3>1. c \in [1 .. 8 -> Nat]
      BY <1>4
    <3>. QED
      BY <3>1, SumsUnfold
  <2>2. t[0] = 0 /\ \A i \in 1 .. 7 : t[i] = t[i - 1] + d[i] * w(i)
    <3>1. d \in [1 .. 7 -> Nat]
      BY <1>1
    <3>. QED
      BY <3>1, SumsUnfold
  <2>3. w(8) = 1 /\ \A i \in 1 .. 7 : w(i) \in Nat
    OBVIOUS
  <2>. HIDE DEF s, t, w
  <2>. DEFINE S == {i \in Nat : i <= 7 => s[i] = t[i] /\ t[i] \in Nat}
  <2>4. 0 \in S
    BY <2>1, <2>2
  <2>5. ASSUME NEW i \in Nat, i \in S
       PROVE  i + 1 \in S
    <3>. SUFFICES ASSUME i + 1 <= 7
                  PROVE  s[i + 1] = t[i + 1] /\ t[i + 1] \in Nat
      OBVIOUS
    <3>1. i + 1 \in 1 .. 7 /\ i + 1 \in 1 .. 8 /\ (i + 1) - 1 = i /\ s[i] = t[i] /\ t[i] \in Nat
      BY <2>5
    <3>2. s[i + 1] = t[i + 1] /\ t[i + 1] = t[i] + d[i + 1] * w(i + 1)
      BY <1>4, <2>1, <2>2, <3>1
    <3>3. d[i + 1] * w(i + 1) \in Nat
      <4>1. d[i + 1] \in Nat /\ w(i + 1) \in Nat
        BY <1>1, <2>3, <3>1
      <4>. QED
        BY <4>1
    <3>. QED
      BY <3>1, <3>2, <3>3
  <2>6. s[7] = t[7] /\ t[7] \in Nat
    <3>. HIDE DEF S
    <3>1. 7 \in S
      BY <2>4, <2>5, SetInduction
    <3>. QED
      BY <3>1 DEF S
  <2>7. check = (10 - (t[7] % 10)) % 10
    BY DEF check, t, Camera!CheckDigit, Camera!MaxDigits
  <2>8. s[8] = t[7] + check
    <3>1. s[8] = s[7] + c[8] * w(8)
      BY <2>1
    <3>2. check \in Nat
      BY <1>4
    <3>. QED
      BY <1>4, <2>3, <2>6, <3>1, <3>2
  <2>9. s[8] % 10 = 0
    BY <2>6, <2>7, <2>8
  <2>. QED
    BY <2>9 DEF s
<1>. QED
  BY <1>4, <1>5, <1>6

-----------------------------------------------------------------------------
(***************************************************************************)
(* The virtual camera: the bars.                                           *)
(***************************************************************************)
\* Where the digits of a code of eight start: between the left guard, the middle
\* guard after the fourth, and the right guard.
LEMMA Starts ==
  ASSUME NEW i \in 1 .. 8
  PROVE  Camera!Start(i) = IF i <= 4 THEN 3 + 7 * (i - 1) ELSE 36 + 7 * (i - 5)
BY DEF Camera!Start

\* The bars of a code of eight digits.
LEMMA BarsOfEight ==
  ASSUME NEW c \in [1 .. 8 -> 0 .. 9], Len(c) = 8, NEW u
  PROVE  u \in Camera!Bars(c) <=>
           \/ u \in {0, 2, 32, 34, 64, 66}
           \/ \E i \in 1 .. 8 : \E k \in 0 .. 6 :
                u = Camera!Start(i) + k /\ Camera!Black(c[i], k, i > 4)
<1>1. Camera!Start(8) + 7 = 64
  BY Starts
<1>2. Camera!Bars(c) = {0, 2} \cup {32, 34} \cup {64, 64 + 2}
        \cup UNION {{Camera!Start(i) + k : k \in {j \in 0 .. 6 : Camera!Black(c[i], j, i > 4)}}
                     : i \in 1 .. 8}
  BY <1>1 DEF Camera!Bars
<1>3. u \in UNION {{Camera!Start(i) + k : k \in {j \in 0 .. 6 : Camera!Black(c[i], j, i > 4)}}
                    : i \in 1 .. 8}
      <=> \E i \in 1 .. 8 : \E k \in 0 .. 6 :
            u = Camera!Start(i) + k /\ Camera!Black(c[i], k, i > 4)
  OBVIOUS
<1>. QED
  BY <1>2, <1>3

\* Each unit of a digit belongs to that digit alone, and to no guard.
LEMMA UnitBlack ==
  ASSUME NEW c \in [1 .. 8 -> 0 .. 9], Len(c) = 8, NEW i \in 1 .. 8, NEW k \in 0 .. 6
  PROVE  Camera!Start(i) + k \in Camera!Bars(c) <=> Camera!Black(c[i], k, i > 4)
<1>. DEFINE u == Camera!Start(i) + k
<1>1. u \notin {0, 2, 32, 34, 64, 66}
  BY Starts
<1>2. ASSUME NEW j \in 1 .. 8, NEW l \in 0 .. 6, u = Camera!Start(j) + l
     PROVE  j = i /\ l = k
  <2>1. /\ Camera!Start(i) = IF i <= 4 THEN 3 + 7 * (i - 1) ELSE 36 + 7 * (i - 5)
        /\ Camera!Start(j) = IF j <= 4 THEN 3 + 7 * (j - 1) ELSE 36 + 7 * (j - 5)
    BY Starts
  <2>. QED
    BY <1>2, <2>1
<1>. HIDE DEF u
<1>3. u \in Camera!Bars(c) <=>
        \E j \in 1 .. 8 : \E l \in 0 .. 6 :
          u = Camera!Start(j) + l /\ Camera!Black(c[j], l, j > 4)
  BY <1>1, BarsOfEight
<1>4. u = Camera!Start(i) + k
  BY DEF u
<1>5. u \in Camera!Bars(c) <=> Camera!Black(c[i], k, i > 4)
  BY <1>2, <1>3, <1>4
<1>. QED
  BY <1>5 DEF u

\* The last bar of a code of eight digits is that of the right guard, and lies
\* within the background.
LEMMA RightEdgeWithin ==
  ASSUME NEW c \in [1 .. 8 -> 0 .. 9], Len(c) = 8
  PROVE  Camera!RightEdge(c) <= Camera!Background
<1>1. 66 \in Camera!Bars(c)
  BY BarsOfEight
<1>2. ASSUME NEW v \in Camera!Bars(c)
     PROVE  v \in Nat /\ v <= 66
  <2>1. CASE v \in {0, 2, 32, 34, 64, 66}
    BY <2>1
  <2>2. CASE \E i \in 1 .. 8 : \E k \in 0 .. 6 : v = Camera!Start(i) + k
    BY <2>2, Starts
  <2>. QED
    BY <2>1, <2>2, BarsOfEight
<1>. DEFINE u == CHOOSE u \in Camera!Bars(c) : \A v \in Camera!Bars(c) : v <= u
<1>3. u \in Camera!Bars(c) /\ \A v \in Camera!Bars(c) : v <= u
  <2>1. \E x \in Camera!Bars(c) : \A v \in Camera!Bars(c) : v <= x
    BY <1>1, <1>2
  <2>. QED
    BY <2>1
<1>. HIDE DEF u
<1>4. u = 66
  BY <1>1, <1>2, <1>3
<1>5. Camera!RightEdge(c) = 12 + 2 * u + 2
  BY DEF u, Camera!RightEdge, Camera!BarsXOffset, Camera!UnitBar
<1>. QED
  BY <1>4, <1>5 DEF Camera!Background

\* Which digits have a black unit, of the second to the sixth.
LEMMA UnitsOfDigit ==
  ASSUME NEW d \in 0 .. 9
  PROVE  /\ Camera!Black(d, 1, FALSE) <=> d \in {3, 4, 5, 6, 7, 8}
         /\ Camera!Black(d, 2, FALSE) <=> d \in {1, 2, 3, 5, 7, 8}
         /\ Camera!Black(d, 3, FALSE) <=> d \in {0, 1, 3, 6, 7, 9}
         /\ Camera!Black(d, 4, FALSE) <=> d \in {0, 3, 6, 8}
         /\ Camera!Black(d, 5, FALSE) <=> d \in {2, 4, 6, 7, 8, 9}
<1>1. /\ Camera!Mask[2] = 32 /\ Camera!Mask[3] = 16 /\ Camera!Mask[4] = 8
      /\ Camera!Mask[5] = 4 /\ Camera!Mask[6] = 2
  BY DEF Camera!Mask
<1>2. Camera!Ean[d + 1] = CASE d = 0 -> 13 [] d = 1 -> 25 [] d = 2 -> 19 [] d = 3 -> 61
                            [] d = 4 -> 35 [] d = 5 -> 49 [] d = 6 -> 47 [] d = 7 -> 59
                            [] d = 8 -> 55 [] d = 9 -> 11
  BY DEF Camera!Ean
<1>. DEFINE x == Camera!Ean[d + 1]
<1>3. /\ Camera!Black(d, 1, FALSE) <=> (x \div 32) % 2 = 1
      /\ Camera!Black(d, 2, FALSE) <=> (x \div 16) % 2 = 1
      /\ Camera!Black(d, 3, FALSE) <=> (x \div 8) % 2 = 1
      /\ Camera!Black(d, 4, FALSE) <=> (x \div 4) % 2 = 1
      /\ Camera!Black(d, 5, FALSE) <=> (x \div 2) % 2 = 1
  <2>1. /\ Camera!Black(d, 1, FALSE) <=> (x \div Camera!Mask[1 + 1]) % 2 = 1
        /\ Camera!Black(d, 2, FALSE) <=> (x \div Camera!Mask[2 + 1]) % 2 = 1
        /\ Camera!Black(d, 3, FALSE) <=> (x \div Camera!Mask[3 + 1]) % 2 = 1
        /\ Camera!Black(d, 4, FALSE) <=> (x \div Camera!Mask[4 + 1]) % 2 = 1
        /\ Camera!Black(d, 5, FALSE) <=> (x \div Camera!Mask[5 + 1]) % 2 = 1
    BY Zenon DEF Camera!Black
  <2>2. /\ Camera!Mask[1 + 1] = 32 /\ Camera!Mask[2 + 1] = 16 /\ Camera!Mask[3 + 1] = 8
        /\ Camera!Mask[4 + 1] = 4 /\ Camera!Mask[5 + 1] = 2
    BY <1>1
  <2>. QED
    BY <2>1, <2>2, Zenon
<1>. HIDE DEF x
<1>4. /\ (x \div 32) % 2 = 1 <=> d \in {3, 4, 5, 6, 7, 8}
      /\ (x \div 16) % 2 = 1 <=> d \in {1, 2, 3, 5, 7, 8}
      /\ (x \div 8) % 2 = 1 <=> d \in {0, 1, 3, 6, 7, 9}
      /\ (x \div 4) % 2 = 1 <=> d \in {0, 3, 6, 8}
      /\ (x \div 2) % 2 = 1 <=> d \in {2, 4, 6, 7, 8, 9}
  <2>1. \/ (d = 0 /\ x = 13) \/ (d = 1 /\ x = 25) \/ (d = 2 /\ x = 19) \/ (d = 3 /\ x = 61)
        \/ (d = 4 /\ x = 35) \/ (d = 5 /\ x = 49) \/ (d = 6 /\ x = 47) \/ (d = 7 /\ x = 59)
        \/ (d = 8 /\ x = 55) \/ (d = 9 /\ x = 11)
    BY <1>2 DEF x
  <2>. QED
    BY <2>1
<1>. QED
  BY <1>3, <1>4

\* No two digits look alike, on either side of the code.
LEMMA DigitsApart ==
  ASSUME NEW d \in 0 .. 9, NEW e \in 0 .. 9, NEW r \in BOOLEAN,
         \A k \in 0 .. 6 : Camera!Black(d, k, r) <=> Camera!Black(e, k, r)
  PROVE  d = e
<1>1. \A k \in 0 .. 6 : Camera!Black(d, k, FALSE) <=> Camera!Black(e, k, FALSE)
  BY DEF Camera!Black
<1>2. /\ d \in {3, 4, 5, 6, 7, 8} <=> e \in {3, 4, 5, 6, 7, 8}
      /\ d \in {1, 2, 3, 5, 7, 8} <=> e \in {1, 2, 3, 5, 7, 8}
      /\ d \in {0, 1, 3, 6, 7, 9} <=> e \in {0, 1, 3, 6, 7, 9}
      /\ d \in {0, 3, 6, 8} <=> e \in {0, 3, 6, 8}
      /\ d \in {2, 4, 6, 7, 8, 9} <=> e \in {2, 4, 6, 7, 8, 9}
  <2>1. /\ Camera!Black(d, 1, FALSE) <=> Camera!Black(e, 1, FALSE)
        /\ Camera!Black(d, 2, FALSE) <=> Camera!Black(e, 2, FALSE)
        /\ Camera!Black(d, 3, FALSE) <=> Camera!Black(e, 3, FALSE)
        /\ Camera!Black(d, 4, FALSE) <=> Camera!Black(e, 4, FALSE)
        /\ Camera!Black(d, 5, FALSE) <=> Camera!Black(e, 5, FALSE)
    <3>1. 1 \in 0 .. 6 /\ 2 \in 0 .. 6 /\ 3 \in 0 .. 6 /\ 4 \in 0 .. 6 /\ 5 \in 0 .. 6
      OBVIOUS
    <3>. QED
      BY <1>1, <3>1, Zenon
  <2>. QED
    BY <2>1, UnitsOfDigit, Zenon
<1>. QED
  BY <1>2

\* What the reader samples are the units of one digit, which it recognises.
LEMMA ReadsDigit ==
  ASSUME NEW c \in [1 .. 8 -> 0 .. 9], Len(c) = 8, NEW i \in 1 .. 8
  PROVE  Camera!Reader(Camera!Bars(c))[i] = {c[i]}
<1>. DEFINE r  == i > 4
            at == Camera!Start(i)
            read == {d \in 0 .. 9 : \A k \in 0 .. 6 :
                       Camera!Black(d, k, r) <=> (at + k) \in Camera!Bars(c)}
<1>1. c[i] \in 0 .. 9 /\ r \in BOOLEAN
  OBVIOUS
<1>2. \A k \in 0 .. 6 : (at + k) \in Camera!Bars(c) <=> Camera!Black(c[i], k, r)
  BY UnitBlack
<1>3. Camera!Reader(Camera!Bars(c))[i] = read
  <2>. DEFINE left  == 3 + 7 * (i - 1)
              right == 36 + 7 * (i - 5)
              bars  == Camera!Bars(c)
              pattern(a, f) == {d \in 0 .. 9 : \A k \in 0 .. 6 :
                                  Camera!Black(d, k, f) <=> (a + k) \in bars}
  <2>1. Camera!Reader(bars)[i] = IF i <= 4 THEN pattern(left, FALSE) ELSE pattern(right, TRUE)
    BY DEF Camera!Reader
  <2>2. read = pattern(at, r)
    OBVIOUS
  <2>3. at = IF i <= 4 THEN left ELSE right
    BY Starts
  <2>4. i <= 4 <=> ~(i > 4)
    OBVIOUS
  <2>5. CASE i <= 4
    <3>1. r = FALSE
      <4>1. r \in BOOLEAN /\ ~r
        BY <1>1, <2>4, <2>5, Zenon
      <4>. HIDE DEF r
      <4>. QED
        BY <4>1, Zenon
    <3>. HIDE DEF read, pattern, left, right, bars, at, r
    <3>. QED
      BY <2>1, <2>2, <2>3, <2>5, <3>1, Zenon DEF bars
  <2>6. CASE ~(i <= 4)
    <3>1. r = TRUE
      BY <2>4, <2>6, Zenon
    <3>. HIDE DEF read, pattern, left, right, bars, at, r
    <3>. QED
      BY <2>1, <2>2, <2>3, <2>6, <3>1, Zenon DEF bars
  <2>. QED
    BY <2>5, <2>6
<1>. HIDE DEF r, at
<1>4. c[i] \in read
  BY <1>1, <1>2
<1>5. ASSUME NEW d \in read
     PROVE  d = c[i]
  <2>1. d \in 0 .. 9 /\ \A k \in 0 .. 6 : Camera!Black(d, k, r) <=> Camera!Black(c[i], k, r)
    BY <1>2
  <2>. QED
    BY <1>1, <2>1, DigitsApart
<1>. QED
  BY <1>3, <1>4, <1>5

\* A number of at most seven digits can be read back from the bars of its code.
LEMMA BarcodeReads ==
  ASSUME NEW n \in Nat, n < Camera!Power10[8], NEW c, c = Camera!ComputeBarcodeDigits(n)
  PROVE  /\ Len(c) = 8
         /\ \A i \in 1 .. 8 : Camera!Reader(Camera!Bars(c))[i] = {c[i]}
         /\ Camera!Number(c)[7] = n
         /\ Camera!Sums(c)[8] % 10 = 0
         /\ Camera!RightEdge(c) <= Camera!Background
<1>1. /\ c \in [1 .. 8 -> 0 .. 9] /\ Len(c) = 8
      /\ Camera!Number(c)[7] = n /\ Camera!Sums(c)[8] % 10 = 0
  BY CodeOfSeven
<1>2. \A i \in 1 .. 8 : Camera!Reader(Camera!Bars(c))[i] = {c[i]}
  BY <1>1, ReadsDigit
<1>3. Camera!RightEdge(c) <= Camera!Background
  BY <1>1, RightEdgeWithin
<1>. QED
  BY <1>1, <1>2, <1>3

-----------------------------------------------------------------------------
(***************************************************************************)
(* The virtual camera: its invariant.                                      *)
(***************************************************************************)
LEMMA CameraInvInit == Camera!Init => CameraInv
<1>. SUFFICES ASSUME Camera!Init PROVE CameraInv
  OBVIOUS
<1>1. Camera!TypeOK
  BY DEF Camera!Init, Camera!TypeOK
<1>2. SizesKnown /\ CodeKnown
  BY DEF Camera!Init, SizesKnown, CodeKnown
<1>. QED
  BY <1>1, <1>2 DEF CameraInv

\* The value of a frame, and its code.
LEMMA ValueType ==
  ASSUME NEW t \in Elapsed, NEW drawn \in BOOLEAN, NEW v,
         v = IF drawn THEN Camera!Truncated(t) ELSE None,
         NEW code, code = IF v = None THEN <<>> ELSE Camera!ComputeBarcodeDigits(v)
  PROVE  /\ v \in Nat \cup {None} /\ code \in Seq(0 .. 9)
         /\ code # <<>> => v \in Nat /\ code = Camera!ComputeBarcodeDigits(v)
<1>1. v \in Nat \cup {None}
  BY CameraAssumption DEF Camera!ElapsedAssumption, Camera!Truncated
<1>2. CASE v = None
  BY <1>1, <1>2
<1>3. CASE v # None
  BY <1>1, <1>3, CodeType
<1>. QED
  BY <1>2, <1>3

\* Every step of the camera keeps the types, the sizes and the code.
LEMMA CameraInvStep == CameraInv /\ [Camera!Next]_(Camera!vars) => CameraInv'
<1>. SUFFICES ASSUME CameraInv, [Camera!Next]_(Camera!vars)
              PROVE  CameraInv'
  OBVIOUS
<1>0. Camera!TypeOK /\ SizesKnown /\ CodeKnown
  BY DEF CameraInv
<1>1. ASSUME NEW s \in Size, NEW b \in BOOLEAN, Camera!SetVideoCapturer(s, b)
     PROVE  CameraInv'
  <2>1. /\ size' = s /\ barcode' = b /\ buf' = buf /\ gen' = gen /\ frame' = frame
        /\ changed' = (changed \/ (buf # None /\ s # size))
    BY <1>1 DEF Camera!SetVideoCapturer
  <2>2. changed' \in BOOLEAN
    BY <1>0, <2>1, Zenon DEF Camera!TypeOK
  <2>3. ~changed' => ~changed /\ (buf # None => s = size)
    BY <2>1, Zenon
  <2>4. Camera!TypeOK'
    BY <1>0, <2>1, <2>2 DEF Camera!TypeOK
  <2>5. SizesKnown'
    BY <1>0, <2>1, <2>3, Zenon DEF SizesKnown
  <2>6. CodeKnown'
    BY <1>0, <2>1, Zenon DEF CodeKnown
  <2>. QED
    BY <2>4, <2>5, <2>6 DEF CameraInv
<1>2. CASE Camera!Create
  <2>1. buf' = size /\ gen' = None /\ frame' = None /\ changed' = FALSE /\ size' = size /\ barcode' = barcode
    BY <1>2 DEF Camera!Create
  <2>2. Camera!TypeOK'
    <3>1. size' \in CameraSize /\ barcode' \in BOOLEAN /\ buf' \in CameraSize \cup {None}
      BY <1>0, <2>1 DEF Camera!TypeOK, CameraSize
    <3>. QED
      BY <2>1, <3>1, Zenon DEF Camera!TypeOK, CameraSize
  <2>3. SizesKnown' /\ CodeKnown'
    BY <2>1 DEF SizesKnown, CodeKnown
  <2>. QED
    BY <2>2, <2>3 DEF CameraInv
<1>3. ASSUME NEW t \in Elapsed, Camera!PushFrame(t)
     PROVE  CameraInv'
  <2>. DEFINE v == IF barcode THEN Camera!Truncated(t) ELSE None
              code == IF v = None THEN <<>> ELSE Camera!ComputeBarcodeDigits(v)
  <2>1. /\ buf # None /\ gen' = IF barcode /\ gen = None THEN size ELSE gen
        /\ frame' = [code |-> code, value |-> v, drawn |-> barcode, told |-> size]
        /\ UNCHANGED <<size, barcode, buf, changed>>
    BY <1>3 DEF Camera!PushFrame
  <2>2. /\ v \in Nat \cup {None} /\ code \in Seq(0 .. 9)
        /\ code # <<>> => v \in Nat /\ code = Camera!ComputeBarcodeDigits(v)
    BY ValueType
  <2>. HIDE DEF v, code
  <2>3. /\ DOMAIN frame' = {"code", "value", "drawn", "told"}
        /\ frame'.code = code /\ frame'.value = v /\ frame'.drawn = barcode /\ frame'.told = size
    BY <2>1
  <2>4. Camera!TypeOK'
    BY <1>0, <2>1, <2>2, <2>3 DEF Camera!TypeOK
  <2>5. SizesKnown'
    BY <1>0, <2>1, <2>3 DEF SizesKnown
  <2>6. CodeKnown'
    BY <2>2, <2>3 DEF CodeKnown
  <2>. QED
    BY <2>4, <2>5, <2>6 DEF CameraInv
<1>4. CASE Camera!Destroy
  <2>1. buf' = None /\ gen' = None /\ frame' = None /\ changed' = FALSE /\ size' = size /\ barcode' = barcode
    BY <1>4 DEF Camera!Destroy
  <2>2. Camera!TypeOK'
    <3>1. size' \in CameraSize /\ barcode' \in BOOLEAN /\ buf' \in CameraSize \cup {None}
      BY <1>0, <2>1 DEF Camera!TypeOK, CameraSize
    <3>. QED
      BY <2>1, <3>1, Zenon DEF Camera!TypeOK, CameraSize
  <2>3. SizesKnown' /\ CodeKnown'
    BY <2>1 DEF SizesKnown, CodeKnown
  <2>. QED
    BY <2>2, <2>3 DEF CameraInv
<1>5. CASE UNCHANGED Camera!vars
  BY <1>0, <1>5 DEF Camera!vars, CameraInv, Camera!TypeOK, SizesKnown, CodeKnown
<1>. QED
  BY <1>1, <1>2, <1>3, <1>4, <1>5 DEF Camera!Next

\* The sizes are sound in every state of the invariant ...
LEMMA CameraInvSound == CameraInv => Camera!CameraSound
<1>. SUFFICES ASSUME CameraInv, frame # None, frame.drawn, ~changed
              PROVE  /\ Camera!GenBytes(gen) <= Camera!BufBytes(buf)
                     /\ (buf[1] % 2 = 0 /\ buf[2] % 2 = 0) => Camera!GenChroma(gen) = Camera!BufChroma(buf)
                     /\ frame.told = buf
  BY DEF CameraInv, Camera!CameraSound, Camera!FrameFits
<1>1. gen = buf /\ frame.told = buf /\ buf # None
  BY DEF CameraInv, SizesKnown
<1>2. buf \in CameraSize
  BY <1>1 DEF CameraInv, Camera!TypeOK, CameraSize
<1>3. buf \in Nat \X Nat
  BY <1>2, CameraSizes
<1>. QED
  BY <1>1, <1>3, GeneratorFits

\* ... and so is what a frame's code says.
LEMMA CameraInvReads == CameraInv => Camera!ReadsBack
<1>. SUFFICES ASSUME CameraInv, frame # None, frame.code # <<>>,
                     frame.value < Camera!Power10[Camera!MaxDigits + 1],
                     NEW c, c = frame.code
              PROVE  /\ Len(c) = 8
                     /\ \A i \in 1 .. 8 : Camera!Reader(Camera!Bars(c))[i] = {c[i]}
                     /\ Camera!Number(c)[Camera!MaxDigits] = frame.value
                     /\ Camera!Sums(c)[8] % 10 = 0
                     /\ Camera!RightEdge(c) <= Camera!Background
  BY DEF Camera!ReadsBack
<1>1. frame.value \in Nat /\ c = Camera!ComputeBarcodeDigits(frame.value)
  BY DEF CameraInv, CodeKnown
<1>2. Camera!MaxDigits = 7 /\ frame.value < Camera!Power10[8]
  BY DEF Camera!MaxDigits
<1>. QED
  BY <1>1, <1>2, BarcodeReads

-----------------------------------------------------------------------------
(***************************************************************************)
(* The three parts together.  A behaviour of ImagesSpec is one of each     *)
(* part, so what holds of a part, all of its calls in any order, holds     *)
(* there too.                                                              *)
(***************************************************************************)
LEMMA PartsInit == ImagesInit => Init /\ Jpeg!Init /\ Camera!Init
BY DEF ImagesInit

LEMMA PartsStep ==
  [ImagesNext]_<<part, vars, jpegVars, cameraVars>> =>
    [Next]_vars /\ [Jpeg!Next]_(Jpeg!vars) /\ [Camera!Next]_(Camera!vars)
<1>. SUFFICES ASSUME [ImagesNext]_<<part, vars, jpegVars, cameraVars>>
              PROVE  [Next]_vars /\ [Jpeg!Next]_(Jpeg!vars) /\ [Camera!Next]_(Camera!vars)
  OBVIOUS
<1>1. UNCHANGED jpegVars => UNCHANGED Jpeg!vars
  BY DEF jpegVars, Jpeg!vars, Jpeg!scaleVars, Jpeg!bufVars
<1>2. UNCHANGED cameraVars => UNCHANGED Camera!vars
  BY DEF cameraVars, Camera!vars
<1>3. CASE FilterStep
  BY <1>1, <1>2, <1>3 DEF FilterStep
<1>4. CASE JpegStep \/ ScalerStep
  BY <1>2, <1>4 DEF JpegStep, ScalerStep, Jpeg!Next
<1>5. CASE CameraStep
  BY <1>1, <1>5 DEF CameraStep
<1>6. CASE UNCHANGED <<part, vars, jpegVars, cameraVars>>
  BY <1>1, <1>2, <1>6
<1>. QED
  BY <1>3, <1>4, <1>5, <1>6 DEF ImagesNext

LEMMA PartsSpec == ImagesSpec => Spec /\ Jpeg!Spec /\ Camera!Spec
BY PartsInit, PartsStep, PTL DEF ImagesSpec, Spec, Jpeg!Spec, Camera!Spec

\* The invariants hold in every reachable state of their part.
LEMMA JpegInvAlways == Jpeg!Spec => []JpegInv
BY JpegInvInit, JpegInvStep, PTL DEF Jpeg!Spec

LEMMA CameraInvAlways == Camera!Spec => []CameraInv
BY CameraInvInit, CameraInvStep, PTL DEF Camera!Spec

-----------------------------------------------------------------------------
\* Whatever calls come in whatever order on whatever images, each writes what its
\* buffer holds, an array that is only checked for null serves no larger image
\* than the one it was made for, and the width is near the one asked for.
THEOREM JpegCallsSound == Jpeg!Spec => []Jpeg!CallsSound
<1>1. JpegInv => Jpeg!CallsSound
  BY DEF JpegInv, Jpeg!CallsSound
<1>. QED
  BY <1>1, JpegInvAlways, PTL

\* A scaling factor chosen for another size is a nearest one of the list, or the
\* factor in hand stays where 1/1 is nearest.
THEOREM JpegChoiceNearest == Jpeg!Spec => Jpeg!ChoiceNearest
<1>1. JpegInv /\ [Jpeg!Next]_(Jpeg!vars) =>
        [last' \notin {last, Jpeg!NoImage} =>
           \/ best' \in Jpeg!Nearest(want')
           \/ best # 0 /\ best' = best /\ 8 \in Jpeg!Nearest(want')]_(Jpeg!vars)
  BY ChoiceStep DEF JpegInv
<1>. QED
  BY <1>1, JpegInvAlways, PTL DEF Jpeg!Spec, Jpeg!ChoiceNearest

\* Every call of the JPEG wrapper is sound in the run's specification.
THEOREM ImagesCallsSound == ImagesSpec => []CallsSound
BY PartsSpec, JpegCallsSound, PTL DEF CallsSound

\* The choice of the factor is right in the run's specification.
THEOREM ImagesChoiceNearest == ImagesSpec => ChoiceNearest
BY PartsSpec, JpegChoiceNearest, PTL DEF ChoiceNearest

\* Whenever the settings change, what the generator copies fits the buffer of the
\* capturer, unless the size changed since the capturer was made.
THEOREM ImagesCameraSound == ImagesSpec => []CameraSound
<1>1. CameraInv => CameraSound
  BY CameraInvSound DEF CameraSound
<1>. QED
  BY <1>1, PartsSpec, CameraInvAlways, PTL

\* Every value of at most seven digits can be read back from the bars of its code.
THEOREM ImagesReadsBack == ImagesSpec => []ReadsBack
<1>1. CameraInv => ReadsBack
  BY CameraInvReads DEF ReadsBack
<1>. QED
  BY <1>1, PartsSpec, CameraInvAlways, PTL

\* An image is destroyed once and by one filter in the run's specification.
THEOREM ImagesDestroyedOnce == ImagesSpec => []DestroyedOnce
BY PartsSpec, DestroyedByOne, PTL
=============================================================================
