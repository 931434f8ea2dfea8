-------------------------- MODULE Vp8Decoder_proofs --------------------------
(***************************************************************************)
(* Proofs about Vp8Decoder, for every threshold Th.  What the counter      *)
(* promises holds because of how it relates to the history: CounterInv.    *)
(***************************************************************************)
EXTENDS Vp8Decoder, TLAPS

\* The counter of an initialised decoder: it does not run while a key frame is
\* required or in feedback mode; unless libvpx failed on a key frame, it runs
\* exactly while damage is pending, and it counts every frame shown or decoded
\* since the last error.
CounterInv ==
  inited =>
    /\ ~keyRequired => started \/ rejected
    /\ keyRequired \/ feedback => cnt = -1
    /\ cnt <= quiet \/ quiet = Th
    /\ ~feedback /\ ~rejected =>
                    /\ lost <=> cnt >= 0
                    /\ shown = 0 \/ shown <= cnt
                    /\ shown <= Th

CountsOK == cnt \in -1 .. MaxCnt /\ shown \in Nat /\ quiet \in 0 .. Th

CInv == CountsOK /\ CounterInv

ResultOK == result \in Results

\* A new decoder: no context, the gate closed, the counter not running.
LEMMA InitInv == Init => FlagsOK /\ ResultOK /\ InitedHasContext /\ CInv
<1>1. Init => FlagsOK
  BY Zenon DEF Init, FlagsOK
<1>2. Init => ResultOK
  BY DEF Init, Results, ResultOK
<1>3. Init => InitedHasContext /\ CInv
  BY ThAssumption DEF Init, InitedHasContext, CInv, CountsOK, CounterInv
<1> QED
  BY <1>1, <1>2, <1>3

\* A frame that libvpx gets, whatever comes of it, keeps the counter's invariant.
LEMMA FrameCInv ==
  ASSUME CInv, NEW f \in Frame,
         \/ DecodeUndelivered(f) \/ DecodeHidden(f)
         \/ DecodeShown(f) \/ DecodeFeedback(f)
  PROVE  CInv'
<1>1. Accept(f)
  BY DEF DecodeUndelivered, DecodeHidden, DecodeShown, DecodeFeedback
<1>2. inited /\ inited' /\ (feedback' <=> feedback) /\ ~keyRequired'
  BY <1>1, Zenon DEF Accept, Pass, Ready
<1>3. keyRequired => Fresh(f)
  BY <1>1, Zenon DEF Accept, Pass
<1>4. started' <=> (started \/ Fresh(f))
  BY <1>1, Zenon DEF Accept
<1>5. /\ lost' <=> (~Fresh(f) /\ (lost \/ Loss(f)))
      /\ rejected' <=> (rejected /\ ~Fresh(f))
  BY <1>1, Zenon DEF Accept
<1> USE <1>2, <1>3, <1>4, <1>5, ThAssumption
    DEF CInv, CountsOK, CounterInv, Counted, Reset, More, Fail, Shown
<1>6. CASE DecodeUndelivered(f)
  BY <1>6 DEF DecodeUndelivered
<1>7. CASE DecodeHidden(f)
  BY <1>7 DEF DecodeHidden
<1>8. CASE DecodeShown(f)
  BY <1>8 DEF DecodeShown
<1>9. CASE DecodeFeedback(f)
  BY <1>9 DEF DecodeFeedback
<1> QED
  BY <1>6, <1>7, <1>8, <1>9

\* ... and so does a frame that libvpx fails on.
LEMMA FailedCInv ==
  ASSUME CInv, NEW f \in Frame, DecodeFailed(f)
  PROVE  CInv'
<1>1. /\ inited /\ inited' /\ (feedback' <=> feedback) /\ ~keyRequired'
      /\ keyRequired => Fresh(f)
  BY Zenon DEF DecodeFailed, Pass, Ready
<1>2. /\ started' <=> started
      /\ lost' <=> (lost \/ Loss(f))
      /\ rejected' <=> (rejected \/ Fresh(f))
  BY Zenon DEF DecodeFailed
<1> QED
  BY <1>1, <1>2, ThAssumption
     DEF DecodeFailed, CInv, CountsOK, CounterInv, Counted, Reset, Fail

\* Every call keeps the counter's invariant.
LEMMA NextCInv == CInv /\ [Next]_vars => CInv'
<1> SUFFICES ASSUME CInv, [Next]_vars PROVE CInv'
  OBVIOUS
<1> USE ThAssumption DEF CInv, CountsOK, CounterInv, state, history
<1>1. CASE RegisterDecodeCompleteCallback
  BY <1>1 DEF RegisterDecodeCompleteCallback
<1>2. CASE Release
  BY <1>2 DEF Release
<1>3. ASSUME NEW fb \in BOOLEAN, InitDecode(fb) PROVE CInv'
  BY <1>3 DEF InitDecode, ReleaseFails, ContextFails, Restart
<1>4. CASE DecodeUninitialized
  BY <1>4 DEF DecodeUninitialized
<1>5. CASE DecodeNoBuffer
  BY <1>5 DEF DecodeNoBuffer, Ready, Fail, Reset
<1>6. ASSUME NEW f \in Frame, DecodeRefused(f) PROVE CInv'
  BY <1>6 DEF DecodeRefused, Ready, Fail
<1>7. ASSUME NEW f \in Frame,
             \/ DecodeFailed(f) \/ DecodeUndelivered(f) \/ DecodeHidden(f)
             \/ DecodeShown(f) \/ DecodeFeedback(f)
      PROVE  CInv'
  BY <1>7, FrameCInv, FailedCInv
<1>8. CASE UNCHANGED vars
  BY <1>8 DEF vars
<1> QED
  BY <1>1, <1>2, <1>3, <1>4, <1>5, <1>6, <1>7, <1>8 DEF Next, Decode

\* Every call keeps the flags Boolean, ...
LEMMA NextFlags == FlagsOK /\ [Next]_vars => FlagsOK'
<1> SUFFICES ASSUME FlagsOK, [Next]_vars PROVE FlagsOK'
  OBVIOUS
<1> USE DEF FlagsOK, state, history
<1>1. CASE RegisterDecodeCompleteCallback
  BY <1>1, Zenon DEF RegisterDecodeCompleteCallback
<1>2. CASE Release
  BY <1>2, Zenon DEF Release
<1>3. ASSUME NEW fb \in BOOLEAN, InitDecode(fb) PROVE FlagsOK'
  BY <1>3, Zenon DEF InitDecode, ReleaseFails, ContextFails, Restart
<1>4. CASE DecodeUninitialized
  BY <1>4, Zenon DEF DecodeUninitialized
<1>5. CASE DecodeNoBuffer
  BY <1>5, Zenon DEF DecodeNoBuffer
<1>6. ASSUME NEW f \in Frame, DecodeRefused(f) PROVE FlagsOK'
  BY <1>6, Zenon DEF DecodeRefused
<1>7. ASSUME NEW f \in Frame, Accept(f) \/ DecodeFailed(f) PROVE FlagsOK'
  BY <1>7, Zenon DEF Accept, Pass, DecodeFailed
<1>8. CASE UNCHANGED vars
  BY <1>8, Zenon DEF vars
<1> QED
  BY <1>1, <1>2, <1>3, <1>4, <1>5, <1>6, <1>7, <1>8
     DEF Next, Decode, DecodeFailed, DecodeUndelivered, DecodeHidden, DecodeShown, DecodeFeedback

\* ... returns one of the results, ...
LEMMA NextResults == ResultOK /\ [Next]_vars => ResultOK'
  BY DEF ResultOK, Results, Next, vars, Decode, RegisterDecodeCompleteCallback, Release,
         InitDecode, ReleaseFails, ContextFails, Restart, DecodeUninitialized,
         DecodeNoBuffer, DecodeRefused, DecodeFailed, DecodeUndelivered, DecodeHidden, DecodeShown,
         DecodeFeedback, Fail, Shown

\* ... and keeps inited_ from being set without a context.
LEMMA NextContext == InitedHasContext /\ [Next]_vars => InitedHasContext'
  BY Zenon
     DEF InitedHasContext, Next, vars, state, Decode, RegisterDecodeCompleteCallback,
         Release, InitDecode, ReleaseFails, ContextFails, Restart,
         DecodeUninitialized, DecodeNoBuffer, DecodeRefused, DecodeFailed,
         DecodeUndelivered, DecodeHidden, DecodeShown, DecodeFeedback, Accept, Pass

\* propagation_cnt_ counts what it is meant to count (vp8_impl.cc:1277-1297).
LEMMA CounterCorrect == Spec => []CInv
  BY InitInv, NextCInv, PTL DEF Spec

\* The types of VP8DecoderImpl's members and of the history.
THEOREM DecoderTypes == Spec => []TypeOK
<1>1. Spec => []FlagsOK
  BY InitInv, NextFlags, PTL DEF Spec
<1>2. Spec => []ResultOK
  BY InitInv, NextResults, PTL DEF Spec
<1>3. FlagsOK /\ ResultOK /\ CInv => TypeOK
  BY DEF TypeOK, ResultOK, CInv, CountsOK
<1> QED
  BY <1>1, <1>2, <1>3, CounterCorrect, PTL

\* An open gate means that libvpx was given a complete key frame
\* (vp8_impl.cc:1263).
THEOREM GateOpensOnKey == Spec => []GateMeansKey
<1>1. CInv => GateMeansKey
  BY DEF CInv, CounterInv, GateMeansKey, Ready
<1> QED
  BY <1>1, CounterCorrect, PTL

\* An initialised decoder has a context (InitDecode and Release).
THEOREM ContextPresent == Spec => []InitedHasContext
  BY InitInv, NextContext, PTL DEF Spec

\* An initialised decoder has a context and begins with a key frame.
THEOREM DecoderIsReady == Spec => []ReadyToDecode
  BY GateOpensOnKey, ContextPresent, PTL DEF ReadyToDecode

\* Damage is shown for at most Th frames without an error, unless libvpx failed
\* on a key frame (vp8_impl.cc:1280-1297, 1394).
THEOREM PropagationBounded == Spec => []BoundedPropagation
<1>1. CInv => BoundedPropagation
  BY DEF CInv, CounterInv, BoundedPropagation
<1> QED
  BY <1>1, CounterCorrect, PTL

\* The counter's errors are at least Th frames away from any other error.
THEOREM RequestsSpaced == Spec => RequestsApart
<1>1. CInv /\ [Next]_vars => [result' = "limit" => quiet >= Th]_vars
  <2> SUFFICES ASSUME CInv, Next, result' = "limit" PROVE quiet >= Th
    OBVIOUS
  <2> USE DEF CInv, CountsOK
  <2>1. PICK f \in Frame : DecodeShown(f) /\ Counted(f) > Th
    BY DEF Next, Decode, RegisterDecodeCompleteCallback, Release, InitDecode,
           ReleaseFails, ContextFails, Restart, DecodeUninitialized, DecodeNoBuffer,
           DecodeRefused, DecodeFailed, DecodeUndelivered, DecodeHidden, DecodeShown, DecodeFeedback,
           Fail, Shown
  <2>2. cnt >= 0 => cnt >= Th
    BY <2>1, ThAssumption DEF Counted, DecodeShown
  <2>3. cnt = -1 => Th = 0
    BY <2>1, ThAssumption DEF Counted, DecodeShown
  <2> QED
    BY <2>1, <2>2, <2>3, ThAssumption DEF CounterInv, DecodeShown, Accept, Pass, Ready
<1> QED
  BY <1>1, CounterCorrect, PTL DEF Spec, RequestsApart
=============================================================================
