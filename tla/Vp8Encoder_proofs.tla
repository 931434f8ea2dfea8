-------------------------- MODULE Vp8Encoder_proofs --------------------------
(***************************************************************************)
(* Proofs about Vp8Encoder, for every number of simulcast streams.         *)
(***************************************************************************)
EXTENDS Vp8Encoder, TLAPS

\* What the requests rely on: only the streams of the encoder are sent.
SendInRange == \A i \in Stream : send[i] => i < n

ShapeOK ==
  /\ n \in Nat
  /\ send \in [Stream -> BOOLEAN] /\ keyReq \in [Stream -> BOOLEAN]
  /\ gap \in [Stream -> BOOLEAN]

KeyInv == ShapeOK /\ SendInRange /\ GapIsRequested

\* A new encoder sends no stream and has delivered nothing.
LEMMA InitKeyInv == Init => KeyInv /\ InitedMeansOpen /\ DeltaOnlyWithoutGap
<1>1. Init => KeyInv
  BY DEF Init, KeyInv, ShapeOK, SendInRange, GapIsRequested, Nowhere
<1>2. Init => InitedMeansOpen /\ DeltaOnlyWithoutGap
  BY Zenon DEF Init, InitedMeansOpen, DeltaOnlyWithoutGap
<1> QED
  BY <1>1, <1>2

\* Sizing the vectors for k streams establishes the invariant.
LEMMA SizedKeyInv ==
  ASSUME NEW k \in 1 .. MaxStreams, Sized(k)
  PROVE  KeyInv'
<1>1. k \in Nat /\ k > 0
  BY StreamsAssumption
<1>2. PICK on \in SUBSET {i \in Stream : i < k - 1} :
        /\ send'   = [i \in Stream |-> i \in on \/ (k = 1 /\ i = 0)]
        /\ keyReq' = [i \in Stream |-> i \in on]
  BY DEF Sized
<1>3. n' = k /\ gap' = [i \in Stream |-> FALSE]
  BY DEF Sized, Nowhere
<1>4. ShapeOK'
  <2>1. n' \in Nat
    BY <1>1, <1>3
  <2>2. /\ send' \in [Stream -> BOOLEAN] /\ keyReq' \in [Stream -> BOOLEAN]
        /\ gap' \in [Stream -> BOOLEAN]
    <3>1. \A i \in Stream : (i \in on \/ (k = 1 /\ i = 0)) \in BOOLEAN
      BY Zenon
    <3>2. \A i \in Stream : (i \in on) \in BOOLEAN
      <4>1. \A i \in Stream : (i \in on) = TRUE \/ (i \in on) = FALSE
        OBVIOUS
      <4> QED
        BY <4>1
    <3>3. send' \in [Stream -> BOOLEAN]
      BY Zenon, <1>2, <3>1
    <3>4. keyReq' \in [Stream -> BOOLEAN]
      BY Zenon, <1>2, <3>2
    <3>5. gap' \in [Stream -> BOOLEAN]
      BY Zenon, <1>3
    <3> QED
      BY <3>3, <3>4, <3>5
  <2> QED
    BY <2>1, <2>2 DEF ShapeOK
<1>5. SendInRange'
  <2> SUFFICES ASSUME NEW i \in Stream, send'[i] PROVE i < k
    BY <1>3 DEF SendInRange
  <2>1. i \in on \/ (k = 1 /\ i = 0)
    BY Zenon, <1>2
  <2>2. i \in on => i < k - 1
    BY Zenon
  <2> QED
    BY <1>1, <2>1, <2>2 DEF Stream
<1>6. GapIsRequested'
  BY Zenon, <1>3 DEF GapIsRequested
<1> QED
  BY <1>4, <1>5, <1>6 DEF KeyInv

\* Release keeps it: no stream is sent.
LEMMA EmptiedKeyInv ==
  ASSUME KeyInv, Emptied, UNCHANGED <<keyReq, gap, failedKey>>
  PROVE  KeyInv'
  BY DEF Emptied, KeyInv, ShapeOK, SendInRange, GapIsRequested, Nowhere

\* Every call keeps the invariant.
LEMMA NextKeyInv == KeyInv /\ [Next]_vars => KeyInv'
<1> SUFFICES ASSUME KeyInv, [Next]_vars PROVE KeyInv'
  OBVIOUS
<1> USE DEF KeyInv, ShapeOK, SendInRange, GapIsRequested
<1>1. CASE UNCHANGED <<coder, history>>
  BY <1>1 DEF coder, history
<1>2. CASE RegisterEncodeCompleteCallback
  BY <1>2 DEF RegisterEncodeCompleteCallback, history
<1>3. CASE Release
  BY <1>3, EmptiedKeyInv DEF Release, history
<1>4. ASSUME NEW k \in 1 .. MaxStreams, InitEncode(k) PROVE KeyInv'
  BY <1>1, <1>4, EmptiedKeyInv, SizedKeyInv DEF InitEncode, Unchanged, history
<1>5. CASE Pause
  BY <1>5 DEF Pause, Nowhere, history
<1>6. ASSUME NEW on \in SUBSET Stream, NEW low \in Stream, SetRates(on, low)
      PROVE  KeyInv'
  <2> DEFINE set == RatedStreams(on, low)
  <2>1. /\ n' = n /\ gap' = gap /\ (failedKey' <=> failedKey)
        /\ send'   = [i \in Stream |-> IF i \in set THEN i \in on ELSE send[i]]
        /\ keyReq' = [i \in Stream |-> keyReq[i] \/ (i \in set \cap on /\ ~send[i])]
    BY Zenon, <1>6 DEF SetRates, history
  <2>2. \A i \in set : i < n
    BY DEF RatedStreams
  <2> HIDE DEF set
  <2>3. /\ send' \in [Stream -> BOOLEAN] /\ keyReq' \in [Stream -> BOOLEAN]
        /\ gap' \in [Stream -> BOOLEAN]
    <3>1. \A i \in Stream : (IF i \in set THEN i \in on ELSE send[i]) \in BOOLEAN
      <4>1. ASSUME NEW i \in Stream, i \in set
            PROVE  (IF i \in set THEN i \in on ELSE send[i]) \in BOOLEAN
        <5>1. (i \in on) = TRUE \/ (i \in on) = FALSE
          OBVIOUS
        <5>2. (i \in on) \in BOOLEAN
          BY <5>1
        <5> QED
          BY Zenon, <4>1, <5>2
      <4>2. ASSUME NEW i \in Stream, i \notin set
            PROVE  (IF i \in set THEN i \in on ELSE send[i]) \in BOOLEAN
        BY Zenon, <4>2
      <4> QED
        BY Zenon, <4>1, <4>2
    <3>2. \A i \in Stream : (keyReq[i] \/ (i \in set \cap on /\ ~send[i])) \in BOOLEAN
      BY Zenon
    <3>3. send' \in [Stream -> BOOLEAN]
      BY Zenon, <2>1, <3>1
    <3>4. keyReq' \in [Stream -> BOOLEAN]
      BY Zenon, <2>1, <3>2
    <3> QED
      BY <2>1, <3>3, <3>4
  <2>4. SendInRange'
    BY <2>1, <2>2
  <2>5. GapIsRequested'
    <3> SUFFICES ASSUME NEW i \in Stream, send'[i], gap'[i], ~failedKey'
                 PROVE  keyReq'[i]
      OBVIOUS
    <3>1. CASE send[i]
      BY <2>1, <3>1
    <3>2. CASE ~send[i]
      BY <2>1, <3>2
    <3> QED
      BY <3>1, <3>2
  <2> QED
    BY <2>1, <2>3, <2>4, <2>5
<1>7. ASSUME NEW asked \in SUBSET Stream, EncodeFail(asked) PROVE KeyInv'
  <2>1. CASE SendKeyFrame(asked)
    BY <1>7, <2>1 DEF EncodeFail, ClearRequests, Nowhere
  <2>2. CASE ~SendKeyFrame(asked)
    BY <1>7, <2>2 DEF EncodeFail, ClearRequests
  <2> QED
    BY <2>1, <2>2
<1>8. ASSUME NEW asked \in SUBSET Stream, NEW out \in SUBSET Stream, NEW k \in BOOLEAN,
             Encode(asked, out, k)
      PROVE  KeyInv'
  <2> USE <1>8 DEF Encode, Encoded, ClearRequests
  <2>1. CASE k
    BY <2>1 DEF Nowhere
  <2>2. CASE ~k
    <3>1. keyReq' = keyReq /\ (failedKey' <=> failedKey)
      BY <2>2
    <3> QED
      BY <2>2, <3>1
  <2> QED
    BY <2>1, <2>2
<1>9. CASE UNCHANGED vars
  BY <1>1, <1>9 DEF vars
<1> QED
  BY <1>1, <1>2, <1>3, <1>4, <1>5, <1>6, <1>7, <1>8, <1>9
     DEF Next, RateRefused, EncodeUninitialized, EncodeDrop, Unchanged

\* A stream that is sent with a gap has its key frame request pending.
THEOREM GapRequested == Spec => []GapIsRequested
<1>1. KeyInv => GapIsRequested
  BY DEF KeyInv
<1> QED
  BY <1>1, InitKeyInv, NextKeyInv, PTL DEF Spec

\* Delta frames are delivered to receivers that can decode them.
THEOREM DeltaDecodable == Spec => []DeltaOnlyWithoutGap
<1>1. KeyInv /\ DeltaOnlyWithoutGap /\ [Next]_vars => DeltaOnlyWithoutGap'
  <2> SUFFICES ASSUME KeyInv, DeltaOnlyWithoutGap, [Next]_vars
               PROVE  DeltaOnlyWithoutGap'
    OBVIOUS
  <2>1. ASSUME to' = {} PROVE DeltaOnlyWithoutGap'
    BY <2>1 DEF DeltaOnlyWithoutGap
  <2>2. ASSUME NEW asked \in SUBSET Stream, NEW out \in SUBSET Stream,
               NEW k \in BOOLEAN, Encode(asked, out, k)
        PROVE  DeltaOnlyWithoutGap'
    <3> USE <2>2 DEF Encode, Encoded, KeyInv, ShapeOK, SendInRange, GapIsRequested,
                     DeltaOnlyWithoutGap, SendKeyFrame
    <3>1. CASE k
      BY <3>1
    <3>2. CASE ~k
      BY <3>2
    <3> QED
      BY <3>1, <3>2
  <2>3. CASE UNCHANGED vars
    BY <2>3 DEF vars, history, DeltaOnlyWithoutGap
  <2> QED
    BY <2>1, <2>2, <2>3
       DEF Next, Return, RegisterEncodeCompleteCallback, Release, InitEncode,
           InitAndSetControlSettings, RateRefused, Pause, SetRates, EncodeUninitialized, EncodeDrop, EncodeFail
<1> QED
  BY <1>1, InitKeyInv, NextKeyInv, PTL DEF Spec

\* An initialised encoder has open contexts.
THEOREM ContextsOpen == Spec => []InitedMeansOpen
<1>1. InitedMeansOpen /\ [Next]_vars => InitedMeansOpen'
  <2> SUFFICES ASSUME InitedMeansOpen, [Next]_vars PROVE InitedMeansOpen'
    OBVIOUS
  <2> USE DEF InitedMeansOpen
  <2>1. CASE UNCHANGED <<inited, ctx, n>>
    BY <2>1
  <2>2. CASE Emptied
    BY <2>2 DEF Emptied
  <2>3. ASSUME NEW k \in 1 .. MaxStreams, Sized(k),
               ~inited' \/ ctx' = "open"
        PROVE  InitedMeansOpen'
    BY <2>3 DEF Sized
  <2> QED
    BY <2>1, <2>2, <2>3
       DEF Next, vars, coder, Unchanged, RegisterEncodeCompleteCallback, Release,
           InitEncode, InitAndSetControlSettings, Blank, RateRefused, Pause, SetRates,
           EncodeUninitialized,
           EncodeDrop, EncodeFail, Encode, Encoded
<1> QED
  BY <1>1, InitKeyInv, PTL DEF Spec

\* The rest of the types: the flags, and the sizes and results.
FlagsOK == inited \in BOOLEAN /\ callback \in BOOLEAN /\ fresh \in BOOLEAN
           /\ failedKey \in BOOLEAN /\ key \in BOOLEAN

SizesOK ==
  /\ n \in 0 .. MaxStreams
  /\ ctx \in {"none", "blank", "open"}
  /\ result \in {"none", "ok", "error", "memory", "parameter", "uninitialized", "overshoot"}
  /\ to \subseteq Stream

LEMMA NextFlags == FlagsOK /\ [Next]_vars => FlagsOK'
<1> SUFFICES ASSUME FlagsOK, [Next]_vars PROVE FlagsOK'
  OBVIOUS
<1> USE DEF FlagsOK, Return, Unchanged, coder, history
<1>1. CASE RegisterEncodeCompleteCallback
  BY Zenon, <1>1 DEF RegisterEncodeCompleteCallback
<1>2. CASE Release
  BY Zenon, <1>2 DEF Release, Emptied
<1>3. ASSUME NEW k \in 1 .. MaxStreams, InitEncode(k) PROVE FlagsOK'
  <2>1. CASE Return("parameter") /\ Unchanged
    BY Zenon, <2>1
  <2>2. CASE Emptied /\ UNCHANGED <<callback, keyReq, history>>
             /\ (Return("memory") \/ Return("parameter"))
    BY Zenon, <2>2 DEF Emptied
  <2>3. CASE Sized(k) /\ UNCHANGED callback /\ InitAndSetControlSettings
    BY Zenon, <2>3 DEF Sized, InitAndSetControlSettings, Blank
  <2>4. CASE Sized(k) /\ UNCHANGED callback /\ Blank /\ (Return("error") \/ Return("parameter"))
    BY Zenon, <2>4 DEF Sized, Blank
  <2> QED
    BY Zenon, <1>3, <2>1, <2>2, <2>3, <2>4 DEF InitEncode
<1>4. CASE RateRefused
  BY Zenon, <1>4 DEF RateRefused
<1>5. CASE Pause
  BY Zenon, <1>5 DEF Pause
<1>6. ASSUME NEW on \in SUBSET Stream, NEW low \in Stream, SetRates(on, low) PROVE FlagsOK'
  BY Zenon, <1>6 DEF SetRates
<1>7. CASE EncodeUninitialized \/ EncodeDrop
  BY Zenon, <1>7 DEF EncodeUninitialized, EncodeDrop
<1>8. ASSUME NEW asked \in SUBSET Stream, EncodeFail(asked) PROVE FlagsOK'
  BY Zenon, <1>8 DEF EncodeFail
<1>9. ASSUME NEW asked \in SUBSET Stream, NEW out \in SUBSET Stream, NEW k \in BOOLEAN,
             Encode(asked, out, k)
      PROVE  FlagsOK'
  BY Zenon, <1>9 DEF Encode, Encoded
<1>10. CASE UNCHANGED vars
  BY Zenon, <1>10 DEF vars
<1> QED
  BY Zenon, <1>1, <1>2, <1>3, <1>4, <1>5, <1>6, <1>7, <1>8, <1>9, <1>10 DEF Next

LEMMA NextSizes == SizesOK /\ [Next]_vars => SizesOK'
<1> SUFFICES ASSUME SizesOK, [Next]_vars PROVE SizesOK'
  OBVIOUS
<1> USE StreamsAssumption DEF SizesOK, Return, Unchanged, coder, history
<1>1. CASE RegisterEncodeCompleteCallback \/ Release
  BY <1>1 DEF RegisterEncodeCompleteCallback, Release, Emptied
<1>2. ASSUME NEW k \in 1 .. MaxStreams, InitEncode(k) PROVE SizesOK'
  BY <1>2 DEF InitEncode, Emptied, Sized, InitAndSetControlSettings, Blank
<1>3. CASE RateRefused \/ Pause \/ EncodeUninitialized \/ EncodeDrop
  BY <1>3 DEF RateRefused, Pause, EncodeUninitialized, EncodeDrop
<1>4. ASSUME NEW on \in SUBSET Stream, NEW low \in Stream, SetRates(on, low) PROVE SizesOK'
  BY <1>4 DEF SetRates
<1>5. ASSUME NEW asked \in SUBSET Stream, EncodeFail(asked) PROVE SizesOK'
  BY <1>5 DEF EncodeFail
<1>6. ASSUME NEW asked \in SUBSET Stream, NEW out \in SUBSET Stream, NEW k \in BOOLEAN,
             Encode(asked, out, k)
      PROVE  SizesOK'
  BY <1>6 DEF Encode, Encoded
<1>7. CASE UNCHANGED vars
  BY <1>7 DEF vars
<1> QED
  BY <1>1, <1>2, <1>3, <1>4, <1>5, <1>6, <1>7 DEF Next

\* The members and the history keep their types, for every number of streams:
\* no call leaves a vector indexed beyond the streams (vp8_impl.cc:346-613).
THEOREM EncoderTypes == Spec => []TypeOK
<1>1. Init => FlagsOK
  BY Zenon DEF Init, FlagsOK
<1>2. Init => SizesOK
  BY StreamsAssumption DEF Init, SizesOK
<1>3. KeyInv /\ FlagsOK /\ SizesOK => TypeOK
  BY Zenon DEF KeyInv, ShapeOK, FlagsOK, SizesOK, TypeOK
<1> QED
  BY <1>1, <1>2, <1>3, InitKeyInv, NextKeyInv, NextFlags, NextSizes, PTL DEF Spec
=============================================================================
