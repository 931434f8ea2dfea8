----------------------------- MODULE Vp8Decoder ------------------------------
(***************************************************************************)
(* VP8DecoderImpl (internals/vp8_impl.cc): the life of the libvpx context, *)
(* the gate that lets decoding start with a complete key frame only, and   *)
(* the counter of frames decoded from damaged references, which turns into *)
(* an error, that is a key frame request, past kVp8ErrorPropagationTh.     *)
(* What libvpx and the completion callback return is nondeterministic.     *)
(***************************************************************************)
EXTENDS Integers

CONSTANTS Th,      \* kVp8ErrorPropagationTh
          MaxCnt   \* bound on the counter, which frames without output raise, and
                   \* on shown, which stops there

ASSUME ThAssumption == Th \in Nat /\ MaxCnt \in Nat /\ Th < MaxCnt

VARIABLES
  inited,       \* inited_
  decoder,      \* decoder_ is not NULL
  feedback,     \* feedback_mode_
  callback,     \* decode_complete_callback_ is not NULL
  cnt,          \* propagation_cnt_
  keyRequired,  \* key_frame_required_
  result        \* what the last call returned; "limit" is the ERROR of the counter

\* History, read by no guard.
VARIABLES
  started,  \* libvpx decoded a complete key frame since the last InitDecode
  lost,     \* damage was noticed, and no complete key frame was decoded since
  rejected, \* libvpx failed on a complete key frame, and decoded none since
  shown,    \* frames returned as OK while lost, since the last error
  quiet     \* frames counted since the last error, up to Th

state   == <<inited, decoder, feedback, callback, cnt, keyRequired>>
history == <<started, lost, rejected, shown, quiet>>
vars    == <<state, result, history>>

Results == {"none", "ok", "no_output", "sli", "error", "limit", "memory",
            "parameter", "uninitialized"}

FlagsOK ==
  /\ inited \in BOOLEAN /\ decoder \in BOOLEAN
  /\ feedback \in BOOLEAN /\ callback \in BOOLEAN
  /\ keyRequired \in BOOLEAN
  /\ started \in BOOLEAN /\ lost \in BOOLEAN /\ rejected \in BOOLEAN

TypeOK ==
  /\ FlagsOK
  /\ cnt \in -1 .. MaxCnt
  /\ result \in Results
  /\ shown \in Nat
  /\ quiet \in 0 .. Th

Init ==
  /\ inited = FALSE /\ decoder = FALSE
  /\ feedback = FALSE /\ callback = FALSE
  /\ cnt = -1
  /\ keyRequired = TRUE
  /\ result = "none"
  /\ started = FALSE /\ lost = FALSE /\ rejected = FALSE
  /\ shown = 0 /\ quiet = 0

Frame == [key : BOOLEAN, complete : BOOLEAN, missing : BOOLEAN]
-----------------------------------------------------------------------------
(* Life cycle.                                                             *)

RegisterDecodeCompleteCallback ==
  /\ callback' = TRUE
  /\ result' = "ok"
  /\ UNCHANGED <<inited, decoder, feedback, cnt, keyRequired, history>>

\* Release: vpx_codec_destroy may fail, and then nothing changes.
Release ==
  \/ decoder /\ result' = "memory" /\ UNCHANGED <<state, history>>
  \/ /\ result' = "ok"
     /\ decoder' = FALSE /\ inited' = FALSE
     /\ UNCHANGED <<feedback, callback, cnt, keyRequired, history>>

\* InitDecode with the feedback mode fb (or none given): Release, then a new
\* context.
ReleaseFails == decoder /\ result' = "memory" /\ UNCHANGED <<state, history>>

ContextFails(fb) ==
  /\ feedback' = fb
  /\ decoder' = FALSE /\ inited' = FALSE
  /\ result' = "memory"
  /\ UNCHANGED <<callback, cnt, keyRequired, history>>

Restart(fb) ==
  /\ feedback' = fb
  /\ decoder' = TRUE /\ inited' = TRUE
  /\ result' = "ok"
  /\ started' = FALSE /\ lost' = FALSE /\ rejected' = FALSE
  /\ shown' = 0 /\ quiet' = 0
  /\ UNCHANGED callback

\* Mutant: the gate is not closed again.
BadInitDecode(fb) ==
  \/ ReleaseFails
  \/ ContextFails(fb)
  \/ Restart(fb) /\ cnt' = -1 /\ UNCHANGED keyRequired

InitDecode(fb) ==
  \/ ReleaseFails
  \/ ContextFails(fb)
  \/ Restart(fb) /\ cnt' = -1 /\ keyRequired' = TRUE
-----------------------------------------------------------------------------
(* Decode.                                                                 *)

Fresh(f) == f.key /\ f.complete
Loss(f)  == ~Fresh(f) /\ (~f.complete \/ f.missing)

\* Mutant: an error does not restart the count.
BadReset(n) == n

\* "Reset to avoid requesting key frames too often."
Reset(n) == IF n > 0 THEN 0 ELSE n

\* propagation_cnt_ after its update for frame f.
Counted(f) ==
  IF feedback THEN cnt
  ELSE IF Fresh(f) THEN -1
  ELSE IF cnt = -1 THEN (IF Loss(f) THEN 1 ELSE -1)
  ELSE cnt + 1

\* Call returns r, an error, with the counter at n.
Fail(r, n) ==
  /\ cnt' = n
  /\ result' = r
  /\ shown' = 0 /\ quiet' = 0

DecodeUninitialized ==
  /\ ~inited \/ ~callback
  /\ result' = "uninitialized"
  /\ UNCHANGED <<state, history>>

Ready == inited /\ callback

\* A length without a buffer
DecodeNoBuffer ==
  /\ Ready
  /\ Fail("parameter", Reset(cnt))
  /\ UNCHANGED <<inited, decoder, feedback, callback, keyRequired, started, lost,
                 rejected>>

\* Not a complete key frame, and one is required
DecodeRefused(f) ==
  /\ Ready /\ keyRequired /\ ~Fresh(f)
  /\ Fail("error", cnt)
  /\ UNCHANGED <<inited, decoder, feedback, callback, keyRequired, started, lost,
                 rejected>>

\* Frame f passes the gate.
Pass(f) ==
  /\ Ready
  /\ keyRequired => Fresh(f)
  /\ keyRequired' = FALSE
  /\ UNCHANGED <<inited, decoder, feedback, callback>>

\* ... and libvpx decodes it, which it does not before a key frame.
Accept(f) ==
  /\ Pass(f)
  /\ started \/ f.key
  /\ started' = (started \/ Fresh(f))
  /\ lost' = (~Fresh(f) /\ (lost \/ Loss(f)))
  /\ rejected' = (rejected /\ ~Fresh(f))

More(n) == IF n < Th THEN n + 1 ELSE n

\* libvpx fails to conceal the missing frames or to decode f.
DecodeFailed(f) ==
  /\ Pass(f)
  /\ Fail("error", Reset(Counted(f)))
  /\ lost' = (lost \/ Loss(f))
  /\ rejected' = (rejected \/ Fresh(f))
  /\ UNCHANGED started

\* The completion callback returns an error or, in feedback mode, a control call
\* fails.
DecodeUndelivered(f) == Accept(f) /\ Fail("error", Reset(Counted(f)))

\* libvpx has no image to show, or the buffer pool is exhausted.
DecodeHidden(f) ==
  /\ Accept(f)
  /\ Counted(f) <= MaxCnt
  /\ cnt' = Counted(f)
  /\ result' = "no_output"
  /\ quiet' = More(quiet)
  /\ shown' = IF Fresh(f) THEN 0 ELSE shown

\* The frame is delivered and accepted.
Shown(f) ==
  /\ cnt' = Counted(f)
  /\ result' = "ok"
  /\ quiet' = More(quiet)
  /\ shown' = IF ~lost' THEN 0 ELSE IF shown < MaxCnt THEN shown + 1 ELSE shown

\* Mutant: off by one at the threshold.
BadDecodeShown(f) ==
  /\ ~feedback
  /\ Accept(f)
  /\ \/ Counted(f) > Th + 1 /\ Fail("limit", 0)
     \/ Counted(f) <= Th + 1 /\ Shown(f)

\* "Check Vs. threshold"
DecodeShown(f) ==
  /\ ~feedback
  /\ Accept(f)
  /\ \/ Counted(f) > Th /\ Fail("limit", 0)
     \/ Counted(f) <= Th /\ Shown(f)

\* In feedback mode an incomplete key frame asks for another, and a frame that
\* libvpx reports as corrupted for a slice loss indication.
DecodeFeedback(f) ==
  /\ feedback
  /\ Accept(f)
  /\ \/ f.key /\ ~f.complete /\ Fail("error", cnt)
     \/ /\ f.key => f.complete
        /\ result' \in {"ok", "sli"}
        /\ UNCHANGED <<cnt, shown, quiet>>

Decode ==
  \/ DecodeUninitialized
  \/ DecodeNoBuffer
  \/ \E f \in Frame : \/ DecodeRefused(f) \/ DecodeFailed(f) \/ DecodeUndelivered(f)
                      \/ DecodeHidden(f) \/ DecodeShown(f) \/ DecodeFeedback(f)

Next ==
  \/ RegisterDecodeCompleteCallback
  \/ Release
  \/ \E fb \in BOOLEAN : InitDecode(fb)
  \/ Decode

Spec == Init /\ [][Next]_vars
-----------------------------------------------------------------------------
(* Properties.                                                             *)

\* The gate is open only if libvpx was given a complete key frame since the last
\* successful InitDecode, whatever failed InitDecode, Release and Decode calls
\* came between, and decoded it or refused it ("Always start with a complete key
\* frame.", vp8_impl.cc:1220, 1262).
GateMeansKey == Ready /\ ~keyRequired => started \/ rejected

\* An initialised decoder has its context: Decode uses decoder_ unchecked.
InitedHasContext == inited => decoder

\* The two together: whatever failed before, a decoder that is initialised can
\* decode, and begins with a key frame.
ReadyToDecode == InitedHasContext /\ GateMeansKey

\* Without feedback at most Th frames decoded from a damaged reference are
\* returned as good between two errors, that is key frame requests, unless libvpx
\* failed on a key frame.
BoundedPropagation == inited /\ ~feedback => shown <= Th \/ rejected

\* ... with no exception: "Restrict error propagation using key frame requests.
\* ... Reset on a key frame refresh." (vp8_impl.cc:1277-1279).  A key frame that
\* libvpx fails on refreshes nothing.
PropagationRestricted == inited /\ ~feedback => shown <= Th

\* The counter asks for a key frame only when at least Th frames were decoded
\* since the last error of any kind: key frames are not requested too often.
RequestsApart ==
  [][result' = "limit" => quiet >= Th]_vars
=============================================================================
