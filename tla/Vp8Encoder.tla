----------------------------- MODULE Vp8Encoder ------------------------------
(***************************************************************************)
(* VP8EncoderImpl (internals/vp8_impl.cc) with its simulcast streams: which *)
(* streams are sent, which of them wait for a key frame, and what reaches  *)
(* the completion callback.  libvpx encodes every frame for every stream,  *)
(* sent or not; a stream that is turned on again has a gap in what its     *)
(* receiver got, and must start with a key frame.                          *)
(***************************************************************************)
EXTENDS Naturals

CONSTANT MaxStreams   \* kMaxSimulcastStreams

ASSUME StreamsAssumption == MaxStreams \in Nat \ {0}

Stream == 0 .. MaxStreams - 1

VARIABLES
  inited,    \* inited_
  n,         \* encoders_.size()
  ctx,       \* the libvpx contexts: none, resized but blank, or open
  callback,  \* encoded_complete_callback_ is not NULL
  send,      \* send_stream_
  keyReq,    \* key_frame_request_
  result     \* what the last call returned

\* History, read by no guard except fresh, which is libvpx's own state.
VARIABLES
  fresh,     \* libvpx has not encoded a frame since it was opened
  gap,       \* a frame of the stream was encoded and not delivered since the
             \* last key frame of the stream that was delivered
  failedKey, \* an Encode that should have made a key frame failed since the last
  to,        \* the streams whose frame the last call delivered
  key        \* ... and whether it was a key frame

coder   == <<inited, n, ctx, callback, send, keyReq>>
history == <<fresh, gap, failedKey>>
vars    == <<coder, history, result, to, key>>

TypeOK ==
  /\ inited \in BOOLEAN /\ callback \in BOOLEAN
  /\ n \in 0 .. MaxStreams
  /\ ctx \in {"none", "blank", "open"}
  /\ send \in [Stream -> BOOLEAN] /\ keyReq \in [Stream -> BOOLEAN]
  /\ result \in {"none", "ok", "error", "memory", "parameter", "uninitialized",
                 "overshoot"}
  /\ fresh \in BOOLEAN /\ failedKey \in BOOLEAN /\ key \in BOOLEAN
  /\ gap \in [Stream -> BOOLEAN]
  /\ to \subseteq Stream

Nowhere == [i \in Stream |-> FALSE]

Init ==
  /\ inited = FALSE /\ callback = FALSE
  /\ n = 0 /\ ctx = "none"
  /\ send = Nowhere /\ keyReq = Nowhere
  /\ result = "none"
  /\ fresh = FALSE /\ gap = Nowhere /\ failedKey = FALSE
  /\ to = {} /\ key = FALSE

\* The call returns r and delivers nothing.
Return(r) == result' = r /\ to' = {} /\ key' = FALSE

Unchanged == UNCHANGED <<coder, history>>
-----------------------------------------------------------------------------
(* Life cycle.                                                             *)

RegisterEncodeCompleteCallback ==
  /\ callback' = TRUE
  /\ Return("ok")
  /\ UNCHANGED <<inited, n, ctx, send, keyReq, history>>

\* Release empties everything except key_frame_request_, and reports a context
\* that libvpx could not destroy.
Emptied == inited' = FALSE /\ n' = 0 /\ ctx' = "none" /\ send' = Nowhere

Release ==
  /\ Emptied
  /\ Return("ok") \/ (ctx # "none" /\ Return("memory"))
  /\ UNCHANGED <<callback, keyReq, history>>

\* The vectors get k elements.  A single stream is sent; of several, those with
\* a bitrate are turned on (SetStreamState), and the highest not before
\* SetRateAllocation.
Sized(k) ==
  /\ n' = k
  /\ \E on \in SUBSET {i \in Stream : i < k - 1} :
       /\ send'   = [i \in Stream |-> i \in on \/ (k = 1 /\ i = 0)]
       /\ keyReq' = [i \in Stream |-> i \in on]
  /\ gap' = Nowhere /\ failedKey' = FALSE

Blank == inited' = FALSE /\ ctx' = "blank" /\ fresh' = FALSE

InitAndSetControlSettings ==
  \/ Blank /\ Return("uninitialized")
  \/ inited' = TRUE /\ ctx' = "open" /\ fresh' = TRUE /\ Return("ok")

\* Mutant: a failed initialisation leaves the encoder initialised.
BadInitEncode(k) ==
  /\ Sized(k)
  /\ \/ inited' = TRUE /\ ctx' = "blank" /\ fresh' = FALSE /\ Return("error")
     \/ InitAndSetControlSettings
  /\ UNCHANGED callback

InitEncode(k) ==
  \/ Return("parameter") /\ Unchanged
  \/ /\ ctx # "none" /\ Emptied /\ Return("memory")
     /\ UNCHANGED <<callback, keyReq, history>>
  \/ /\ k > 1 /\ Emptied /\ Return("parameter")  \* ValidSimulcastResolutions
     /\ UNCHANGED <<callback, keyReq, history>>
  \/ /\ Sized(k)
     /\ \/ InitAndSetControlSettings
        \/ Blank /\ (Return("error") \/ Return("parameter"))
     /\ UNCHANGED callback
-----------------------------------------------------------------------------
(* SetRateAllocation.                                                      *)

RateRefused ==
  /\ \/ ~inited /\ Return("uninitialized")
     \/ inited /\ (Return("error") \/ Return("parameter"))
  /\ Unchanged

\* A sum of 0 pauses the encoder.
Pause ==
  /\ inited
  /\ send' = Nowhere
  /\ Return("ok")
  /\ UNCHANGED <<inited, n, ctx, callback, keyReq, history>>

\* The streams SetStreamState is called for when the streams in on get a bitrate:
\* from the highest down to low, a single stream only when it gets one.
RatedStreams(on, low) ==
  {i \in Stream : low <= i /\ i < n /\ (n = 1 => i \in on)}

\* Mutant: SetStreamState without the key frame request.
BadSetRates(on, low) ==
  /\ inited
  /\ low < n
  /\ send' = [i \in Stream |-> IF i \in RatedStreams(on, low) THEN i \in on ELSE send[i]]
  /\ Return("ok") \/ Return("error")
  /\ UNCHANGED <<inited, n, ctx, callback, keyReq, history>>

\* The streams get their bitrates from the highest down, with SetStreamState
\* for each; libvpx may refuse the configuration of stream low.
SetRates(on, low) ==
  /\ inited
  /\ low < n
  /\ LET set == RatedStreams(on, low)
     IN  /\ send'   = [i \in Stream |-> IF i \in set THEN i \in on ELSE send[i]]
         /\ keyReq' = [i \in Stream |-> keyReq[i] \/ (i \in set \cap on /\ ~send[i])]
  /\ Return("error") \/ (low = 0 /\ Return("ok"))
  /\ UNCHANGED <<inited, n, ctx, callback, history>>
-----------------------------------------------------------------------------
(* Encode, with the streams for which the caller asks for a key frame.     *)

EncodeUninitialized ==
  /\ ~inited \/ ~callback
  /\ Return("uninitialized")
  /\ Unchanged

Ready == inited /\ callback

\* The temporal layers drop the frame.
EncodeDrop == Ready /\ Return("ok") /\ Unchanged

\* Mutant: the pending requests are not looked at.
BadSendKeyFrame(asked) == \E i \in Stream : i < n /\ send[i] /\ i \in asked

SendKeyFrame(asked) == \E i \in Stream : i < n /\ send[i] /\ (keyReq[i] \/ i \in asked)

\* std::fill(key_frame_request_, false) when the flags are set to FORCE_KF
ClearRequests(asked) == keyReq' = IF SendKeyFrame(asked) THEN Nowhere ELSE keyReq

\* vpx_codec_enc_config_set or vpx_codec_encode fails.
EncodeFail(asked) ==
  /\ Ready
  /\ ClearRequests(asked)
  /\ failedKey' = (failedKey \/ SendKeyFrame(asked))
  /\ Return("error")
  /\ UNCHANGED <<inited, n, ctx, callback, send, fresh, gap>>

\* GetEncodedPartitions: libvpx made a frame for the streams in out, and those
\* that are sent go to the callback.
Encoded(asked, out, k) ==
  /\ Ready
  /\ out \subseteq {i \in Stream : i < n}
  /\ fresh \/ SendKeyFrame(asked) => k
  /\ k => out = {i \in Stream : i < n}   \* a key frame is not dropped
  /\ fresh' = FALSE
  /\ failedKey' = (failedKey /\ ~k)
  /\ to' = {i \in out : send[i]} /\ key' = k
  /\ \/ result' = "ok"
     \/ result' = "overshoot" /\ \E i \in Stream : i < n /\ send[i] /\ i \notin out
  /\ gap' = [i \in Stream |-> IF i \notin out THEN gap[i]
                              ELSE ~send[i] \/ (gap[i] /\ ~k)]
  /\ UNCHANGED <<inited, n, ctx, callback, send>>

Encode(asked, out, k) == Encoded(asked, out, k) /\ ClearRequests(asked)

Next ==
  \/ RegisterEncodeCompleteCallback \/ Release
  \/ \E k \in 1 .. MaxStreams : InitEncode(k)
  \/ RateRefused \/ Pause
  \/ \E on \in SUBSET Stream, low \in Stream : SetRates(on, low)
  \/ EncodeUninitialized \/ EncodeDrop
  \/ \E asked \in SUBSET Stream :
       \/ EncodeFail(asked)
       \/ \E out \in SUBSET Stream, k \in BOOLEAN : Encode(asked, out, k)

Spec == Init /\ [][Next]_vars
-----------------------------------------------------------------------------
(* Properties.                                                             *)

\* Encode and SetRateAllocation use encoders_[0] once inited_ is set: whatever
\* InitEncode failed half way, the contexts are open then.
InitedMeansOpen == inited => ctx = "open" /\ n > 0

\* A stream that is sent with a gap has its key frame request pending, through
\* pauses, partial SetRateAllocation failures and key frames made for another
\* stream (which clear every request); unless a key frame failed.
GapIsRequested ==
  \A i \in Stream : send[i] /\ gap[i] => keyReq[i] \/ failedKey

\* The receiver of a stream gets a delta frame only if it got every frame since
\* the stream's last key frame, unless a key frame failed since.
DeltaOnlyWithoutGap == ~key => \A i \in to : ~gap[i] \/ failedKey

\* ... with no exception: "Need a key frame if we have not sent this stream
\* before." (vp8_impl.cc:317)
KeyBeforeDelta == ~key => \A i \in to : ~gap[i]
=============================================================================
