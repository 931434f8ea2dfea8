# WebRtc.NET: a verification development

WebRtc.NET wraps libwebrtc for .NET. A C++ `Conductor` owns a peer connection,
a C++/CLI `ManagedConductor` gives it to managed code, and a Windows Forms demo
runs a WebSocket signaling server whose sessions each own a conductor. The
library also carries its own copy of libwebrtc's VP8 encoder and decoder
wrappers. This directory models the parts of that code whose correctness is a
question of *order*: who runs between two steps, which call fails half way,
which message overtakes which.

File names below are relative to `src/`: `WebRTCServer.cs` and `MainForm.cs` are
in `WebRtc.NET.Demo/`, the native code is in `WebRtc.NET/src/`, and
`vp8_impl.cc` is in `WebRtc.NET/src/internals/`.

## Inventory

| component | state | operations | interacts with |
|---|---|---|---|
| signaling server (`WebRTCServer.cs`) | `UserList`, `Streams`, `ClientLimit`, per session a cancellation source and a conductor | OnConnected, OnDisconnect, OnReceive (offer, onicecandidate), Dispose | Fleck's socket threads, one worker task per session, the UI thread |
| conductor (`conductor.cc/.h`) | factory, peer connection, capturer, data channel, TURN server | InitializePeerConnection, CreateOffer, OnOfferReply, OnOfferRequest, AddIceCandidate, data channels, ProcessMessages, RunTurnServer | libwebrtc's proxies: its calls run on the thread that created the peer connection |
| managed wrapper (`managed.cpp`) | the native pointer, delegates and their GC handles | one method per conductor method, Dispose, finalizer | the server, the form |
| demo form (`MainForm.cs`) | server object, virtual camera timer, TURN cancellation source | start and stop of the server, timer tick, client limit, TURN check box | sessions' conductors, straight from `Streams` |
| VP8 decoder (`vp8_impl.cc`) | context, key frame gate, propagation counter | InitDecode, Decode, Release | libvpx, the caller's key frame requests |
| VP8 encoder (`vp8_impl.cc`) | contexts, `send_stream_`, `key_frame_request_` | InitEncode, SetRateAllocation, Encode, Release | libvpx, the completion callback |
| JPEG/colour wrapper (`TJpeg.cpp`) | turbojpeg handles, growing buffers, the scaling factor of the last call | encode, decode, colour conversion, ResetScale, dispose | the form |
| image filters (`TJpeg.cpp`, namespace Filters) | an input and an output image with an ownership flag each, a pinned buffer | links input to output, Apply of each subclass, Dispose, finalizer | leptonica, managed arrays |
| virtual camera and barcode (`defaults.cc`, `yuvframegenerator.cc`) | frame buffer, generator, the conductor's current size | SetVideoCapturer, the capturer's constructor and destructor, PushFrame, barcode | the conductor's settings, the form |
| previews (`MainForm.cs`) | per side an array, a bitmap over it, its pinned handles and a picture box | OnRenderRemote, OnRenderLocal, FormClosing | native render threads, the UI thread |
| browser client (`web/rtc_main.js`) | socket, peer connection, streams, candidates, timers | connect, startStream, message, candidate and close handlers | the server |
| defaults, link glue (`defaults.*`, `main.cc`), `Util.cs` | none | constants, SSL start-up, a debugging dump nothing calls | - |

What makes each correct, in a line: the *server* ends every session whose
connection or server goes, never lets go of one that still runs, and tells the
browser the answer before the candidates; the *conductor* can be initialised
after a failure, owns what it must delete, and points to no camera that is gone;
the *TURN control* has one listener, which "off" reaches; the *previews* show the
array that frames are decoded into, and their callbacks return; the *decoder*
starts at a key frame and limits how long damage is shown; the *encoder* restarts
a stream with a key frame; the *JPEG wrapper* never writes past a buffer sized for
another image, and scales by the nearest factor; the *filters* destroy an image
once; the *camera* sends frames that fit its buffer and a barcode that can be
read; the *client* keeps one connection attempt apart from the next. The hard
behaviours are listed line by line as `hazards` in `PROJECT.json`.

`include/`, `packages/`, `gn/`, `web/adapter.js`, the release binaries and the
designer file are vendored or generated, and are left aside. They are nearly all
of the repository: about 195,000 of its 197,000 lines of C and C++ are headers of
libwebrtc, libjpeg-turbo and leptonica, whose implementations are not here. Of the
6,100 lines in the files that hold the repository's own logic the definitions
below stand for about 3,200. The repository has no tests.

## Modules

| module | what it is |
|---|---|
| `SignalingServer`, `SignalingServer_proofs` | the server, the workers of its sessions, and the life of their conductors |
| `SessionPromise` | what a session promises, without threads: the abstract specification |
| `MCSignalingServer` | symmetry sets for TLC |
| `BrowserClient`, `BrowserClient_proofs` | the script of the page, composed with `SessionPromise` as its server |
| `TurnControl`, `TurnControl_proofs` | the TURN check box against the tasks it starts |
| `Conductor`, `Conductor_proofs` | the native conductor: initialisation, ownership, destructor |
| `Preview`, `Preview_proofs` | the render callbacks against the UI thread |
| `Vp8Decoder`, `Vp8Decoder_proofs` | the decoder wrapper |
| `Vp8Encoder`, `Vp8Encoder_proofs` | the encoder wrapper |
| `FilterChain` | the links of the image filters |
| `TurboJpeg` | the JPEG wrapper's buffers and scaling factor |
| `VirtualCamera` | the three sizes of the virtual camera, and the barcode |
| `MCImages`, `Images_proofs` | the last three as parts of one specification, a behaviour of which follows one part; the proofs about all three |

The chain from the browser to the worker is closed in two halves:
`SignalingServer` is shown to implement `SessionPromise`, and `BrowserClient` is
checked and proved against any server that does.

Operators whose name begins with `Bad` are mutants: the definition of the same
name as a plausible bug would have it. No specification uses them; `PROJECT.json`
says which property each of them breaks. Variables called *history* in a comment
record what happened for the properties; no guard of the code's model reads them
except where a section below says so.

### SignalingServer

Four kinds of thread, each with its own program counter:

| variable | thread | code |
|---|---|---|
| `rpc[c]`, `rses[c]` | Fleck's read loop of connection c; callbacks of one connection run one at a time | `OnConnected`, `OnReceive` |
| `dpc[c]`, `dses[c]` | the close or error callback of c, which can run at the same time as a message | `OnDisconnect` |
| `wpc[s]` | the worker task of session s, and the signaling thread of its conductor | the lambda of `Task.Factory.StartNew` |
| `upc`, `uses`, `todo` | the UI thread | timer tick, `ClientLimit`, `Dispose` |

`userList`, `streams` and `clientLimit` are the server's members; `owner`,
`cancel`, `go` and `hooked` belong to a session; `cd` is the native conductor
with its peer connection (`live` once constructed, `peer` once initialised, then
the stages of the offer, and `freed` once deleted); `sent` is what the browser
was sent. Each access to a concurrent dictionary is a step; between two of them
any other thread may run, which is where the code's checks go stale.

A call on a peer connection is marshalled by libwebrtc's proxy to the thread
that created it. So `CallRemote` only parks the read loop (`remoteCall`), and
`ServeRemote` finishes the call, which the worker can do only inside
`ProcessMessages` (`pump`, `final`). `PumpEnd` needs that nobody waits, since the
message loop handles what is queued before it looks at the clock; a call that
arrives after the last turn is never served.

A call on a conductor that has been deleted has no defined outcome: `managed.cpp`
dereferences `cd`, which the finalizer sets to `NULL` after the deletion. The
model allows both outcomes a build can show, an exception that the caller
swallows and the end of the process (`Crash`, `alive`).

### Vp8Decoder

`inited`, `decoder`, `feedback`, `callback`, `cnt` and `keyRequired` are the
members; a frame is key or not, complete or not, preceded by missing frames or
not. What libvpx and the callback return is chosen freely, except that libvpx
decodes nothing before its first key frame (complete or not). `Pass` is the gate of the code, `Accept`
a frame that passed and that libvpx decoded, `DecodeFailed` one that libvpx
failed on. The variables `started`, `lost`, `rejected`, `shown` and `quiet` are
history: they record what the caller and libvpx saw, and the guards that read
`started` are libvpx's.

### Vp8Encoder

`inited`, `n`, `ctx`, `callback`, `send` and `keyReq` are the members. libvpx
encodes every stream of every frame, sent or not, and its references move on
even while a stream is off; `gap[i]` records that a frame of stream i was encoded
and not delivered since the stream's last delivered key frame. Assumed of libvpx: a key frame that
was forced is produced for every stream, and a failed `vpx_codec_encode` leaves
the references as they were. Abstracted: bitrates (a stream has one or not),
quantizers, picture ids, reference picture selection. `UpdateCodecFrameSize` is
never called, and the down-scale request of `SetRateAllocation` (lines 247-266) is
dead code: `rc_resize_allowed` is 0 whenever there is one stream.

### TurnControl

`checked`, `enabled` and `turnCancel` are the check box and the field of the form,
`tpc[t]` a task, `stop[t]` its local token, `port` who holds the UDP port. The
task assigns the field `turnCancel` and then reads its token back *from the field*
(`AssignSource`, `ReadToken`), so another thread can come between; clearing the box
is `Cancel` and, in a later step, `turnCancel = null` (`UncheckCancels`,
`UncheckClears`), or finds the field still null (`UncheckMisses`). A start fails
because the port is taken (`Refuse`) or because the auth file does not load
(`FailAuth`): then the socket that was bound is left to nobody (`Leaked`).

### Conductor

One thread makes the calls and runs the observers' callbacks; the UI thread pushes
frames, in two steps (`UiTests`, `PushFrame`) between which the destructor can
run. `virtual` and `device` are ledgers of the cameras: owned by the conductor,
by the video source, freed, or lost. `stage` is the order of the destructor:
release of the peer connection, which frees the cameras, `DeletePeerConnection`,
the members. `ops` are the description operations that libwebrtc has accepted;
their results come in the order they were asked for, and `OnSuccess` makes the
next one (set the local description, create an answer). `handles` are the
delegates that `managed.cpp` keeps alive.

### Preview

`pc[t]` is a render callback, `lock` the monitor of a picture box, `guest` the
callback whose `Invoke` the UI thread runs. Arrays are numbered as they are
allocated; `bitmap` and `box` hold the array they lie over, so that "the box
shows the frames" is an equation. `OnRenderLocal` tests `remoteImg` where it means
`localImg` (`MainForm.cs:109`), and makes a bitmap and a pinned handle for every
frame until a remote one was shown; `MaxPins` caps that count and nothing else.
`tjDestroy` in `FormClosing` is not under a lock (`CloseFrees`).

### FilterChain

A filter points to two PIX and has a flag for each that says whether it destroys
it. An address is an element of `Pix` and may be allocated again after it was
destroyed, which is how a stale pointer would come to point to a stranger. `Apply`
stands for the subclasses that allocate their result, `ApplyInPlace` for those
that draw into the input (`Painter`), `ApplyFails` for either that returns null.
Mutual links (f to g and g to f) and a filter linked to itself are allowed, as
they are in the code.

### TurboJpeg

An image is a size, a buffer the number of bytes allocated for it, and factors are
eighths, as in libjpeg-turbo. `best` and `last` are `pBestFactor`, `lwidth` and
`lheight`. `want` and `over` (history) record for which desired factor, and over
which older one, the factor in hand was chosen. `Turn` is one turn of the loop
over turbojpeg's list, `Scan` the loop and `Select` its result. The calls are in two
groups, those that only fill buffers (`BufferNext`) and those that scale (`ScaleNext`);
`Spec` interleaves both.

### VirtualCamera

The three sizes are the conductor's, the buffer's (set when the capturer is made)
and the generator's (set at the first frame with a barcode). The barcode goes from
the value to digits, check digit and bars, each as the code computes it; the
property reads it back with a reader written from the definition of EAN-8. The
elapsed time is split at 2^31 because the code casts it to `int32_t`.

### BrowserClient

The script's globals hold the attempt k they belong to. Callbacks run one at a
time, and an attempt's callbacks may come while the next attempt runs. Sockets are
ordered in both directions, and deliver what the server sent while they are open.
`Server` is `INSTANCE SessionPromise`, with one session per attempt: what the
client needs of the server is its promise and nothing else. `Drop` is a connection
that breaks, `Fails` an error callback, which closes the socket. `ondatachannel`
is left out: this server makes no channel.

## Runs

| run | module | instance | question |
|---|---|---|---|
| `server_session` | MCSignalingServer | 1 connection, 2 sessions, limit 0 or 1, 2 candidates | can a connection have two live sessions; what is the browser sent; which interleavings leave an entry behind? |
| `server_stop` | MCSignalingServer | 1 connection, 1 session, camera and Dispose | who deletes a conductor and when; does every session end; is the promise kept? |
| `server_limit` | MCSignalingServer | 2 connections, limit 1 | violation: `NeverOverLimit` |
| `browser` | BrowserClient | 2 attempts, 2 candidates a side | do two attempts share anything through the globals; do the button and the intervals recover? |
| `turn` | TurnControl | 3 tasks | who holds the port, which server can no longer be stopped? |
| `conductor` | Conductor | 2 devices, 2 channels, 2 operations | what is lost after failures; what dangles while the UI thread pushes frames? |
| `preview` | Preview | 2 remote threads, 1 local | does a box show what is decoded; does every callback return; when is a freed decoder used? |
| `images` | MCImages | 2 filters, 2 addresses, 1 buffer; 3 image sizes, 3 widths, 2 scales; 3 camera sizes, 8 times | double destruction; buffers and factors of earlier calls; sizes that changed |
| `vp8_decoder` | Vp8Decoder | threshold 3, counter to 6 | gate, context, counter |
| `vp8_decoder_refresh` | Vp8Decoder | the same | violation: `PropagationRestricted` |
| `vp8_encoder` | Vp8Encoder | up to 3 streams | contexts, requests, what is delivered |
| `vp8_encoder_key` | Vp8Encoder | 1 stream | violation: `KeyBeforeDelta` |

Type invariants are theorems, so the runs do not check them again; those of
`TurboJpeg` and `VirtualCamera` are conjuncts of `CallsSound` and `CameraSound`.

### Bounds

*Server.* `Session` bounds the sessions ever created; an offer waits when it is
used up. Sessions of different connections share nothing but `UserList` and
`ClientLimit`, so one connection with two sessions shows the interactions there
are inside a connection. `Limits` of {0, 1} lets the limit fall below the one
connection between its opening and its offer; two connections that compete for one
place are `server_limit`. `MaxCand` of 1 or 2 is enough for a candidate before and
after any other event. `MayStop` and `VirtualCam` switch the UI thread's two
disturbing operations off where a run does not need them. Every safety property of
the two passing runs is also proved, for any number of connections and sessions.

*Browser.* Two attempts are a connection and the one after it; `MaxIce` 2 gives a
candidate before and after the description is set. *TURN.* Three tasks are a
server that was missed, one that is stopped and one that is started after.
*Conductor.* Two devices are one lost and one opened after it, two channels one
replaced by the other; an applied offer is two operations, the most the demo has
under way. *Preview.* Two sessions share the remote box, and `MaxPins` 2 tells one
handle from more.

*Images.* The parts share no state, no call of one reaches another and no property
is about two of them; interleaving them would multiply the states and show
nothing. So `MCImages` chooses one part at the start of a behaviour (filters, JPEG
buffers, JPEG scaling, camera) and runs it alone; the proofs are about each module's
own `Spec`, all calls of the JPEG wrapper interleaved, and reach the run's `ImagesSpec`
because it implies the three (`PartsSpec`). Two filters are enough for every pair a link can join, and two addresses
for one that is reused while another is still in use. The image sizes are such
that none contains the next, so that every buffer can be too short in one
direction; the widths lie above the image, at it and near 1/1, where the
comparison with a stale factor goes wrong. The elapsed times are the borders: 0,
the last value of seven digits and the first of eight, the last of an `int32_t`,
and times after it wrapped.

*Codec.* `Th` is 30 in the code; 3 leaves room for a first loss, a middle and the
threshold, and `MaxCnt` only has to exceed it: frames without output raise the
counter past `Th`. `kMaxSimulcastStreams` is 4; three streams have a lowest, a
middle and a highest one.

Deadlock checking is on for the codec runs, which can always be called again. It is
off elsewhere, because these systems may stop: the browser leaves for good, the
user stops the server or closes the form, the process dies, the tasks, attempts or
sessions of the instance are used up.

### Fairness

*Server* (`FairSpec`). Each thread with work to do runs: weak fairness of the
read loop, of `OnDisconnect`, of `OnClose`, of a worker and of the rest of
`Dispose`. The task is `LongRunning`, so it has a thread of its own, and the
socket callbacks run on the thread pool. Strong fairness is assumed of
`CreateAnswerDone` alone: the answer is posted to the signaling thread, which
leaves and enters `ProcessMessages` again and again and so makes the step enabled
and disabled in turn. Nothing is assumed of the browser, the UI, the network, or
of Fleck's errors.

*TURN control.* Weak fairness of each task, which is `LongRunning`, and of the
second half of the handler that cancels. Nobody need touch the box.

*Preview.* Strong fairness of each callback that has begun and of the UI thread:
other threads take the monitor and the UI thread in between, and neither a .NET
monitor nor a message queue lets one waiter starve. No frame need come, and the
form need not be closed.

*Conductor.* Weak fairness of the completion of operations: the worker calls
`ProcessMessages` in a loop. Nothing is assumed of libwebrtc's choice between
success and failure.

*Browser.* Weak fairness of `setInterval`. Nothing is assumed of the network, of
the server or of the user.

### What the runs show

*Server.*

- `RemovedIsCancelled`, `OneSessionPerConnection`: although `Streams.TryRemove` and
  `Cancel` are two steps, no session is let go without being cancelled, and a
  second offer in between does no harm.
- `FreedOnlyAfterStop`, `GoMeansReady`: a thread that meets a deleted conductor
  does so for one of three reasons, and the offer is not one of the threads that
  meet it by surprise: past `go` it has a peer connection or a cancelled session.
- `LeakOnlyUnstarted`: a conductor stays undeleted in one case, a task that was
  cancelled before it began to run; the browser was told nothing by it.
- `NoEventLost`, `KeepsPromise`: answers and candidates are raised to attached
  handlers, in the order the browser needs, once. `KeepsPromise` is the refinement
  of `SessionPromise` under the mapping `Life`. Frames of the local renderer are not
  modelled; the first may come before its handler.
- `CallsAreServed`: a call that a read loop has marshalled is served, or it is lost in
  one of two ways: its session was cancelled and the worker had its last
  `ProcessMessages`, or the offer gave up a worker whose initialisation took too long,
  and a candidate was passed on to that worker before its `go.Set()` threw.
- `DisconnectEndsSession`, `StopEndsSession`, `CallbackReturns`, `OfferAnswered`:
  what was in `Streams` when its connection or the server went does end, a
  callback hangs in one case only (a call marshalled after the worker's last
  `ProcessMessages`), and an applied offer is answered or refused. A disconnected
  session may go on in one case: `Dispose` cleared `Streams` after its loop had gone
  by, and took the session away before `OnDisconnect` could find it.
- `OrphanOnlyByRacingOffer`, `StaleUserOnlyByRacingOpen`: the code does leave
  orphans and stale users; these two action properties say that one interleaving
  each is to blame, and so that no other path leaves them.

*Browser.* `GlobalsAgree`: no answer, channel or candidate of one attempt is there
for the next. `ButtonTells`: the button comes back by a close event, or was disabled
by a malformed address, after which nothing enables it again. `NeverEarly`: with
the server's promise candidates come after the call that sets the description; that
this call may fail later, in the browser, is not modelled. `TimersStop`: intervals
end with their connection, or go on beside those of the next one that was made
before they ticked.

*TURN control.* `PortAccounted`: the port has one holder, a task that will close it
or the socket that a failed `LoadAuth` leaks. `StrayOnlyByMiss`: a server that
nobody can stop comes from clearing the box while a task starts. `CancelledStops`,
`OffFreesPort`: what is cancelled ends, and with that exception the port is free
after the box was cleared.

*Conductor.* `FreshOrReady`: a failed initialisation leaves a conductor that can be
initialised. `LostOnly`: but it loses the open device. `CameraPointer`: the pointer
to the virtual camera is there as long as the camera, until a *remote* stream is
removed, and dangles in one step of the destructor only. `SuccessSettled`: `OnSuccess`
is reported before the description is applied; the application, or a failure,
follows.

*Preview.* `OnePicture`: one array, one bitmap over it, and the box shows it.
`FaultOnlyInWindow`: the decoder that `FormClosing` frees without a lock is used
only by a callback between its two steps. `CallbackReturns`: no lock is held during
`Invoke`, so nobody waits for anybody in a circle.

*Images.* `DestroyedOnce`: no order of links destroys an image twice or hands a
managed array to leptonica's allocator, and an image is lost only by a link over an
owned pointer. `CallsSound`: every call writes what its buffer holds, except that an
array that is only tested for null serves one size of image or smaller ones.
`ChoiceNearest`: the factor is a nearest one, or 1/1 is and an older factor stays.
`CameraSound`: frames fit the buffer unless the size changed after the capturer was
made. `ReadsBack`: a barcode of at most seven digits reads back as its value.

*Codec.* `ReadyToDecode`, `BoundedPropagation`, `RequestsApart`: the decoder starts
at a complete key frame, returns at most the threshold of damaged frames between
requests, and does not ask at every frame. `InitedMeansOpen`, `GapIsRequested`,
`DeltaOnlyWithoutGap`: an initialised encoder has all contexts, a stream with a gap
has its request pending, and delta frames reach only receivers that can decode them.

### Where code and comments disagree

1. `NeverOverLimit` (`WebRTCServer.cs:91`). The test and the insertion of
   `OnConnected` are separate, so connections opened together exceed the limit
   that the message at line 99 says is kept. Their offers are then refused at
   line 172 for as long as all of them stay.
2. `KeyBeforeDelta` (`vp8_impl.cc:868`). The key frame request of a stream is
   cleared before the encoder can fail, so a stream that starts again may start
   with a delta frame, against the comment at line 317. `DeltaOnlyWithoutGap`
   is the same claim with this one exception, and holds.
3. `PropagationRestricted` (`vp8_impl.cc:1285`). The propagation counter is reset
   when a complete key frame *arrives*; if libvpx then fails on it, damage is shown
   beyond the threshold without another request. The comment at line 1279 says
   "on a key frame refresh". `BoundedPropagation` has this one exception, and holds.

Met while modelling and seen by reading alone, so without a run of their own; the
properties named state what the code does:

- `managed.cpp:206` allocates eight handles and the destructor at line 213 frees
  seven: `onDataBinaryMessageHandle` stays (`handles` in `Conductor`).
- `TJpeg.cpp:331` compares a new factor with `fBestFactor`, which starts at 1.0 on
  every call, and not with the factor in hand (`ChoiceNearest`).
- `yuvframegenerator.cc:188` promises a "7-char string" and pads to seven, but does
  not cut: after 10 ms of nanoseconds there are more (`ReadsBack` is about seven).
- `MainForm.cs:109` tests `remoteImg` in the local preview, which pins a handle per
  frame until a remote frame was shown (`TestBitmap` in `Preview`).

## Proofs

Checked by TLAPS for every value of the constants, from the named assumptions of
the modules: `NoneAssumption`, `LimitsAssumption`, `CandAssumption`,
`ModeAssumption` (server), `AttemptAssumption`, `HolderAssumption`,
`NameAssumption`, `ThreadAssumption`, `FilterAssumption`, `ThAssumption`,
`StreamsAssumption`, `JpegAssumption`, `CameraAssumption`. They say that names differ,
that bounds are numbers, that the threshold is below the cap of the counter, that an
image has sides of a pixel or more, that turbojpeg's list has every eighth up to 2/1 (as
the library's has), and that the camera's frames hold the barcode's background, which
the generator asserts. TLC evaluates them in the runs.

*Server.* `TypeCorrect` is inductive alone. The other theorems rest on four
strengthenings. `Ownership` ties the references together: a session in
`Streams`, in a read loop's local variable or in the hands of `OnDisconnect`
belongs to that connection. It is needed because `RemovedIsCancelled` speaks of
the owner's entry only, and a step on another connection could otherwise remove
it. `Control` ties the worker's program counter to the conductor's stage,
to the event `go` and to the cancellation; `FreedAfterStop` and `GoReady` are
read off it. `Talk` ties the read loop's place to the stage of the offer and to the
handlers; `NothingLost` is one of its conjuncts, and `LeakUnstarted` follows with
`Control`. `Voice` ties what was sent to that stage; its last conjunct,
that the answer comes first and once, is what the refinement needs. `OneSession` follows from `RemovedCancelled`: two sessions cannot both be
the entry of one connection.

`PromiseKept` is the refinement, `Spec => KeepsPromise`. Most steps leave the
conductors and the messages alone and are stutters (`StutterKept`); the others
change one conductor, and `LifeOf` and `LifeStep` turn its stage into the life of its
session. The invariants say that the step of the promise is enabled: a conductor
that is deleted was live or running (`Control`, `Talk`), an answer is sent when
nothing was, and a candidate when something was (`Voice`).
`StaleUserByRacingOpen` and `OrphanByRacingOffer` look at one step from a state with
correct types and owners.

`CallsServed` proves `CallsAreServed`, the safe half of `CallbackReturns`. `Awaited` adds to the invariants
above that `go` outlives its handler and that a candidate is handed to a worker that
has initialised.

*Browser.* `OneSocket` and `OnePeer` say which attempt the globals belong to, `Stored`
adds the answer and the candidates, `Waits` what a disabled button waits for, and
`Answered` that a delivered message means that the description is set, from the
promise that the answer comes first. `Wires` bounds what is under way.

*TURN control.* `IInv` says which sources anybody can know (`SourcesKnown`), that a
serving task is in the field or was taken out of it by a clearing (`FieldOfServing`),
that a cancel disables the box until the end (`CancelDisables`), and that two tasks
at work mean that a clearing missed (`SoloOrMissed`): `StrayOnlyByMiss` is not
inductive without the last. `CancelledAreTold` reads off it what `CancelledStops` and
`OffFreesPort` rest on: a cancelled task looks at a token that is cancelled, and with the
box off every task at work has been told to stop, unless a clearing missed.

*Conductor.* `Ownership` says that before a peer connection no camera was given away,
that a freed camera means a destructor, and that a held device is the open one; the
theorems about cameras are read off it, `CameraFed` with one more induction.
`SuccessIsSettling` is what `SuccessSettled` rests on: while a success waits, the
operation that applies its description is among those under way. `Appended` and `Left`
say how a queue keeps an element.

*Preview.* `Mutex` and `Linked`: the lock of a box is held by whoever is inside, and
a side has at most one array, which its bitmap and its box lie over or are empty.
`Once` adds that the handle was pinned with the bitmap. `CallbacksNeverStuck`: with
`HolderInside` (who holds a lock is inside it, and is not waiting for the UI thread),
some thread that an open callback may be waiting for can always take a step, for any
number of threads.

*Filters.* `OneOwner` and `OutputOwnsPixels` are inductive with the types.
`LostOnlyByLinks` needs that a borrowed output was linked (`BorrowedIsLoose`), and
`InputPinned` that a filter has the address of the buffer it pins (`HandleIsBuffer`).

*Decoder.* `CInv` relates the counter to the history: unless libvpx failed on a
key frame the counter runs exactly while damage is pending, it is at least the
number of damaged frames shown, and at most the frames since the last error.
`PropagationBounded` and `RequestsSpaced` are its two ends.

*Encoder.* `KeyInv` adds to `GapIsRequested` that only streams of the encoder are
sent; `DeltaDecodable` then follows because an `Encode` that makes a delta frame
saw no request at all.

*JPEG wrapper.* `BuffersKnown` says of the buffers that are only tested for null that
their length is that of the image they were made for; such a buffer then holds any image
that is no larger on either side (`SmallerFits`), since every size formula grows with
both sides. `FactorKnown` says that a factor chosen with none in hand is a nearest one
for the recorded request. It needs the loop over the list: `SelectNearest`, by induction
over the turns with `Scanned` as the invariant, says that the result is a nearest factor,
or that the factor in hand stays where 1/1 is nearest. With every eighth in the list a
nearest factor is within a sixteenth (`NearestWithin`), hence the width (`ScaledNear`).
`JpegCallsSound` and `JpegChoiceNearest` hold for every list of the assumption, every set
of sizes, and any order of all calls.

*Camera.* `SizesKnown` says that without a change the buffer, the generator and the
conductor have one size, and `GeneratorFits` that the bytes of that size fit, odd or even.
`CodeKnown` says that a frame's code is computed from its value; `BarcodeReads` that such
a code reads back, for *every* value below ten million: the digits spell the value, the
check digit completes the sum, the ten patterns and their complements are told apart from
each other, the bars of two digits do not overlap, and the last one ends within the
background.

`Scan`, `Sums` and `Number` are recursive functions. The library's induction theorems take
an operator as parameter and cannot be used, so `SetInduction` proves induction over a
*set* of numbers from the least element of its complement, and `RecursionDefines` that
a recursive equation over 0 .. n has a solution; the facts about these functions use the two.

Model-checked only: liveness under fairness (`DisconnectEndsSession`,
`StopEndsSession`, `CallbackReturns` of the server and of the previews, `OfferAnswered`,
`CancelledStops`, `OffFreesPort`, `SuccessSettled`, `TimersStop`), which is about ENABLED and
out of the prover's reach. `CallsServed`, `CancelledAreTold`, `SuccessIsSettling` and
`CallbacksNeverStuck` are the invariants behind five of them. Every safety property of
every passing run is proved.

## Plan

Done, in the order it was done: `SignalingServer` with its promise, `Vp8Decoder`,
`Vp8Encoder`, then `TurnControl`, `Conductor` with the wrapper's handles, `Preview`,
`FilterChain`, `TurboJpeg`, `VirtualCamera`, `BrowserClient` on the promise, the
refinement proof, the proofs about the JPEG wrapper and the barcode, and the invariants
behind the liveness properties. What could follow:

1. The encoder's picture ids and reference picture selection, with the decoder as the
   receiver over a channel that loses frames.
2. `RunStunServer`, if the demo comes to call it; it has the shape of `TurnControl`.
3. A promise of the client to the server (one offer per connection, candidates after
   it), so that the other half of the composition is an assumption of the server.

## Not modelled

`RunStunServer` (the demo never calls it), the audio renderer (it prints),
`GetVideoDevices` and other queries, the drawing of the form, the landscape and the
moving figures of the test frames, the desktop capture, which is compiled out unless
`DESKTOP_CAPTURE` is set, the overload of `EncodeI420` over raw pointers (its caller
owns the buffers), the stride of bitmaps, an ICE candidate that is parsed and never
deleted (`conductor.cc:248`: it changes no state), the encoder's bitrates, quantizers
and picture ids, and `Util.cs`, a debugging dump nothing calls.

External, so that what they answer is chosen freely: pixel computations
(libjpeg-turbo, libyuv, leptonica), media transport, ICE, DTLS, libvpx, Fleck, the
browser. Their headers in `include/` declare types and constants; the parts the code
depends on are in the actions that call them.
