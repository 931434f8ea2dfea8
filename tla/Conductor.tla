----------------------------- MODULE Conductor -----------------------------
(***************************************************************************)
(* The native conductor (conductor.cc, conductor.h) and its wrapper        *)
(* ManagedConductor (managed.cpp): who owns the cameras, the data          *)
(* channels, the description operations, failed initialisations, and the   *)
(* order in which the destructor takes all of this apart.                  *)
(*                                                                         *)
(* One thread, the one that initialised the peer connection, makes the     *)
(* calls and runs the observer callbacks: they are the signalling thread   *)
(* of the peer connection.  The UI thread pushes frames at any time.       *)
(* Descriptions, candidates and media are left out.                        *)
(***************************************************************************)
EXTENDS Naturals, Sequences, FiniteSets

CONSTANTS Device,   \* capturers that the device factory can make
          Channel,  \* data channels, of either end
          None,     \* nullptr
          MaxOps    \* bound on the description operations under way

ASSUME NameAssumption == None \notin Device \cup Channel /\ MaxOps \in Nat

Kind == {"error", "success", "failure", "ice", "local", "remote", "message", "binary"}

VARIABLES
  stage,      \* "live", then the steps of the destructor to "gone"
  handles,    \* delegates of the wrapper held by a GCHandle
  factory, peer,   \* pc_factory_, peer_connection_ are set
  servers,    \* serverConfigs is not empty
  used,       \* the configuration of peer had servers
  capturer,   \* the pointer to the virtual camera is set
  internal,   \* capturer_internal
  virtual,    \* the virtual camera: "none", "source" (owned by peer), "freed"
  device,     \* the same of each device: "unused", "held", "source", "freed", "lost"
  renderer,   \* remote_video is set
  channel,    \* data_channel
  opened,     \* channels that the peer has
  ops,        \* description operations under way, oldest first
  reported,   \* what onSuccess and onFailure reported that is still to be settled
  ui,         \* "push": PushFrame has tested capturer and not used it yet
  dead,       \* the UI thread used a freed camera or a pointer cleared after its
              \* test, or a null data channel was used
  failed,     \* history: an initialisation failed
  configured, \* history: AddServerConfig was called
  late,       \* history: devices opened when there was a peer connection
  removed     \* history: OnRemoveStream was called

peerVars  == <<factory, peer, servers, used>>
camVars   == <<capturer, internal, virtual, device>>
chanVars  == <<channel, opened>>
opVars    == <<ops, reported>>
history   == <<failed, configured, removed, late>>
vars == <<stage, handles, peerVars, camVars, renderer, chanVars, opVars, ui, dead, history>>

TypeOK ==
  /\ stage \in {"live", "unref", "clear", "members", "gone"}
  /\ handles \subseteq Kind
  /\ factory \in BOOLEAN /\ peer \in BOOLEAN /\ servers \in BOOLEAN /\ used \in BOOLEAN
  /\ capturer \in BOOLEAN
  /\ internal \in Device \cup {None}
  /\ virtual \in {"none", "source", "freed"}
  /\ device \in [Device -> {"unused", "held", "source", "freed", "lost"}]
  /\ renderer \in BOOLEAN
  /\ channel \in Channel \cup {None} /\ opened \subseteq Channel
  /\ ops \in Seq({"remote", "create", "local"}) /\ Len(ops) <= MaxOps
  /\ reported \in {"nothing", "success", "failure"}
  /\ ui \in {"idle", "push"}
  /\ dead \in {"no", "camera", "null", "send", "channel"}
  /\ failed \in BOOLEAN /\ configured \in BOOLEAN /\ removed \in BOOLEAN
  /\ late \subseteq Device

Init ==
  /\ stage = "live" /\ handles = Kind
  /\ factory = FALSE /\ peer = FALSE /\ servers = FALSE /\ used = FALSE
  /\ capturer = FALSE /\ internal = None /\ virtual = "none"
  /\ device = [d \in Device |-> "unused"]
  /\ renderer = FALSE
  /\ channel = None /\ opened = {}
  /\ ops = <<>> /\ reported = "nothing"
  /\ ui = "idle" /\ dead = "no"
  /\ failed = FALSE /\ configured = FALSE /\ removed = FALSE /\ late = {}

\* A call or a callback on the signalling thread.
Live == stage = "live" /\ dead = "no" /\ UNCHANGED <<stage, handles, dead>>

(***************************************************************************)
(* Before the peer connection.                                             *)
(***************************************************************************)
\* A device that exists; the call returns false, with nothing changed, for
\* one that does not or when a device is open already.
OpenVideoCaptureDevice(d) ==
  /\ Live
  /\ internal = None /\ device[d] = "unused"
  /\ internal' = d /\ device' = [device EXCEPT ![d] = "held"]
  /\ late' = IF peer THEN late \cup {d} ELSE late
  /\ UNCHANGED <<peerVars, capturer, virtual, renderer, chanVars, opVars, ui,
                 failed, configured, removed>>

AddServerConfig ==
  /\ Live
  /\ servers' = TRUE /\ configured' = TRUE
  /\ UNCHANGED <<factory, peer, used, camVars, renderer, chanVars, opVars, ui, failed, removed, late>>

\* The assertions of InitializePeerConnection and CreatePeerConnection.
Ready == ~factory /\ ~peer

\* A pointer is dropped: a device that nobody else owns is lost.
Dropped(d) == IF internal = d /\ device[d] = "held" THEN "lost" ELSE device[d]
DropPointers ==
  /\ capturer' = FALSE /\ internal' = None
  /\ device' = [d \in Device |-> Dropped(d)]

BadInitializeFails ==
  /\ Live /\ Ready
  /\ factory' \in BOOLEAN /\ servers' = FALSE /\ failed' = TRUE
  /\ DropPointers
  /\ UNCHANGED <<peer, used, virtual, renderer, chanVars, opVars, ui,
                 configured, removed, late>>

\* No factory, or no peer connection: DeletePeerConnection clears what there
\* is, the server list and the open device included.
InitializeFails ==
  /\ Live /\ Ready
  /\ factory' = FALSE /\ servers' = FALSE /\ failed' = TRUE
  /\ DropPointers
  /\ UNCHANGED <<peer, used, virtual, renderer, chanVars, opVars, ui,
                 configured, removed, late>>

BadAddStreams ==
  /\ capturer' = TRUE /\ virtual' = "source"
  /\ UNCHANGED <<internal, device>>

\* The source that is made owns the camera: the open device or a new virtual one.
AddStreams ==
  \/ /\ internal # None
     /\ device' = [device EXCEPT ![internal] = "source"]
     /\ UNCHANGED <<capturer, internal, virtual>>
  \/ /\ internal = None
     /\ capturer' = TRUE /\ virtual' = "source"
     /\ UNCHANGED <<internal, device>>

InitializePeerConnection ==
  /\ Live /\ Ready
  /\ factory' = TRUE /\ peer' = TRUE /\ used' = servers
  /\ AddStreams
  /\ UNCHANGED <<servers, renderer, chanVars, opVars, ui, history>>

(***************************************************************************)
(* Streams and data channels.                                              *)
(***************************************************************************)
OnAddStream ==
  /\ Live /\ peer
  /\ renderer' = TRUE
  /\ UNCHANGED <<peerVars, camVars, chanVars, opVars, ui, history>>

\* The remote stream is gone, and the pointers to the local cameras are cleared.
OnRemoveStream ==
  /\ Live /\ peer
  /\ renderer' = FALSE /\ removed' = TRUE
  /\ DropPointers
  /\ UNCHANGED <<peerVars, virtual, chanVars, opVars, ui,
                 failed, configured, late>>

CreateDataChannel(c) ==
  /\ Live /\ peer /\ c \notin opened
  /\ channel' = c /\ opened' = opened \cup {c}
  /\ UNCHANGED <<peerVars, camVars, renderer, opVars, ui, history>>

\* The library returns no channel, and the observer is registered through a
\* null pointer.
CreateDataChannelFails ==
  /\ stage = "live" /\ dead = "no" /\ peer
  /\ channel' = None /\ dead' = "channel"
  /\ UNCHANGED <<stage, handles, peerVars, camVars, renderer, opened, opVars, ui, history>>

\* The browser made a channel: the pointer moves to it, and the channel it
\* pointed to keeps its observer.
OnDataChannel(c) ==
  /\ Live /\ peer /\ c \notin opened
  /\ channel' = c /\ opened' = opened \cup {c}
  /\ UNCHANGED <<peerVars, camVars, renderer, opVars, ui, history>>

\* DataChannelSendText and DataChannelSendData do not test the pointer.
SendWithoutChannel ==
  /\ stage = "live" /\ dead = "no" /\ channel = None
  /\ dead' = "send"
  /\ UNCHANGED <<stage, handles, peerVars, camVars, renderer, chanVars, opVars, ui, history>>

(***************************************************************************)
(* Descriptions.  The operations of the library complete in order, on the  *)
(* signalling thread; a call before Initialize returns at once.            *)
(***************************************************************************)
Begin(op) ==
  /\ Live /\ peer
  /\ Len(ops) + Len(op) <= MaxOps
  /\ ops' = ops \o op
  /\ reported' = IF ops = <<>> THEN "nothing" ELSE reported
  /\ UNCHANGED <<peerVars, camVars, renderer, chanVars, ui, history>>

\* A description that does not parse begins nothing.
CreateOffer    == Begin(<<"create">>)
OnOfferReply   == Begin(<<"remote">>)
OnOfferRequest == Begin(<<"remote", "create">>)

Complete(op, next, report) ==
  /\ Live /\ peer
  /\ ops # <<>> /\ Head(ops) = op
  /\ ops' = Tail(ops) \o next
  /\ reported' = report
  /\ UNCHANGED <<peerVars, camVars, renderer, chanVars, ui, history>>

BadOnSuccess == Complete("create", <<>>, "success")
\* CreateSessionDescriptionObserver::OnSuccess reports the description when
\* the operation that applies it has only begun.
OnSuccess == Complete("create", <<"local">>, "success")

\* SetSessionDescriptionObserver::OnSuccess logs.  Applied: nothing remains.
OnSet == \/ Complete("remote", <<>>, reported)
         \/ Complete("local", <<>>, IF reported = "success" THEN "nothing" ELSE reported)

\* OnFailure serves both observers, and does not tell which operation failed.
OnFailure == \E op \in {"remote", "create", "local"} : Complete(op, <<>>, "failure")

(***************************************************************************)
(* The UI thread: the pointer is tested, then used.  A build may read it   *)
(* once or twice, so a pointer cleared in between is used or is null.      *)
(***************************************************************************)
UiTests ==
  /\ stage # "gone" /\ dead = "no"
  /\ ui = "idle" /\ capturer
  /\ ui' = "push"
  /\ UNCHANGED <<stage, handles, peerVars, camVars, renderer, chanVars, opVars, dead, history>>

PushFrame ==
  /\ dead = "no"
  /\ ui = "push" /\ ui' = "idle"
  /\ dead' \in (IF virtual = "freed" THEN {"camera"} ELSE {"no"})
              \cup (IF capturer THEN {} ELSE {"null"})
  /\ UNCHANGED <<stage, handles, peerVars, camVars, renderer, chanVars, opVars, history>>

(***************************************************************************)
(* The end: ~ManagedConductor and ~Conductor.                              *)
(***************************************************************************)
\* Seven handles are freed; then the destructor closes the peer connection:
\* no callback comes from here on.
Dispose ==
  /\ stage = "live" /\ dead = "no"
  /\ stage' = "unref"
  /\ handles' = handles \ (Kind \ {"binary"})
  /\ ops' = <<>> /\ reported' = "nothing"
  /\ UNCHANGED <<peerVars, camVars, renderer, chanVars, ui, dead, history>>

\* The last reference goes: sources, cameras and channels with it, except the
\* channel that data_channel still refers to.
ReleasePeer ==
  /\ stage = "unref" /\ dead = "no" /\ stage' = "clear"
  /\ peer' = FALSE /\ factory' = FALSE
  /\ virtual' = IF virtual = "source" THEN "freed" ELSE virtual
  /\ device' = [d \in Device |-> IF device[d] = "source" THEN "freed" ELSE device[d]]
  /\ opened' = opened \cap {channel}
  /\ UNCHANGED <<handles, servers, used, capturer, internal, renderer, channel, opVars, ui, dead, history>>

BadClearMembers ==
  /\ stage = "clear" /\ dead = "no" /\ stage' = "members"
  /\ channel' = None /\ opened' = {} /\ servers' = FALSE
  /\ UNCHANGED <<handles, factory, peer, used, camVars, renderer, opVars, ui, dead, history>>

\* The channel, the servers and the pointers to the cameras.
ClearMembers ==
  /\ stage = "clear" /\ dead = "no" /\ stage' = "members"
  /\ channel' = None /\ opened' = {} /\ servers' = FALSE
  /\ DropPointers
  /\ UNCHANGED <<handles, factory, peer, used, virtual, renderer, opVars, ui, dead, history>>

\* The members: the remote renderer leaves its track, whose peer is gone.
DestroyMembers ==
  /\ stage = "members" /\ dead = "no" /\ stage' = "gone"
  /\ renderer' = FALSE
  /\ UNCHANGED <<handles, peerVars, camVars, chanVars, opVars, ui, dead, history>>

Process == OnSuccess \/ OnSet \/ OnFailure

Next ==
  \/ \E d \in Device : OpenVideoCaptureDevice(d)
  \/ AddServerConfig \/ InitializeFails \/ InitializePeerConnection
  \/ OnAddStream \/ OnRemoveStream
  \/ \E c \in Channel : CreateDataChannel(c) \/ OnDataChannel(c)
  \/ CreateDataChannelFails \/ SendWithoutChannel
  \/ CreateOffer \/ OnOfferReply \/ OnOfferRequest \/ Process
  \/ UiTests \/ PushFrame
  \/ Dispose \/ ReleasePeer \/ ClearMembers \/ DestroyMembers

Spec == Init /\ [][Next]_vars

\* ProcessMessages is called in a loop for as long as the conductor lives.
FairSpec == Spec /\ WF_vars(Process)

(***************************************************************************)
(* Properties.                                                             *)
(***************************************************************************)
\* A conductor whose initialisation failed is one that can be initialised: a
\* live conductor meets the assertions of InitializePeerConnection, or has all of
\* a peer connection, its factory and a camera in its source.
FreshOrReady ==
  stage = "live" =>
    \/ Ready /\ ~renderer /\ opened = {} /\ virtual = "none"
    \/ /\ factory /\ peer
       /\ virtual = "source" \/ \E d \in Device : device[d] = "source"

\* A peer connection has the servers that were configured, in whatever order the
\* calls were made; only the initialisation after a failed one may be without.
ServersUsed ==
  [][(~peer /\ peer' /\ configured) => used' \/ failed]_vars

\* A device is lost, owned by nobody, only by a failed initialisation, or when it
\* was opened after the peer connection, or never initialised: a device opened
\* in time is the source's from the initialisation on, and is freed with it.
LostOnly ==
  \A d \in Device : device[d] = "lost" =>
    \/ failed \/ d \in late
    \/ /\ stage # "live" /\ virtual = "none"
       /\ \A e \in Device : device[e] \notin {"source", "freed"}

\* The virtual camera of a live peer connection can be fed, until a remote stream
\* is removed; and then it never can again.
CameraFed ==
  (stage = "live" /\ virtual = "source") => (capturer <=> ~removed)

\* The pointer to the virtual camera dangles in one step of the destructor only,
\* and a frame is pushed into a freed camera only by a UI thread that tested the
\* pointer before that step was over: never into a live conductor.  In a live one
\* the pointer is cleared under the UI thread only by the removal of a stream.
DanglesInDestructor ==
  /\ capturer /\ virtual = "freed" => stage = "clear"
  /\ dead = "camera" => stage \in {"clear", "members", "gone"}
  /\ dead = "null" => removed \/ stage \in {"members", "gone"}

\* The pointer to the virtual camera, which nobody owns: it is there as long as
\* the camera can be fed, and no longer than the camera in a live conductor.
CameraPointer == CameraFed /\ DanglesInDestructor

\* Once there is a data channel to send to there is one until the conductor is
\* deleted, or a later creation fails.
ChannelStays ==
  [][channel # None /\ channel' = None => stage = "clear" \/ dead' = "channel"]_vars

\* A reported success is settled: its description is applied, or a failure is
\* reported too, or the conductor is deleted.
SuccessSettled == reported = "success" ~> reported # "success" \/ dead # "no"
=============================================================================
