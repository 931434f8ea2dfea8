-------------------------- MODULE Conductor_proofs ---------------------------
(***************************************************************************)
(* Theorems about Conductor, for all devices, channels and operations.     *)
(***************************************************************************)
EXTENDS Conductor, TLAPS

-----------------------------------------------------------------------------
(* Types, in three parts.                                                  *)
FlagsOK ==
  /\ factory \in BOOLEAN /\ peer \in BOOLEAN /\ servers \in BOOLEAN /\ used \in BOOLEAN
  /\ capturer \in BOOLEAN /\ renderer \in BOOLEAN
  /\ failed \in BOOLEAN /\ configured \in BOOLEAN /\ removed \in BOOLEAN

PlacesOK ==
  /\ stage \in {"live", "unref", "clear", "members", "gone"}
  /\ handles \subseteq Kind
  /\ internal \in Device \cup {None}
  /\ virtual \in {"none", "source", "freed"}
  /\ device \in [Device -> {"unused", "held", "source", "freed", "lost"}]
  /\ channel \in Channel \cup {None} /\ opened \subseteq Channel
  /\ reported \in {"nothing", "success", "failure"}
  /\ ui \in {"idle", "push"}
  /\ dead \in {"no", "camera", "null", "send", "channel"}
  /\ late \subseteq Device

OpsOK == ops \in Seq({"remote", "create", "local"}) /\ Len(ops) <= MaxOps

LEMMA NextFlags == FlagsOK /\ [Next]_vars => FlagsOK'
<1> SUFFICES ASSUME FlagsOK, [Next]_vars PROVE FlagsOK'
  OBVIOUS
<1> USE DEF FlagsOK, vars, peerVars, camVars, chanVars, opVars, history
<1>1. ASSUME NEW d \in Device, OpenVideoCaptureDevice(d) PROVE FlagsOK'
  BY Zenon, <1>1 DEF OpenVideoCaptureDevice, Live
<1>2. ASSUME AddServerConfig PROVE FlagsOK'
  BY Zenon, <1>2 DEF AddServerConfig, Live
<1>3. ASSUME InitializeFails PROVE FlagsOK'
  BY Zenon, <1>3 DEF InitializeFails, Live, Ready, DropPointers, Dropped
<1>4. ASSUME InitializePeerConnection PROVE FlagsOK'
  BY Zenon, <1>4 DEF InitializePeerConnection, Live, Ready, AddStreams
<1>5. ASSUME OnAddStream PROVE FlagsOK'
  BY Zenon, <1>5 DEF OnAddStream, Live
<1>6. ASSUME OnRemoveStream PROVE FlagsOK'
  BY Zenon, <1>6 DEF OnRemoveStream, Live, DropPointers, Dropped
<1>7. ASSUME NEW c \in Channel, CreateDataChannel(c) PROVE FlagsOK'
  BY Zenon, <1>7 DEF CreateDataChannel, Live
<1>8. ASSUME NEW c \in Channel, OnDataChannel(c) PROVE FlagsOK'
  BY Zenon, <1>8 DEF OnDataChannel, Live
<1>9. ASSUME CreateDataChannelFails PROVE FlagsOK'
  BY Zenon, <1>9 DEF CreateDataChannelFails
<1>10. ASSUME SendWithoutChannel PROVE FlagsOK'
  BY Zenon, <1>10 DEF SendWithoutChannel
<1>11. ASSUME CreateOffer PROVE FlagsOK'
  BY Zenon, <1>11 DEF CreateOffer, Begin, Live
<1>12. ASSUME OnOfferReply PROVE FlagsOK'
  BY Zenon, <1>12 DEF OnOfferReply, Begin, Live
<1>13. ASSUME OnOfferRequest PROVE FlagsOK'
  BY Zenon, <1>13 DEF OnOfferRequest, Begin, Live
<1>14. ASSUME OnSuccess PROVE FlagsOK'
  BY Zenon, <1>14 DEF OnSuccess, Complete, Live
<1>15. ASSUME OnSet PROVE FlagsOK'
  BY Zenon, <1>15 DEF OnSet, Complete, Live
<1>16. ASSUME OnFailure PROVE FlagsOK'
  BY Zenon, <1>16 DEF OnFailure, Complete, Live
<1>17. ASSUME UiTests PROVE FlagsOK'
  BY Zenon, <1>17 DEF UiTests
<1>18. ASSUME PushFrame PROVE FlagsOK'
  BY Zenon, <1>18 DEF PushFrame
<1>19. ASSUME Dispose PROVE FlagsOK'
  BY Zenon, <1>19 DEF Dispose
<1>20. ASSUME ReleasePeer PROVE FlagsOK'
  BY Zenon, <1>20 DEF ReleasePeer
<1>21. ASSUME ClearMembers PROVE FlagsOK'
  BY Zenon, <1>21 DEF ClearMembers, DropPointers, Dropped
<1>22. ASSUME DestroyMembers PROVE FlagsOK'
  BY Zenon, <1>22 DEF DestroyMembers
<1>23. CASE UNCHANGED vars
  BY Zenon, <1>23
<1> QED
  BY Zenon, <1>1, <1>2, <1>3, <1>4, <1>5, <1>6, <1>7, <1>8, <1>9, <1>10,
     <1>11, <1>12, <1>13, <1>14, <1>15, <1>16, <1>17, <1>18,
     <1>19, <1>20, <1>21, <1>22, <1>23 DEF Next, Process

LEMMA NextPlaces == PlacesOK /\ [Next]_vars => PlacesOK'
<1> SUFFICES ASSUME PlacesOK, [Next]_vars PROVE PlacesOK'
  OBVIOUS
<1> USE NameAssumption DEF PlacesOK, vars, peerVars, camVars, chanVars, opVars, history
<1>1. ASSUME NEW d \in Device, OpenVideoCaptureDevice(d) PROVE PlacesOK'
  BY <1>1 DEF OpenVideoCaptureDevice, Live
<1>2. ASSUME AddServerConfig PROVE PlacesOK'
  BY <1>2 DEF AddServerConfig, Live
<1>3. ASSUME InitializeFails PROVE PlacesOK'
  BY <1>3 DEF InitializeFails, Live, Ready, DropPointers, Dropped
<1>4. ASSUME InitializePeerConnection PROVE PlacesOK'
  BY <1>4 DEF InitializePeerConnection, Live, Ready, AddStreams
<1>5. ASSUME OnAddStream PROVE PlacesOK'
  BY <1>5 DEF OnAddStream, Live
<1>6. ASSUME OnRemoveStream PROVE PlacesOK'
  BY <1>6 DEF OnRemoveStream, Live, DropPointers, Dropped
<1>7. ASSUME NEW c \in Channel, CreateDataChannel(c) PROVE PlacesOK'
  BY <1>7 DEF CreateDataChannel, Live
<1>8. ASSUME NEW c \in Channel, OnDataChannel(c) PROVE PlacesOK'
  BY <1>8 DEF OnDataChannel, Live
<1>9. ASSUME CreateDataChannelFails PROVE PlacesOK'
  BY <1>9 DEF CreateDataChannelFails
<1>10. ASSUME SendWithoutChannel PROVE PlacesOK'
  BY <1>10 DEF SendWithoutChannel
<1>11. ASSUME CreateOffer PROVE PlacesOK'
  BY <1>11 DEF CreateOffer, Begin, Live
<1>12. ASSUME OnOfferReply PROVE PlacesOK'
  BY <1>12 DEF OnOfferReply, Begin, Live
<1>13. ASSUME OnOfferRequest PROVE PlacesOK'
  BY <1>13 DEF OnOfferRequest, Begin, Live
<1>14. ASSUME OnSuccess PROVE PlacesOK'
  BY <1>14 DEF OnSuccess, Complete, Live
<1>15. ASSUME OnSet PROVE PlacesOK'
  BY <1>15 DEF OnSet, Complete, Live
<1>16. ASSUME OnFailure PROVE PlacesOK'
  BY <1>16 DEF OnFailure, Complete, Live
<1>17. ASSUME UiTests PROVE PlacesOK'
  BY <1>17 DEF UiTests
<1>18. ASSUME PushFrame PROVE PlacesOK'
  BY <1>18 DEF PushFrame
<1>19. ASSUME Dispose PROVE PlacesOK'
  BY <1>19 DEF Dispose
<1>20. ASSUME ReleasePeer PROVE PlacesOK'
  BY <1>20 DEF ReleasePeer
<1>21. ASSUME ClearMembers PROVE PlacesOK'
  BY <1>21 DEF ClearMembers, DropPointers, Dropped
<1>22. ASSUME DestroyMembers PROVE PlacesOK'
  BY <1>22 DEF DestroyMembers
<1>23. CASE UNCHANGED vars
  BY <1>23
<1> QED
  BY Zenon, <1>1, <1>2, <1>3, <1>4, <1>5, <1>6, <1>7, <1>8, <1>9, <1>10,
     <1>11, <1>12, <1>13, <1>14, <1>15, <1>16, <1>17, <1>18,
     <1>19, <1>20, <1>21, <1>22, <1>23 DEF Next, Process

LEMMA NextOps == OpsOK /\ [Next]_vars => OpsOK'
<1> SUFFICES ASSUME OpsOK, [Next]_vars PROVE OpsOK'
  OBVIOUS
<1> USE NameAssumption DEF OpsOK, vars, peerVars, camVars, chanVars, opVars, history
<1>1. ASSUME NEW d \in Device, OpenVideoCaptureDevice(d) PROVE OpsOK'
  BY <1>1 DEF OpenVideoCaptureDevice, Live
<1>2. ASSUME AddServerConfig PROVE OpsOK'
  BY <1>2 DEF AddServerConfig, Live
<1>3. ASSUME InitializeFails PROVE OpsOK'
  BY <1>3 DEF InitializeFails, Live, Ready, DropPointers, Dropped
<1>4. ASSUME InitializePeerConnection PROVE OpsOK'
  BY <1>4 DEF InitializePeerConnection, Live, Ready, AddStreams
<1>5. ASSUME OnAddStream PROVE OpsOK'
  BY <1>5 DEF OnAddStream, Live
<1>6. ASSUME OnRemoveStream PROVE OpsOK'
  BY <1>6 DEF OnRemoveStream, Live, DropPointers, Dropped
<1>7. ASSUME NEW c \in Channel, CreateDataChannel(c) PROVE OpsOK'
  BY <1>7 DEF CreateDataChannel, Live
<1>8. ASSUME NEW c \in Channel, OnDataChannel(c) PROVE OpsOK'
  BY <1>8 DEF OnDataChannel, Live
<1>9. ASSUME CreateDataChannelFails PROVE OpsOK'
  BY <1>9 DEF CreateDataChannelFails
<1>10. ASSUME SendWithoutChannel PROVE OpsOK'
  BY <1>10 DEF SendWithoutChannel
<1>11. ASSUME CreateOffer PROVE OpsOK'
  BY <1>11 DEF CreateOffer, Begin, Live
<1>12. ASSUME OnOfferReply PROVE OpsOK'
  BY <1>12 DEF OnOfferReply, Begin, Live
<1>13. ASSUME OnOfferRequest PROVE OpsOK'
  BY <1>13 DEF OnOfferRequest, Begin, Live
<1>14. ASSUME OnSuccess PROVE OpsOK'
  BY <1>14 DEF OnSuccess, Complete, Live
<1>15. ASSUME OnSet PROVE OpsOK'
  BY <1>15 DEF OnSet, Complete, Live
<1>16. ASSUME OnFailure PROVE OpsOK'
  BY <1>16 DEF OnFailure, Complete, Live
<1>17. ASSUME UiTests PROVE OpsOK'
  BY <1>17 DEF UiTests
<1>18. ASSUME PushFrame PROVE OpsOK'
  BY <1>18 DEF PushFrame
<1>19. ASSUME Dispose PROVE OpsOK'
  BY <1>19 DEF Dispose
<1>20. ASSUME ReleasePeer PROVE OpsOK'
  BY <1>20 DEF ReleasePeer
<1>21. ASSUME ClearMembers PROVE OpsOK'
  BY <1>21 DEF ClearMembers, DropPointers, Dropped
<1>22. ASSUME DestroyMembers PROVE OpsOK'
  BY <1>22 DEF DestroyMembers
<1>23. CASE UNCHANGED vars
  BY <1>23
<1> QED
  BY Zenon, <1>1, <1>2, <1>3, <1>4, <1>5, <1>6, <1>7, <1>8, <1>9, <1>10,
     <1>11, <1>12, <1>13, <1>14, <1>15, <1>16, <1>17, <1>18,
     <1>19, <1>20, <1>21, <1>22, <1>23 DEF Next, Process

\* Every call and callback keeps the members' types; at most MaxOps operations
\* are under way (conductor.cc:59-128).
THEOREM TypeCorrect == Spec => []TypeOK
<1>1. Init => FlagsOK
  BY Zenon DEF Init, FlagsOK
<1>2. Init => PlacesOK /\ OpsOK
  BY NameAssumption DEF Init, PlacesOK, OpsOK, Kind
<1>3. FlagsOK /\ PlacesOK /\ OpsOK => TypeOK
  BY Zenon DEF FlagsOK, PlacesOK, OpsOK, TypeOK
<1> QED
  BY <1>1, <1>2, <1>3, NextFlags, NextPlaces, NextOps, PTL DEF Spec

LEMMA PlacesCorrect == Spec => []PlacesOK
<1>1. Init => PlacesOK
  BY NameAssumption DEF Init, PlacesOK, Kind
<1> QED
  BY <1>1, NextPlaces, PTL DEF Spec

-----------------------------------------------------------------------------
(* Who owns the cameras.                                                   *)

\* No camera was ever given to a source.
NoCamera == virtual = "none" /\ \A e \in Device : device[e] \notin {"source", "freed"}

Ownership ==
  /\ FreshOrReady
  /\ stage = "live" /\ ~peer => NoCamera /\ ~removed
  /\ virtual = "freed" => stage \in {"clear", "members", "gone"}
  /\ capturer => virtual # "none" /\ stage \notin {"members", "gone"}
  /\ \A d \in Device : device[d] = "held" => internal = d /\ (d \in late \/ NoCamera)

LEMMA InitOwnership == Init => Ownership
  BY DEF Init, Ownership, FreshOrReady, NoCamera, Ready

LEMMA NextOwnership == PlacesOK /\ Ownership /\ [Next]_vars => Ownership'
<1> SUFFICES ASSUME PlacesOK, Ownership, [Next]_vars PROVE Ownership'
  OBVIOUS
<1> USE NameAssumption DEF PlacesOK, Ownership, FreshOrReady, NoCamera, Ready, vars, peerVars, camVars, chanVars, opVars, history
<1>1. ASSUME NEW d \in Device, OpenVideoCaptureDevice(d) PROVE Ownership'
  BY <1>1 DEF OpenVideoCaptureDevice, Live
<1>2. ASSUME AddServerConfig PROVE Ownership'
  BY <1>2 DEF AddServerConfig, Live
<1>3. ASSUME InitializeFails PROVE Ownership'
  BY <1>3 DEF InitializeFails, Live, Ready, DropPointers, Dropped
<1>4. ASSUME InitializePeerConnection PROVE Ownership'
  BY <1>4 DEF InitializePeerConnection, Live, Ready, AddStreams
<1>5. ASSUME OnAddStream PROVE Ownership'
  BY <1>5 DEF OnAddStream, Live
<1>6. ASSUME OnRemoveStream PROVE Ownership'
  BY <1>6 DEF OnRemoveStream, Live, DropPointers, Dropped
<1>7. ASSUME NEW c \in Channel, CreateDataChannel(c) PROVE Ownership'
  BY <1>7 DEF CreateDataChannel, Live
<1>8. ASSUME NEW c \in Channel, OnDataChannel(c) PROVE Ownership'
  BY <1>8 DEF OnDataChannel, Live
<1>9. ASSUME CreateDataChannelFails PROVE Ownership'
  BY <1>9 DEF CreateDataChannelFails
<1>10. ASSUME SendWithoutChannel PROVE Ownership'
  BY <1>10 DEF SendWithoutChannel
<1>11. ASSUME CreateOffer PROVE Ownership'
  BY <1>11 DEF CreateOffer, Begin, Live
<1>12. ASSUME OnOfferReply PROVE Ownership'
  BY <1>12 DEF OnOfferReply, Begin, Live
<1>13. ASSUME OnOfferRequest PROVE Ownership'
  BY <1>13 DEF OnOfferRequest, Begin, Live
<1>14. ASSUME OnSuccess PROVE Ownership'
  BY <1>14 DEF OnSuccess, Complete, Live
<1>15. ASSUME OnSet PROVE Ownership'
  BY <1>15 DEF OnSet, Complete, Live
<1>16. ASSUME OnFailure PROVE Ownership'
  BY <1>16 DEF OnFailure, Complete, Live
<1>17. ASSUME UiTests PROVE Ownership'
  BY <1>17 DEF UiTests
<1>18. ASSUME PushFrame PROVE Ownership'
  BY <1>18 DEF PushFrame
<1>19. ASSUME Dispose PROVE Ownership'
  BY <1>19 DEF Dispose
<1>20. ASSUME ReleasePeer PROVE Ownership'
  BY <1>20 DEF ReleasePeer
<1>21. ASSUME ClearMembers PROVE Ownership'
  BY <1>21 DEF ClearMembers, DropPointers, Dropped
<1>22. ASSUME DestroyMembers PROVE Ownership'
  BY <1>22 DEF DestroyMembers
<1>23. CASE UNCHANGED vars
  BY <1>23
<1> QED
  BY Zenon, <1>1, <1>2, <1>3, <1>4, <1>5, <1>6, <1>7, <1>8, <1>9, <1>10,
     <1>11, <1>12, <1>13, <1>14, <1>15, <1>16, <1>17, <1>18,
     <1>19, <1>20, <1>21, <1>22, <1>23 DEF Next, Process

\* A conductor is fresh or has a peer connection with a camera
\* (conductor.cc:101-157, 307-346).
THEOREM FreshOrInitialised == Spec => []FreshOrReady
<1>1. Ownership => FreshOrReady
  BY DEF Ownership
<1> QED
  BY <1>1, InitOwnership, NextOwnership, PlacesCorrect, PTL DEF Spec

\* A device is lost for three reasons only (conductor.cc:126, 292-305, 380-382).
THEOREM DeviceLost == Spec => []LostOnly
<1>1. Init => LostOnly
  BY DEF Init, LostOnly
<1>2. PlacesOK /\ Ownership /\ LostOnly /\ [Next]_vars => LostOnly'
  <2> SUFFICES ASSUME PlacesOK, Ownership, LostOnly, [Next]_vars PROVE LostOnly'
    OBVIOUS
  <2> USE NameAssumption DEF PlacesOK, Ownership, FreshOrReady, NoCamera, Ready, LostOnly,
          vars, peerVars, camVars, chanVars, opVars, history
  <2>1. ASSUME NEW d \in Device, OpenVideoCaptureDevice(d) PROVE LostOnly'
    BY <2>1 DEF OpenVideoCaptureDevice, Live
  <2>2. ASSUME AddServerConfig PROVE LostOnly'
    BY <2>2 DEF AddServerConfig, Live
  <2>3. ASSUME InitializeFails PROVE LostOnly'
    BY <2>3 DEF InitializeFails, Live, Ready, DropPointers, Dropped
  <2>4. ASSUME InitializePeerConnection PROVE LostOnly'
    BY <2>4 DEF InitializePeerConnection, Live, Ready, AddStreams
  <2>5. ASSUME OnAddStream PROVE LostOnly'
    BY <2>5 DEF OnAddStream, Live
  <2>6. ASSUME OnRemoveStream PROVE LostOnly'
    BY <2>6 DEF OnRemoveStream, Live, DropPointers, Dropped
  <2>7. ASSUME NEW c \in Channel, CreateDataChannel(c) PROVE LostOnly'
    BY <2>7 DEF CreateDataChannel, Live
  <2>8. ASSUME NEW c \in Channel, OnDataChannel(c) PROVE LostOnly'
    BY <2>8 DEF OnDataChannel, Live
  <2>9. ASSUME CreateDataChannelFails PROVE LostOnly'
    BY <2>9 DEF CreateDataChannelFails
  <2>10. ASSUME SendWithoutChannel PROVE LostOnly'
    BY <2>10 DEF SendWithoutChannel
  <2>11. ASSUME CreateOffer PROVE LostOnly'
    BY <2>11 DEF CreateOffer, Begin, Live
  <2>12. ASSUME OnOfferReply PROVE LostOnly'
    BY <2>12 DEF OnOfferReply, Begin, Live
  <2>13. ASSUME OnOfferRequest PROVE LostOnly'
    BY <2>13 DEF OnOfferRequest, Begin, Live
  <2>14. ASSUME OnSuccess PROVE LostOnly'
    BY <2>14 DEF OnSuccess, Complete, Live
  <2>15. ASSUME OnSet PROVE LostOnly'
    BY <2>15 DEF OnSet, Complete, Live
  <2>16. ASSUME OnFailure PROVE LostOnly'
    BY <2>16 DEF OnFailure, Complete, Live
  <2>17. ASSUME UiTests PROVE LostOnly'
    BY <2>17 DEF UiTests
  <2>18. ASSUME PushFrame PROVE LostOnly'
    BY <2>18 DEF PushFrame
  <2>19. ASSUME Dispose PROVE LostOnly'
    BY <2>19 DEF Dispose
  <2>20. ASSUME ReleasePeer PROVE LostOnly'
    BY <2>20 DEF ReleasePeer
  <2>21. ASSUME ClearMembers PROVE LostOnly'
    BY <2>21 DEF ClearMembers, DropPointers, Dropped
  <2>22. ASSUME DestroyMembers PROVE LostOnly'
    BY <2>22 DEF DestroyMembers
  <2>23. CASE UNCHANGED vars
    BY <2>23
  <2> QED
    BY Zenon, <2>1, <2>2, <2>3, <2>4, <2>5, <2>6, <2>7, <2>8, <2>9, <2>10,
       <2>11, <2>12, <2>13, <2>14, <2>15, <2>16, <2>17, <2>18,
       <2>19, <2>20, <2>21, <2>22, <2>23 DEF Next, Process
<1> QED
  BY <1>1, <1>2, InitOwnership, NextOwnership, PlacesCorrect, PTL DEF Spec

\* The virtual camera can be fed until a stream is removed
\* (conductor.cc:319, 380-382, conductor.h:61-67).
THEOREM CameraIsFed == Spec => []CameraFed
<1>1. Init => CameraFed
  BY DEF Init, CameraFed
<1>2. PlacesOK /\ Ownership /\ CameraFed /\ [Next]_vars => CameraFed'
  <2> SUFFICES ASSUME PlacesOK, Ownership, CameraFed, [Next]_vars PROVE CameraFed'
    OBVIOUS
  <2> USE NameAssumption DEF PlacesOK, Ownership, FreshOrReady, NoCamera, Ready, CameraFed,
          vars, peerVars, camVars, chanVars, opVars, history
  <2>1. ASSUME NEW d \in Device, OpenVideoCaptureDevice(d) PROVE CameraFed'
    BY <2>1 DEF OpenVideoCaptureDevice, Live
  <2>2. ASSUME AddServerConfig PROVE CameraFed'
    BY <2>2 DEF AddServerConfig, Live
  <2>3. ASSUME InitializeFails PROVE CameraFed'
    BY <2>3 DEF InitializeFails, Live, Ready, DropPointers, Dropped
  <2>4. ASSUME InitializePeerConnection PROVE CameraFed'
    BY <2>4 DEF InitializePeerConnection, Live, Ready, AddStreams
  <2>5. ASSUME OnAddStream PROVE CameraFed'
    BY <2>5 DEF OnAddStream, Live
  <2>6. ASSUME OnRemoveStream PROVE CameraFed'
    BY <2>6 DEF OnRemoveStream, Live, DropPointers, Dropped
  <2>7. ASSUME NEW c \in Channel, CreateDataChannel(c) PROVE CameraFed'
    BY <2>7 DEF CreateDataChannel, Live
  <2>8. ASSUME NEW c \in Channel, OnDataChannel(c) PROVE CameraFed'
    BY <2>8 DEF OnDataChannel, Live
  <2>9. ASSUME CreateDataChannelFails PROVE CameraFed'
    BY <2>9 DEF CreateDataChannelFails
  <2>10. ASSUME SendWithoutChannel PROVE CameraFed'
    BY <2>10 DEF SendWithoutChannel
  <2>11. ASSUME CreateOffer PROVE CameraFed'
    BY <2>11 DEF CreateOffer, Begin, Live
  <2>12. ASSUME OnOfferReply PROVE CameraFed'
    BY <2>12 DEF OnOfferReply, Begin, Live
  <2>13. ASSUME OnOfferRequest PROVE CameraFed'
    BY <2>13 DEF OnOfferRequest, Begin, Live
  <2>14. ASSUME OnSuccess PROVE CameraFed'
    BY <2>14 DEF OnSuccess, Complete, Live
  <2>15. ASSUME OnSet PROVE CameraFed'
    BY <2>15 DEF OnSet, Complete, Live
  <2>16. ASSUME OnFailure PROVE CameraFed'
    BY <2>16 DEF OnFailure, Complete, Live
  <2>17. ASSUME UiTests PROVE CameraFed'
    BY <2>17 DEF UiTests
  <2>18. ASSUME PushFrame PROVE CameraFed'
    BY <2>18 DEF PushFrame
  <2>19. ASSUME Dispose PROVE CameraFed'
    BY <2>19 DEF Dispose
  <2>20. ASSUME ReleasePeer PROVE CameraFed'
    BY <2>20 DEF ReleasePeer
  <2>21. ASSUME ClearMembers PROVE CameraFed'
    BY <2>21 DEF ClearMembers, DropPointers, Dropped
  <2>22. ASSUME DestroyMembers PROVE CameraFed'
    BY <2>22 DEF DestroyMembers
  <2>23. CASE UNCHANGED vars
    BY <2>23
  <2> QED
    BY Zenon, <2>1, <2>2, <2>3, <2>4, <2>5, <2>6, <2>7, <2>8, <2>9, <2>10,
       <2>11, <2>12, <2>13, <2>14, <2>15, <2>16, <2>17, <2>18,
       <2>19, <2>20, <2>21, <2>22, <2>23 DEF Next, Process
<1> QED
  BY <1>1, <1>2, InitOwnership, NextOwnership, PlacesCorrect, PTL DEF Spec

\* A pointer that was tested is good, or was cleared by a removed stream or by the
\* destructor.
Tested == ui = "push" => capturer \/ removed \/ stage \in {"members", "gone"}

\* Frames reach a freed camera in the destructor only (conductor.cc:101-128).
THEOREM DanglesAtTheEnd == Spec => []DanglesInDestructor
<1>1. Init => Tested /\ DanglesInDestructor
  BY DEF Init, Tested, DanglesInDestructor
<1>2. PlacesOK /\ Ownership /\ Tested /\ [Next]_vars => Tested'
  <2> SUFFICES ASSUME PlacesOK, Ownership, Tested, [Next]_vars PROVE Tested'
    OBVIOUS
  <2> USE NameAssumption DEF PlacesOK, Ownership, FreshOrReady, NoCamera, Ready, Tested,
          vars, peerVars, camVars, chanVars, opVars, history
  <2>1. ASSUME NEW d \in Device, OpenVideoCaptureDevice(d) PROVE Tested'
    BY <2>1 DEF OpenVideoCaptureDevice, Live
  <2>2. ASSUME AddServerConfig PROVE Tested'
    BY <2>2 DEF AddServerConfig, Live
  <2>3. ASSUME InitializeFails PROVE Tested'
    BY <2>3 DEF InitializeFails, Live, Ready, DropPointers, Dropped
  <2>4. ASSUME InitializePeerConnection PROVE Tested'
    BY <2>4 DEF InitializePeerConnection, Live, Ready, AddStreams
  <2>5. ASSUME OnAddStream PROVE Tested'
    BY <2>5 DEF OnAddStream, Live
  <2>6. ASSUME OnRemoveStream PROVE Tested'
    BY <2>6 DEF OnRemoveStream, Live, DropPointers, Dropped
  <2>7. ASSUME NEW c \in Channel, CreateDataChannel(c) PROVE Tested'
    BY <2>7 DEF CreateDataChannel, Live
  <2>8. ASSUME NEW c \in Channel, OnDataChannel(c) PROVE Tested'
    BY <2>8 DEF OnDataChannel, Live
  <2>9. ASSUME CreateDataChannelFails PROVE Tested'
    BY <2>9 DEF CreateDataChannelFails
  <2>10. ASSUME SendWithoutChannel PROVE Tested'
    BY <2>10 DEF SendWithoutChannel
  <2>11. ASSUME CreateOffer PROVE Tested'
    BY <2>11 DEF CreateOffer, Begin, Live
  <2>12. ASSUME OnOfferReply PROVE Tested'
    BY <2>12 DEF OnOfferReply, Begin, Live
  <2>13. ASSUME OnOfferRequest PROVE Tested'
    BY <2>13 DEF OnOfferRequest, Begin, Live
  <2>14. ASSUME OnSuccess PROVE Tested'
    BY <2>14 DEF OnSuccess, Complete, Live
  <2>15. ASSUME OnSet PROVE Tested'
    BY <2>15 DEF OnSet, Complete, Live
  <2>16. ASSUME OnFailure PROVE Tested'
    BY <2>16 DEF OnFailure, Complete, Live
  <2>17. ASSUME UiTests PROVE Tested'
    BY <2>17 DEF UiTests
  <2>18. ASSUME PushFrame PROVE Tested'
    BY <2>18 DEF PushFrame
  <2>19. ASSUME Dispose PROVE Tested'
    BY <2>19 DEF Dispose
  <2>20. ASSUME ReleasePeer PROVE Tested'
    BY <2>20 DEF ReleasePeer
  <2>21. ASSUME ClearMembers PROVE Tested'
    BY <2>21 DEF ClearMembers, DropPointers, Dropped
  <2>22. ASSUME DestroyMembers PROVE Tested'
    BY <2>22 DEF DestroyMembers
  <2>23. CASE UNCHANGED vars
    BY <2>23
  <2> QED
    BY Zenon, <2>1, <2>2, <2>3, <2>4, <2>5, <2>6, <2>7, <2>8, <2>9, <2>10,
       <2>11, <2>12, <2>13, <2>14, <2>15, <2>16, <2>17, <2>18,
       <2>19, <2>20, <2>21, <2>22, <2>23 DEF Next, Process
<1>3. PlacesOK /\ Ownership /\ Tested /\ DanglesInDestructor /\ [Next]_vars => DanglesInDestructor'
  <2> SUFFICES ASSUME PlacesOK, Ownership, Tested, DanglesInDestructor, [Next]_vars
               PROVE  DanglesInDestructor'
    OBVIOUS
  <2> USE NameAssumption DEF PlacesOK, Ownership, FreshOrReady, NoCamera, Ready, Tested,
          DanglesInDestructor, vars, peerVars, camVars, chanVars, opVars, history
  <2>1. ASSUME NEW d \in Device, OpenVideoCaptureDevice(d) PROVE DanglesInDestructor'
    BY <2>1 DEF OpenVideoCaptureDevice, Live
  <2>2. ASSUME AddServerConfig PROVE DanglesInDestructor'
    BY <2>2 DEF AddServerConfig, Live
  <2>3. ASSUME InitializeFails PROVE DanglesInDestructor'
    BY <2>3 DEF InitializeFails, Live, Ready, DropPointers, Dropped
  <2>4. ASSUME InitializePeerConnection PROVE DanglesInDestructor'
    BY <2>4 DEF InitializePeerConnection, Live, Ready, AddStreams
  <2>5. ASSUME OnAddStream PROVE DanglesInDestructor'
    BY <2>5 DEF OnAddStream, Live
  <2>6. ASSUME OnRemoveStream PROVE DanglesInDestructor'
    BY <2>6 DEF OnRemoveStream, Live, DropPointers, Dropped
  <2>7. ASSUME NEW c \in Channel, CreateDataChannel(c) PROVE DanglesInDestructor'
    BY <2>7 DEF CreateDataChannel, Live
  <2>8. ASSUME NEW c \in Channel, OnDataChannel(c) PROVE DanglesInDestructor'
    BY <2>8 DEF OnDataChannel, Live
  <2>9. ASSUME CreateDataChannelFails PROVE DanglesInDestructor'
    BY <2>9 DEF CreateDataChannelFails
  <2>10. ASSUME SendWithoutChannel PROVE DanglesInDestructor'
    BY <2>10 DEF SendWithoutChannel
  <2>11. ASSUME CreateOffer PROVE DanglesInDestructor'
    BY <2>11 DEF CreateOffer, Begin, Live
  <2>12. ASSUME OnOfferReply PROVE DanglesInDestructor'
    BY <2>12 DEF OnOfferReply, Begin, Live
  <2>13. ASSUME OnOfferRequest PROVE DanglesInDestructor'
    BY <2>13 DEF OnOfferRequest, Begin, Live
  <2>14. ASSUME OnSuccess PROVE DanglesInDestructor'
    BY <2>14 DEF OnSuccess, Complete, Live
  <2>15. ASSUME OnSet PROVE DanglesInDestructor'
    BY <2>15 DEF OnSet, Complete, Live
  <2>16. ASSUME OnFailure PROVE DanglesInDestructor'
    BY <2>16 DEF OnFailure, Complete, Live
  <2>17. ASSUME UiTests PROVE DanglesInDestructor'
    BY <2>17 DEF UiTests
  <2>18. ASSUME PushFrame PROVE DanglesInDestructor'
    BY <2>18 DEF PushFrame
  <2>19. ASSUME Dispose PROVE DanglesInDestructor'
    BY <2>19 DEF Dispose
  <2>20. ASSUME ReleasePeer PROVE DanglesInDestructor'
    BY <2>20 DEF ReleasePeer
  <2>21. ASSUME ClearMembers PROVE DanglesInDestructor'
    BY <2>21 DEF ClearMembers, DropPointers, Dropped
  <2>22. ASSUME DestroyMembers PROVE DanglesInDestructor'
    BY <2>22 DEF DestroyMembers
  <2>23. CASE UNCHANGED vars
    BY <2>23
  <2> QED
    BY Zenon, <2>1, <2>2, <2>3, <2>4, <2>5, <2>6, <2>7, <2>8, <2>9, <2>10,
       <2>11, <2>12, <2>13, <2>14, <2>15, <2>16, <2>17, <2>18,
       <2>19, <2>20, <2>21, <2>22, <2>23 DEF Next, Process
<1> QED
  BY <1>1, <1>2, <1>3, InitOwnership, NextOwnership, PlacesCorrect, PTL DEF Spec

\* The pointer to the virtual camera is there while the camera is, and no longer.
THEOREM CameraPointerSound == Spec => []CameraPointer
  BY CameraIsFed, DanglesAtTheEnd, PTL DEF CameraPointer

-----------------------------------------------------------------------------
(* Action properties.                                                      *)

\* The servers that were added are there until an initialisation fails.
ServersKept == stage = "live" /\ configured => servers \/ failed

\* A peer connection has the configured servers (conductor.cc:124, 171-174).
THEOREM ServersAreUsed == Spec => ServersUsed
<1>1. Init => ServersKept
  BY DEF Init, ServersKept
<1>2. ServersKept /\ [Next]_vars => ServersKept'
  <2> SUFFICES ASSUME ServersKept, [Next]_vars PROVE ServersKept'
    OBVIOUS
  <2> USE DEF ServersKept, vars, peerVars, camVars, chanVars, opVars, history
  <2>1. ASSUME NEW d \in Device, OpenVideoCaptureDevice(d) PROVE ServersKept'
    BY <2>1 DEF OpenVideoCaptureDevice, Live
  <2>2. ASSUME AddServerConfig PROVE ServersKept'
    BY <2>2 DEF AddServerConfig, Live
  <2>3. ASSUME InitializeFails PROVE ServersKept'
    BY <2>3 DEF InitializeFails, Live, Ready, DropPointers, Dropped
  <2>4. ASSUME InitializePeerConnection PROVE ServersKept'
    BY <2>4 DEF InitializePeerConnection, Live, Ready, AddStreams
  <2>5. ASSUME OnAddStream PROVE ServersKept'
    BY <2>5 DEF OnAddStream, Live
  <2>6. ASSUME OnRemoveStream PROVE ServersKept'
    BY <2>6 DEF OnRemoveStream, Live, DropPointers, Dropped
  <2>7. ASSUME NEW c \in Channel, CreateDataChannel(c) PROVE ServersKept'
    BY <2>7 DEF CreateDataChannel, Live
  <2>8. ASSUME NEW c \in Channel, OnDataChannel(c) PROVE ServersKept'
    BY <2>8 DEF OnDataChannel, Live
  <2>9. ASSUME CreateDataChannelFails PROVE ServersKept'
    BY <2>9 DEF CreateDataChannelFails
  <2>10. ASSUME SendWithoutChannel PROVE ServersKept'
    BY <2>10 DEF SendWithoutChannel
  <2>11. ASSUME CreateOffer PROVE ServersKept'
    BY <2>11 DEF CreateOffer, Begin, Live
  <2>12. ASSUME OnOfferReply PROVE ServersKept'
    BY <2>12 DEF OnOfferReply, Begin, Live
  <2>13. ASSUME OnOfferRequest PROVE ServersKept'
    BY <2>13 DEF OnOfferRequest, Begin, Live
  <2>14. ASSUME OnSuccess PROVE ServersKept'
    BY <2>14 DEF OnSuccess, Complete, Live
  <2>15. ASSUME OnSet PROVE ServersKept'
    BY <2>15 DEF OnSet, Complete, Live
  <2>16. ASSUME OnFailure PROVE ServersKept'
    BY <2>16 DEF OnFailure, Complete, Live
  <2>17. ASSUME UiTests PROVE ServersKept'
    BY <2>17 DEF UiTests
  <2>18. ASSUME PushFrame PROVE ServersKept'
    BY <2>18 DEF PushFrame
  <2>19. ASSUME Dispose PROVE ServersKept'
    BY <2>19 DEF Dispose
  <2>20. ASSUME ReleasePeer PROVE ServersKept'
    BY <2>20 DEF ReleasePeer
  <2>21. ASSUME ClearMembers PROVE ServersKept'
    BY <2>21 DEF ClearMembers, DropPointers, Dropped
  <2>22. ASSUME DestroyMembers PROVE ServersKept'
    BY <2>22 DEF DestroyMembers
  <2>23. CASE UNCHANGED vars
    BY <2>23
  <2> QED
    BY Zenon, <2>1, <2>2, <2>3, <2>4, <2>5, <2>6, <2>7, <2>8, <2>9, <2>10,
       <2>11, <2>12, <2>13, <2>14, <2>15, <2>16, <2>17, <2>18,
       <2>19, <2>20, <2>21, <2>22, <2>23 DEF Next, Process
<1>3. ServersKept /\ [Next]_vars => [(~peer /\ peer' /\ configured) => used' \/ failed]_vars
  <2> DEFINE G == (~peer /\ peer' /\ configured) => used' \/ failed
  <2> SUFFICES ASSUME ServersKept, [Next]_vars PROVE G
    OBVIOUS
  <2> USE DEF ServersKept, vars, peerVars, camVars, chanVars, opVars, history
  <2>1. ASSUME NEW d \in Device, OpenVideoCaptureDevice(d) PROVE G
    BY <2>1 DEF OpenVideoCaptureDevice, Live
  <2>2. ASSUME AddServerConfig PROVE G
    BY <2>2 DEF AddServerConfig, Live
  <2>3. ASSUME InitializeFails PROVE G
    BY <2>3 DEF InitializeFails, Live, Ready, DropPointers, Dropped
  <2>4. ASSUME InitializePeerConnection PROVE G
    BY <2>4 DEF InitializePeerConnection, Live, Ready, AddStreams
  <2>5. ASSUME OnAddStream PROVE G
    BY <2>5 DEF OnAddStream, Live
  <2>6. ASSUME OnRemoveStream PROVE G
    BY <2>6 DEF OnRemoveStream, Live, DropPointers, Dropped
  <2>7. ASSUME NEW c \in Channel, CreateDataChannel(c) PROVE G
    BY <2>7 DEF CreateDataChannel, Live
  <2>8. ASSUME NEW c \in Channel, OnDataChannel(c) PROVE G
    BY <2>8 DEF OnDataChannel, Live
  <2>9. ASSUME CreateDataChannelFails PROVE G
    BY <2>9 DEF CreateDataChannelFails
  <2>10. ASSUME SendWithoutChannel PROVE G
    BY <2>10 DEF SendWithoutChannel
  <2>11. ASSUME CreateOffer PROVE G
    BY <2>11 DEF CreateOffer, Begin, Live
  <2>12. ASSUME OnOfferReply PROVE G
    BY <2>12 DEF OnOfferReply, Begin, Live
  <2>13. ASSUME OnOfferRequest PROVE G
    BY <2>13 DEF OnOfferRequest, Begin, Live
  <2>14. ASSUME OnSuccess PROVE G
    BY <2>14 DEF OnSuccess, Complete, Live
  <2>15. ASSUME OnSet PROVE G
    BY <2>15 DEF OnSet, Complete, Live
  <2>16. ASSUME OnFailure PROVE G
    BY <2>16 DEF OnFailure, Complete, Live
  <2>17. ASSUME UiTests PROVE G
    BY <2>17 DEF UiTests
  <2>18. ASSUME PushFrame PROVE G
    BY <2>18 DEF PushFrame
  <2>19. ASSUME Dispose PROVE G
    BY <2>19 DEF Dispose
  <2>20. ASSUME ReleasePeer PROVE G
    BY <2>20 DEF ReleasePeer
  <2>21. ASSUME ClearMembers PROVE G
    BY <2>21 DEF ClearMembers, DropPointers, Dropped
  <2>22. ASSUME DestroyMembers PROVE G
    BY <2>22 DEF DestroyMembers
  <2>23. CASE UNCHANGED vars
    BY <2>23
  <2> QED
    BY Zenon, <2>1, <2>2, <2>3, <2>4, <2>5, <2>6, <2>7, <2>8, <2>9, <2>10,
       <2>11, <2>12, <2>13, <2>14, <2>15, <2>16, <2>17, <2>18,
       <2>19, <2>20, <2>21, <2>22, <2>23 DEF Next, Process
<1> QED
  BY <1>1, <1>2, <1>3, PTL DEF Spec, ServersUsed

\* The channel to send to goes only at the end or by a failed creation
\* (conductor.cc:119-123, 447, 455).
THEOREM ChannelIsKept == Spec => ChannelStays
<1>1. [Next]_vars => [channel # None /\ channel' = None => stage = "clear" \/ dead' = "channel"]_vars
  <2> DEFINE G == channel # None /\ channel' = None => stage = "clear" \/ dead' = "channel"
  <2> SUFFICES ASSUME [Next]_vars PROVE G
    OBVIOUS
  <2> USE NameAssumption DEF vars, peerVars, camVars, chanVars, opVars, history
  <2>1. ASSUME NEW d \in Device, OpenVideoCaptureDevice(d) PROVE G
    BY <2>1 DEF OpenVideoCaptureDevice, Live
  <2>2. ASSUME AddServerConfig PROVE G
    BY <2>2 DEF AddServerConfig, Live
  <2>3. ASSUME InitializeFails PROVE G
    BY <2>3 DEF InitializeFails, Live, Ready, DropPointers, Dropped
  <2>4. ASSUME InitializePeerConnection PROVE G
    BY <2>4 DEF InitializePeerConnection, Live, Ready, AddStreams
  <2>5. ASSUME OnAddStream PROVE G
    BY <2>5 DEF OnAddStream, Live
  <2>6. ASSUME OnRemoveStream PROVE G
    BY <2>6 DEF OnRemoveStream, Live, DropPointers, Dropped
  <2>7. ASSUME NEW c \in Channel, CreateDataChannel(c) PROVE G
    BY <2>7 DEF CreateDataChannel, Live
  <2>8. ASSUME NEW c \in Channel, OnDataChannel(c) PROVE G
    BY <2>8 DEF OnDataChannel, Live
  <2>9. ASSUME CreateDataChannelFails PROVE G
    BY <2>9 DEF CreateDataChannelFails
  <2>10. ASSUME SendWithoutChannel PROVE G
    BY <2>10 DEF SendWithoutChannel
  <2>11. ASSUME CreateOffer PROVE G
    BY <2>11 DEF CreateOffer, Begin, Live
  <2>12. ASSUME OnOfferReply PROVE G
    BY <2>12 DEF OnOfferReply, Begin, Live
  <2>13. ASSUME OnOfferRequest PROVE G
    BY <2>13 DEF OnOfferRequest, Begin, Live
  <2>14. ASSUME OnSuccess PROVE G
    BY <2>14 DEF OnSuccess, Complete, Live
  <2>15. ASSUME OnSet PROVE G
    BY <2>15 DEF OnSet, Complete, Live
  <2>16. ASSUME OnFailure PROVE G
    BY <2>16 DEF OnFailure, Complete, Live
  <2>17. ASSUME UiTests PROVE G
    BY <2>17 DEF UiTests
  <2>18. ASSUME PushFrame PROVE G
    BY <2>18 DEF PushFrame
  <2>19. ASSUME Dispose PROVE G
    BY <2>19 DEF Dispose
  <2>20. ASSUME ReleasePeer PROVE G
    BY <2>20 DEF ReleasePeer
  <2>21. ASSUME ClearMembers PROVE G
    BY <2>21 DEF ClearMembers, DropPointers, Dropped
  <2>22. ASSUME DestroyMembers PROVE G
    BY <2>22 DEF DestroyMembers
  <2>23. CASE UNCHANGED vars
    BY <2>23
  <2> QED
    BY Zenon, <2>1, <2>2, <2>3, <2>4, <2>5, <2>6, <2>7, <2>8, <2>9, <2>10,
       <2>11, <2>12, <2>13, <2>14, <2>15, <2>16, <2>17, <2>18,
       <2>19, <2>20, <2>21, <2>22, <2>23 DEF Next, Process
<1> QED
  BY <1>1, PTL DEF Spec, ChannelStays
-----------------------------------------------------------------------------
\* While a success waits to be settled, the operation that will settle it is one
\* of those under way, in a conductor with a peer connection (conductor.cc:402-410).
Settling ==
  /\ reported = "success" => \E i \in DOMAIN ops : ops[i] = "local"
  /\ ops # <<>> => peer /\ stage = "live"

\* A name in a sequence is still there when others are appended, and when another
\* one is taken from its front.
LEMMA Appended ==
  ASSUME NEW q \in Seq({"remote", "create", "local"}), NEW r \in Seq({"remote", "create", "local"}),
         \E i \in DOMAIN q : q[i] = "local"
  PROVE  \E i \in DOMAIN (q \o r) : (q \o r)[i] = "local"
<1>1. PICK i \in DOMAIN q : q[i] = "local" OBVIOUS
<1>2. i \in DOMAIN (q \o r) /\ (q \o r)[i] = q[i] OBVIOUS
<1> QED BY <1>1, <1>2

LEMMA Left ==
  ASSUME NEW q \in Seq({"remote", "create", "local"}), q # <<>>, Head(q) # "local",
         \E i \in DOMAIN q : q[i] = "local"
  PROVE  \E i \in DOMAIN Tail(q) : Tail(q)[i] = "local"
<1>1. PICK i \in DOMAIN q : q[i] = "local" OBVIOUS
<1>2. i # 1 BY <1>1
<1>3. i - 1 \in DOMAIN Tail(q) /\ Tail(q)[i - 1] = q[i] BY <1>2
<1> QED BY <1>1, <1>3

LEMMA NextSettling == OpsOK /\ Settling /\ [Next]_vars => Settling'
<1> SUFFICES ASSUME OpsOK, Settling, [Next]_vars PROVE Settling'
  OBVIOUS
<1> USE NameAssumption DEF OpsOK, Settling, vars, peerVars, camVars, chanVars, opVars, history
<1>1. ASSUME NEW d \in Device, OpenVideoCaptureDevice(d) PROVE Settling'
  BY <1>1 DEF OpenVideoCaptureDevice, Live
<1>2. ASSUME AddServerConfig PROVE Settling'
  BY <1>2 DEF AddServerConfig, Live
<1>3. ASSUME InitializeFails PROVE Settling'
  BY <1>3 DEF InitializeFails, Live, Ready, DropPointers, Dropped
<1>4. ASSUME InitializePeerConnection PROVE Settling'
  BY <1>4 DEF InitializePeerConnection, Live, Ready, AddStreams
<1>5. ASSUME OnAddStream PROVE Settling'
  BY <1>5 DEF OnAddStream, Live
<1>6. ASSUME OnRemoveStream PROVE Settling'
  BY <1>6 DEF OnRemoveStream, Live, DropPointers, Dropped
<1>7. ASSUME NEW c \in Channel, CreateDataChannel(c) PROVE Settling'
  BY <1>7 DEF CreateDataChannel, Live
<1>8. ASSUME NEW c \in Channel, OnDataChannel(c) PROVE Settling'
  BY <1>8 DEF OnDataChannel, Live
<1>9. ASSUME CreateDataChannelFails PROVE Settling'
  BY <1>9 DEF CreateDataChannelFails
<1>10. ASSUME SendWithoutChannel PROVE Settling'
  BY <1>10 DEF SendWithoutChannel
<1>11. ASSUME CreateOffer PROVE Settling'
  <2>1. Begin(<<"create">>) BY <1>11 DEF CreateOffer
  <2>2. <<"create">> \in Seq({"remote", "create", "local"}) OBVIOUS
  <2>3. CASE ops = <<>> BY <2>1, <2>2, <2>3 DEF Begin, Live
  <2>4. CASE ops # <<>> BY <2>1, <2>2, <2>4, Appended DEF Begin, Live
  <2> QED BY <2>3, <2>4
<1>12. ASSUME OnOfferReply PROVE Settling'
  <2>1. Begin(<<"remote">>) BY <1>12 DEF OnOfferReply
  <2>2. <<"remote">> \in Seq({"remote", "create", "local"}) OBVIOUS
  <2>3. CASE ops = <<>> BY <2>1, <2>2, <2>3 DEF Begin, Live
  <2>4. CASE ops # <<>> BY <2>1, <2>2, <2>4, Appended DEF Begin, Live
  <2> QED BY <2>3, <2>4
<1>13. ASSUME OnOfferRequest PROVE Settling'
  <2>1. Begin(<<"remote", "create">>) BY <1>13 DEF OnOfferRequest
  <2>2. <<"remote", "create">> \in Seq({"remote", "create", "local"}) OBVIOUS
  <2>3. CASE ops = <<>> BY <2>1, <2>2, <2>3 DEF Begin, Live
  <2>4. CASE ops # <<>> BY <2>1, <2>2, <2>4, Appended DEF Begin, Live
  <2> QED BY <2>3, <2>4
<1>14. ASSUME OnSuccess PROVE Settling'
  <2>1. reported' = "success" /\ ops' = Tail(ops) \o <<"local">> /\ ops # <<>> /\ peer' = peer /\ stage' = stage
    BY <1>14 DEF OnSuccess, Complete, Live
  <2>2. Len(Tail(ops)) + 1 \in DOMAIN ops' /\ ops'[Len(Tail(ops)) + 1] = "local"
    BY <2>1
  <2> QED BY <2>1, <2>2
<1>15. ASSUME OnSet PROVE Settling'
  <2>1. CASE Complete("remote", <<>>, reported)
    <3>1. /\ ops # <<>> /\ Head(ops) = "remote" /\ ops' = Tail(ops) /\ reported' = reported
          /\ peer' = peer /\ stage' = stage
      BY <2>1 DEF Complete, Live
    <3> QED BY <3>1, Left
  <2>2. CASE Complete("local", <<>>, IF reported = "success" THEN "nothing" ELSE reported)
    BY <2>2 DEF Complete, Live
  <2> QED BY <1>15, <2>1, <2>2 DEF OnSet
<1>16. ASSUME OnFailure PROVE Settling'
  BY <1>16 DEF OnFailure, Complete, Live
<1>17. ASSUME UiTests PROVE Settling'
  BY <1>17 DEF UiTests
<1>18. ASSUME PushFrame PROVE Settling'
  BY <1>18 DEF PushFrame
<1>19. ASSUME Dispose PROVE Settling'
  BY <1>19 DEF Dispose
<1>20. ASSUME ReleasePeer PROVE Settling'
  BY <1>20 DEF ReleasePeer
<1>21. ASSUME ClearMembers PROVE Settling'
  BY <1>21 DEF ClearMembers, DropPointers, Dropped
<1>22. ASSUME DestroyMembers PROVE Settling'
  BY <1>22 DEF DestroyMembers
<1>23. CASE UNCHANGED vars
  BY <1>23
<1> QED
  BY Zenon, <1>1, <1>2, <1>3, <1>4, <1>5, <1>6, <1>7, <1>8, <1>9, <1>10,
     <1>11, <1>12, <1>13, <1>14, <1>15, <1>16, <1>17, <1>18,
     <1>19, <1>20, <1>21, <1>22, <1>23 DEF Next, Process

\* What SuccessSettled rests on: OnSuccess never reports a description that
\* nothing is left to apply, whatever calls and failures come in between.
THEOREM SuccessIsSettling == Spec => []Settling
<1>1. Init => Settling /\ OpsOK
  BY NameAssumption DEF Init, Settling, OpsOK
<1>2. OpsOK /\ [Next]_vars => OpsOK'
  BY NextOps
<1> QED
  BY <1>1, <1>2, NextSettling, PTL DEF Spec
=============================================================================
