------------------------------ MODULE MCImages ------------------------------
(***************************************************************************)
(* The parts of the library that work on images on one thread: the filters *)
(* (FilterChain), the JPEG wrapper (TurboJpeg) and the virtual camera      *)
(* (VirtualCamera).  They share no state, no call of one reaches another,  *)
(* and no property is about two of them, so that interleaving them would   *)
(* add nothing: a behaviour follows one of them, and the others keep their *)
(* initial state.  The calls of the JPEG wrapper are two parts, those that *)
(* scale and those that do not: they use different members and arrays.     *)
(***************************************************************************)
EXTENDS FilterChain, TLC

CONSTANTS Image, Factors, MaxWidth, Scale, Size, Elapsed

VARIABLES
  part,  \* the part a behaviour follows
  alive, best, last, rgbBuf, caller, out, want, over, made,  \* TurboJpeg
  size, barcode, buf, gen, frame, changed                    \* VirtualCamera

Jpeg   == INSTANCE TurboJpeg
Camera == INSTANCE VirtualCamera

jpegVars   == <<alive, best, last, rgbBuf, caller, out, want, over, made>>
cameraVars == <<size, barcode, buf, gen, frame, changed>>

ASSUME JpegAssumption ==
  Jpeg!ImageAssumption /\ Jpeg!FactorAssumption /\ Jpeg!RequestAssumption
ASSUME CameraAssumption == Camera!SizeAssumption /\ Camera!ElapsedAssumption

ImagesInit ==
  /\ part \in {"filters", "jpeg", "scaler", "camera"}
  /\ Init /\ Jpeg!Init /\ Camera!Init

FilterStep == part = "filters" /\ Next            /\ UNCHANGED <<part, jpegVars, cameraVars>>
JpegStep   == part = "jpeg"    /\ Jpeg!BufferNext /\ UNCHANGED <<part, vars, cameraVars>>
ScalerStep == part = "scaler"  /\ Jpeg!ScaleNext  /\ UNCHANGED <<part, vars, cameraVars>>
CameraStep == part = "camera"  /\ Camera!Next     /\ UNCHANGED <<part, vars, jpegVars>>

ImagesNext == FilterStep \/ JpegStep \/ ScalerStep \/ CameraStep

ImagesSpec == ImagesInit /\ [][ImagesNext]_<<part, vars, jpegVars, cameraVars>>

\* Every call of the JPEG wrapper writes an image of the size that was asked for,
\* into a buffer that holds it (TurboJpeg).
CallsSound == Jpeg!CallsSound

\* The scaling factor that is chosen is a nearest one, or 1/1 is (TurboJpeg).
ChoiceNearest == Jpeg!ChoiceNearest

\* A barcode of at most seven digits can be read back (VirtualCamera).
ReadsBack == Camera!ReadsBack

\* What the generator copies fits the buffer of the capturer (VirtualCamera).
CameraSound == Camera!CameraSound

\* Addresses are interchangeable: no action and no property tells them apart.
PixSymmetry == Permutations(Pix)

\* libjpeg-turbo's list: 2/1 15/8 7/4 ... 1/4 1/8.
MCFactors == [i \in 1 .. 16 |-> 17 - i]
\* No size contains the next, so that every array can be too short.
MCImage == {<<640, 48>>, <<321, 240>>, <<100, 300>>}
\* Even and odd sides, one size smaller and one larger than another.
MCSize == {<<640, 360>>, <<161, 101>>, <<1280, 720>>}
\* Around the limits: 0, the last value of seven digits, the first of eight, the
\* last an int32 holds, and one in a negative interval.
MCElapsed == {<<0, 0>>, <<0, 1234567>>, <<0, 9999999>>, <<0, 8905640>>,
              <<0, 10000000>>, <<0, 2147483647>>, <<1, 5>>, <<2, 7402938>>}
=============================================================================
