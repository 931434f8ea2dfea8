----------------------------- MODULE TurboJpeg -----------------------------
(***************************************************************************)
(* The JPEG and colour conversion wrapper TurboJpegEncoder (TJpeg.cpp):    *)
(* the scaling factor it keeps between calls, and the buffers it fills.    *)
(* An image is its size in pixels; what turbojpeg computes is left out,    *)
(* how many bytes it writes is not.  Factors are eighths, so 8 stands for  *)
(* 1/1 and 16 for 2/1; a desired factor is a fraction.                     *)
(***************************************************************************)
EXTENDS Integers, Sequences

CONSTANTS Image,    \* image sizes <<width, height>> that callers use
          Factors,  \* tjGetScalingFactors, in eighths, in its order
          MaxWidth, \* values of the argument maxwidth
          Scale     \* values of the argument scale, in eighths; 0: use maxwidth

\* What is assumed of these (the module that runs this one assumes it by name).
ImageAssumption == Image \subseteq (Nat \ {0}) \X (Nat \ {0})
FactorAssumption == /\ Factors \in Seq(Nat \ {0})  \* every eighth up to 2/1 is there
                    /\ \A n \in 1 .. 16 : \E i \in 1 .. Len(Factors) : Factors[i] = n
RequestAssumption == MaxWidth \subseteq Nat \ {0} /\ Scale \subseteq Nat

VARIABLES
  alive,      \* the encoder is not disposed: jpeg, jpegc are handles
  best,       \* pBestFactor, 0 for nullptr
  last,       \* lwidth, lheight
  rgbBuf,     \* bytes allocated for _rgbBuf, 0 for nullptr
  caller,     \* bytes of the arrays a caller keeps between calls, 0 for null
  out,        \* outcome of the last call: what it wrote, and where
  want,       \* history: the desired factor pBestFactor was chosen for
  over,       \* history: ... and it was chosen over an older factor
  made        \* history: the image a buffer was allocated for

scaleVars == <<best, last, want, over>>
bufVars   == <<rgbBuf, caller, made>>
vars      == <<alive, scaleVars, bufVars, out>>

NoImage == <<0, 0>>
Array == {"yuv", "bgr", "rgb", "jpeg"}
Undesired == <<0, 1>>
NoOutput == [buf |-> "none", need |-> 0, cap |-> 0, img |-> NoImage, dims |-> NoImage,
             for |-> Undesired]

Factor  == {Factors[i] : i \in 1 .. Len(Factors)}
Desired == Nat \X (Nat \ {0})

TypeOK ==
  /\ alive \in BOOLEAN /\ over \in BOOLEAN
  /\ best \in Factor \cup {0}
  /\ last \in Image \cup {NoImage}
  /\ want \in Desired
  /\ rgbBuf \in Nat
  /\ caller \in [Array -> Nat]
  /\ made \in [Array \cup {"native"} -> Image \cup {NoImage}]
  /\ out \in [buf : Array \cup {"none", "native"}, need : Nat, cap : Nat,
              img : Image \cup {NoImage}, dims : Nat \X Nat, for : Desired]

Init ==
  /\ alive = TRUE
  /\ best = 0 /\ last = NoImage /\ want = Undesired /\ over = FALSE
  /\ rgbBuf = 0
  /\ caller = [a \in Array |-> 0]
  /\ made = [a \in Array \cup {"native"} |-> NoImage]
  /\ out = NoOutput

(***************************************************************************)
(* Sizes in bytes.                                                         *)
(***************************************************************************)
Pad(n, to) == ((n + to - 1) \div to) * to
Half(n)    == (n + 1) \div 2

\* TJBUFSIZE: what is allocated for the intermediate RGB image ...
RgbAlloc(s) == Pad(s[1], 16) * Pad(s[2], 16) * 6 + 2048
\* ... what tjBufSize allows for a JPEG, grayscale or 4:2:0 ...
JpegBytes(s, gray) == IF gray THEN Pad(s[1], 8) * Pad(s[2], 8) * 2 + 2048
                      ELSE Pad(s[1], 16) * Pad(s[2], 16) * 3 + 2048
\* ... and what tjDecompress2 with pitch 0 writes to it.
RgbBytes(s) == 3 * s[1] * s[2]
\* tjBufSizeYUV2 with padding 4 and 4:2:0, also what the conversions write.
YuvBytes(s) == Pad(Pad(s[1], 2), 4) * Pad(s[2], 2) + 2 * Pad(Half(s[1]), 4) * Half(s[2])
\* pitch * height of a 24 bit image whose lines are padded.
BgrBytes(s) == Pad(3 * s[1], 4) * s[2]

(***************************************************************************)
(* The scaling factor.                                                     *)
(***************************************************************************)
\* scale > 0 ? scale : min(maxwidth, width) / width
DesiredFactor(s, m, sc) ==
  IF sc > 0 THEN <<sc, 8>> ELSE <<IF m < s[1] THEN m ELSE s[1], s[1]>>

\* |n/8 - d|, times a factor that depends on d alone.
Distance(n, d) == LET x == n * d[2] - 8 * d[1] IN IF x < 0 THEN -x ELSE x

\* One turn of the loop over the list, which has reached p and looks at n.
BadTurn(p, n, d) ==
  IF p.found \/ (p.best # 0 /\ Distance(n, d) >= Distance(p.f, d) /\ Distance(n, d) # 0)
  THEN p ELSE [best |-> n, f |-> IF p.best = 0 THEN n ELSE p.f, found |-> Distance(n, d) = 0]

Turn(p, n, d) ==
  IF p.found \/ (p.best # 0 /\ Distance(n, d) >= Distance(p.f, d) /\ Distance(n, d) # 0)
  THEN p ELSE [best |-> n, f |-> n, found |-> Distance(n, d) = 0]

\* The loop: the factors it looks at are compared by fBestFactor, which starts at
\* 1.0 whatever factor is in hand.
Scan(prev, d) ==
  LET scan[i \in 0 .. Len(Factors)] ==
        IF i = 0 THEN [best |-> prev, f |-> 8, found |-> FALSE]
        ELSE Turn(scan[i - 1], Factors[i], d)
  IN scan

Select(prev, d) == Scan(prev, d)[Len(Factors)].best

\* TJSCALED of both dimensions.
Scaled(s, n) == <<(s[1] * n + 7) \div 8, (s[2] * n + 7) \div 8>>

(***************************************************************************)
(* The calls.  A call on a disposed encoder, or on data whose header does  *)
(* not decode, returns an error before it changes anything.                *)
(***************************************************************************)
Wrote(b, need, cap, s) ==
  out' = [NoOutput EXCEPT !.buf = b, !.need = need, !.cap = cap, !.img = s, !.dims = s]

\* Fill the caller's array a, allocating it if it is null only.
FillOnce(a, s, bytes) ==
  /\ caller' = [caller EXCEPT ![a] = IF @ = 0 THEN bytes ELSE @]
  /\ made' = [made EXCEPT ![a] = IF caller[a] = 0 THEN s ELSE @]
  /\ Wrote(a, bytes, caller'[a], s)

BadGrow(a, s, bytes) ==
  /\ caller' = [caller EXCEPT ![a] = IF @ = 0 THEN bytes ELSE @]
  /\ made' = [made EXCEPT ![a] = IF caller[a] = 0 THEN s ELSE @]

\* Make the caller's array a long enough, allocating it if it is null or too short.
Grow(a, s, bytes) ==
  /\ caller' = [caller EXCEPT ![a] = IF @ < bytes THEN bytes ELSE @]
  /\ made' = [made EXCEPT ![a] = IF caller[a] < bytes THEN s ELSE @]

\* A JPEG that is not 4:2:0 goes through _rgbBuf first.  The decompression may
\* fail, and then the caller's array is not touched.
DecompressRgb(s) ==
  /\ alive
  /\ rgbBuf' = IF rgbBuf = 0 THEN RgbAlloc(s) ELSE rgbBuf
  /\ made' = [made EXCEPT !["native"] = IF rgbBuf = 0 THEN s ELSE @]
  /\ Wrote("native", RgbBytes(s), rgbBuf', s)
  /\ UNCHANGED <<alive, scaleVars, caller>>

\* EncodeJpegToI420 on 4:2:0 data, its second half on other data (after
\* DecompressRgb of the same image), and EncodeI420 into an array.
EncodeToYuv(s) ==
  /\ alive
  /\ FillOnce("yuv", s, YuvBytes(s))
  /\ UNCHANGED <<alive, scaleVars, rgbBuf>>

EncodeI420toBGR24(s) ==
  /\ alive
  /\ FillOnce("bgr", s, BgrBytes(s))
  /\ UNCHANGED <<alive, scaleVars, rgbBuf>>

\* EncodeToJpeg and EncodeGrayToJpeg: tjBufSize bounds what can be written.
EncodeToJpeg(s, gray) ==
  /\ alive
  /\ Grow("jpeg", s, JpegBytes(s, gray))
  /\ Wrote("jpeg", JpegBytes(s, gray), caller'["jpeg"], s)
  /\ UNCHANGED <<alive, scaleVars, rgbBuf>>

\* The image of the size the factor in hand gives it, into the caller's array.
WriteScaled(s, d) ==
  LET dims == Scaled(s, best') IN
  /\ Grow("rgb", s, BgrBytes(dims))
  /\ out' = [buf |-> "rgb", need |-> BgrBytes(dims), cap |-> caller'["rgb"],
             img |-> s, dims |-> dims, for |-> d]
  /\ UNCHANGED <<alive, rgbBuf>>

ChooseFactor(s, d) ==
  /\ best = 0 \/ s # last
  /\ best' = Select(best, d)
  /\ last' = s /\ want' = d /\ over' = (best # 0)

KeepFactor(s) == best # 0 /\ s = last /\ UNCHANGED scaleVars

\* Decompress and scale: the factor is chosen anew only for another size.
EncodeJpeg(s, m, sc) ==
  LET d == DesiredFactor(s, m, sc) IN
  /\ alive
  /\ ChooseFactor(s, d) \/ KeepFactor(s)
  /\ WriteScaled(s, d)

\* DecodeJpeg tells the size EncodeJpeg is to produce; its choice is its own.
DecodeJpeg(s, m, sc) ==
  LET d == DesiredFactor(s, m, sc) IN
  /\ alive
  /\ out' = [NoOutput EXCEPT !.img = s, !.dims = Scaled(s, Select(0, d)), !.for = d]
  /\ UNCHANGED <<alive, scaleVars, bufVars>>

ResetScale ==
  /\ best' = 0 /\ last' = NoImage /\ want' = Undesired /\ over' = FALSE
  /\ UNCHANGED <<alive, bufVars, out>>

\* The destructor; the caller's arrays live on.
Dispose ==
  /\ alive /\ alive' = FALSE
  /\ best' = 0 /\ want' = Undesired /\ over' = FALSE
  /\ rgbBuf' = 0
  /\ made' = [made EXCEPT !["native"] = NoImage]
  /\ UNCHANGED <<last, caller, out>>

\* The calls that only fill buffers, and those that scale; they share the handle.
BufferNext ==
  \/ \E s \in Image :
       \/ DecompressRgb(s) \/ EncodeToYuv(s) \/ EncodeI420toBGR24(s)
       \/ \E gray \in BOOLEAN : EncodeToJpeg(s, gray)
  \/ Dispose

ScaleNext ==
  \/ \E s \in Image, m \in MaxWidth, sc \in Scale :
       EncodeJpeg(s, m, sc) \/ DecodeJpeg(s, m, sc)
  \/ ResetScale \/ Dispose

Next == BufferNext \/ ScaleNext

Spec == Init /\ [][Next]_vars

(***************************************************************************)
(* Properties.                                                             *)
(***************************************************************************)
\* The reference: a factor of the list than which none is nearer.
Nearest(d) == {n \in Factor : \A m \in Factor : Distance(n, d) <= Distance(m, d)}

\* A factor chosen when none is in hand is a nearest one; one chosen over an
\* older factor is, or 1/1 is nearest and the older factor stays: the loop
\* compares with fBestFactor, 1.0 at its start, and not with the factor in hand.
ChoiceNearest ==
  [][last' \notin {last, NoImage} =>
       \/ best' \in Nearest(want')
       \/ best # 0 /\ best' = best /\ 8 \in Nearest(want')]_vars

\* The width EncodeJpeg produces, by a factor selected for this very request
\* with none in hand, and the width DecodeJpeg tells, are within a sixteenth of
\* the image and a pixel of the width asked for, up to twice the image's: maxwidth
\* is aimed at and not a maximum.  A factor selected for another request at the
\* same size (until ResetScale) or over an older one gives no such bound.
WidthNear ==
  LET d == out.for  w == out.img[1] IN
  (/\ out.for # Undesired /\ d[1] <= 2 * d[2] /\ 8 * d[1] >= d[2]
   /\ out.buf = "rgb" => want = d /\ ~over) =>
    /\ 16 * out.dims[1] * d[2] <= (16 * d[1] + d[2]) * w + 16 * d[2]
    /\ 16 * out.dims[1] * d[2] >= (16 * d[1] - d[2]) * w

\* Every call writes what its buffer holds, whatever calls came before it, when
\* the array is checked for its length (jpeg, rgb), and for an image no larger
\* than the one the buffer was made for when it is only checked for null (yuv,
\* bgr, _rgbBuf): one such array serves one size of image, or smaller ones.
BufferHolds ==
  \/ out.need <= out.cap
  \/ /\ out.buf \in {"yuv", "bgr", "native"}
     /\ \E i \in 1 .. 2 : out.img[i] > made[out.buf][i]

\* The two together: a call writes an image of the size that was asked for, into
\* a buffer that holds it.
CallsSound == TypeOK /\ BufferHolds /\ WidthNear
=============================================================================
