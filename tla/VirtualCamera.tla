--------------------------- MODULE VirtualCamera ---------------------------
(***************************************************************************)
(* The virtual camera: YuvFramesCapturer2 (defaults.cc), the settings of   *)
(* the conductor it reads at different times, and the barcode that the     *)
(* test frames carry (yuvframegenerator.cc).                               *)
(*                                                                         *)
(* Three sizes have to agree: the conductor's current one, the one of the  *)
(* buffer (taken when the capturer is made) and the one of the generator   *)
(* (taken at the first frame with a barcode).  The landscape and the       *)
(* moving figures are left out; the bars of the barcode are not.           *)
(***************************************************************************)
EXTENDS Integers, Sequences, FiniteSets

CONSTANTS Size,    \* sizes <<width, height>> given to SetVideoCapturer
          Elapsed, \* nanoseconds since Start, as <<n \div 2^31, n % 2^31>>
          None

\* The generator asserts that the barcode's background fits the frame
\* (the module that runs this one assumes both by name).
SizeAssumption ==
  \A s \in Size : s \in Nat \X Nat /\ s[1] >= 160 /\ s[2] >= 100
ElapsedAssumption ==
  \A t \in Elapsed : t \in Nat \X Nat /\ t[2] <= 2147483647

VARIABLES
  size,     \* width_, height_ of the conductor
  barcode,  \* barcodeEnabled
  buf,      \* size of video_buffer and video_frame, None without a capturer
  gen,      \* size of frame_generator_, None for nullptr
  frame,    \* the last frame with a barcode or without, None before it
  changed   \* history: the size changed since the capturer was made

vars == <<size, barcode, buf, gen, frame, changed>>

(***************************************************************************)
(* The barcode: digits, bars, and where they are drawn.                    *)
(***************************************************************************)
MaxDigits   == 7     \* kBarcodeMaxEncodableDigits
Background  == 160   \* kBarcodeBackgroundWidth
BarsXOffset == 12
UnitBar     == 2

\* static_cast<int32_t>: negative in every second interval of 2^31 ns; None
\* stands for the negative values, with which no barcode is drawn.
Truncated(t) == IF t[1] % 2 = 0 THEN t[2] ELSE None

Power10 == <<1, 10, 100, 1000, 10000, 100000, 1000000, 10000000, 100000000, 1000000000>>

\* The decimal digits of n, padded with zeros to MaxDigits.  2^31 has ten.
Digits(n) ==
  LET shown == CHOOSE k \in MaxDigits .. 10 :
                 /\ k = 10 \/ n < Power10[k + 1]
                 /\ k = MaxDigits \/ n >= Power10[k]
  IN [i \in 1 .. shown |-> (n \div Power10[shown - i + 1]) % 10]

\* The weighted sums of d's first digits: three times the first, once the second ...
Sums(d) ==
  LET sum[i \in 0 .. Len(d)] ==
        IF i = 0 THEN 0 ELSE sum[i - 1] + d[i] * (IF i % 2 = 1 THEN 3 ELSE 1)
  IN sum

\* Of the first MaxDigits digits, whatever follows them.
CheckDigit(d) == (10 - (Sums(d)[MaxDigits] % 10)) % 10

ComputeBarcodeDigits(n) == Append(Digits(n), CheckDigit(Digits(n)))

Ean  == <<13, 25, 19, 61, 35, 49, 47, 59, 55, 11>>
Mask == <<64, 32, 16, 8, 4, 2, 1>>

\* Is unit k of digit d black?  (flipped: the complement)
Black(d, k, flip) == ((Ean[d + 1] \div Mask[k + 1]) % 2 = 1) # flip

\* The unit where digit i starts: the left guard, the digits before it, and
\* the middle guard ahead of the fifth.
BadStart(i) == 3 + 7 * (i - 1) + (IF i > 5 THEN 5 ELSE 0)
Start(i)    == 3 + 7 * (i - 1) + (IF i > 4 THEN 5 ELSE 0)

\* The black units of a code.
Bars(code) ==
  LET n == Len(code)  end == Start(n) + 7 IN
  {0, 2} \cup {32, 34} \cup {end, end + 2}
    \cup UNION {{Start(i) + k : k \in {j \in 0 .. 6 : Black(code[i], j, i > 4)}}
                 : i \in 1 .. n}

\* The first column to the right of every bar.
RightEdge(code) ==
  BarsXOffset + UnitBar * (CHOOSE u \in Bars(code) : \A v \in Bars(code) : v <= u) + UnitBar

(***************************************************************************)
(* Sizes in bytes: the generator copies Y, U and V one after the other,    *)
(* and the buffer has them at I420Buffer's offsets.                        *)
(***************************************************************************)
BadGenChroma(s) == ((s[1] + 1) \div 2) * s[2]
GenChroma(s) == (s[1] * s[2]) \div 4
BufChroma(s) == ((s[1] + 1) \div 2) * ((s[2] + 1) \div 2)
GenBytes(s)  == s[1] * s[2] + 2 * GenChroma(s)
BufBytes(s)  == s[1] * s[2] + 2 * BufChroma(s)

TypeOK ==
  LET Sizes == Size \cup {<<640, 360>>} IN
  /\ size \in Sizes /\ barcode \in BOOLEAN /\ changed \in BOOLEAN
  /\ buf \in Sizes \cup {None} /\ gen \in Sizes \cup {None}
  /\ \/ frame = None
     \/ /\ DOMAIN frame = {"code", "value", "drawn", "told"}
        /\ frame.code \in Seq(0 .. 9)
        /\ frame.value \in Nat \cup {None}
        /\ frame.drawn \in BOOLEAN
        /\ frame.told \in Sizes

Init ==
  /\ size = <<640, 360>> /\ barcode = FALSE
  /\ buf = None /\ gen = None /\ frame = None /\ changed = FALSE

(***************************************************************************)
(* Actions.                                                                *)
(***************************************************************************)
SetVideoCapturer(s, b) ==
  /\ size' = s /\ barcode' = b
  /\ changed' = (changed \/ (buf # None /\ s # size))
  /\ UNCHANGED <<buf, gen, frame>>

\* new YuvFramesCapturer2(*this), in AddStreams.
Create ==
  /\ buf = None
  /\ buf' = size /\ gen' = None /\ frame' = None /\ changed' = FALSE
  /\ UNCHANGED <<size, barcode>>

\* A frame the adapter does not drop.  The generator is made at the first one
\* with a barcode and of the size at that time, and it is kept.
PushFrame(t) ==
  LET drawn == barcode
      value == IF drawn THEN Truncated(t) ELSE None
  IN
  /\ buf # None
  /\ gen' = IF drawn /\ gen = None THEN size ELSE gen
  /\ frame' = [code  |-> IF value = None THEN <<>> ELSE ComputeBarcodeDigits(value),
               value |-> value, drawn |-> drawn, told |-> size]
  /\ UNCHANGED <<size, barcode, buf, changed>>

\* The destructor: the frame, the generator and the buffer.
Destroy ==
  /\ buf # None
  /\ buf' = None /\ gen' = None /\ frame' = None /\ changed' = FALSE
  /\ UNCHANGED <<size, barcode>>

Next ==
  \/ \E s \in Size, b \in BOOLEAN : SetVideoCapturer(s, b)
  \/ Create \/ Destroy
  \/ \E t \in Elapsed : PushFrame(t)

Spec == Init /\ [][Next]_vars

(***************************************************************************)
(* Properties.                                                             *)
(***************************************************************************)
\* The reference reader of an EAN-8 code: it samples the units where that
\* code has its eight digits and looks each pattern up.
Reader(bars) ==
  LET left(i)  == 3 + 7 * (i - 1)
      right(i) == 36 + 7 * (i - 5)
      isDigit(d, at, r) == \A k \in 0 .. 6 : Black(d, k, r) <=> (at + k) \in bars
  IN [i \in 1 .. 8 |-> IF i <= 4 THEN {d \in 0 .. 9 : isDigit(d, left(i), FALSE)}
                                 ELSE {d \in 0 .. 9 : isDigit(d, right(i), TRUE)}]

\* The numbers that the first digits of a code spell.
Number(code) ==
  LET number[i \in 0 .. Len(code)] == IF i = 0 THEN 0 ELSE 10 * number[i - 1] + code[i]
  IN number

\* A value of at most MaxDigits digits can be read back from its bars: eight
\* digits, each recognised as itself alone, the first seven of which spell the
\* value, with the check sum of EAN-8, all within the white background.
ReadsBack ==
  (frame # None /\ frame.code # <<>> /\ frame.value < Power10[MaxDigits + 1]) =>
    LET c == frame.code IN
    /\ Len(c) = 8
    /\ \A i \in 1 .. 8 : Reader(Bars(c))[i] = {c[i]}
    /\ Number(c)[MaxDigits] = frame.value
    /\ Sums(c)[8] % 10 = 0
    /\ RightEdge(c) <= Background

\* What the generator copies fits the buffer, and for even sizes its planes lie
\* where the buffer has them; unless the size changed between the creation of the
\* capturer and the first frame with a barcode.
FrameFits ==
  (frame # None /\ frame.drawn) =>
    \/ changed
    \/ /\ GenBytes(gen) <= BufBytes(buf)
       /\ (buf[1] % 2 = 0 /\ buf[2] % 2 = 0) => GenChroma(gen) = BufChroma(buf)
       /\ frame.told = buf

\* The three sizes are sound, whenever the settings change.
CameraSound == TypeOK /\ FrameFits
=============================================================================
