\* Two filters that link to each other and to themselves, over addresses that are
\* reused and a buffer that one can take from the other; images of three sizes,
\* scaled to widths above, at and near 1/1; settings of the camera that change
\* before, between and after the creation and the first frame.
CONSTANTS
  Filter = {f1, f2}
  Painter = {f2}
  Pix = {p1, p2}
  Buffer = {b1}
  None = None
  Own = Own
  Free = Free
  Image <- MCImage
  Factors <- MCFactors
  MaxWidth = {98, 310, 640}
  Scale = {0, 3}
  Size <- MCSize
  Elapsed <- MCElapsed
SPECIFICATION ImagesSpec
INVARIANTS DestroyedOnce CallsSound ReadsBack CameraSound
PROPERTIES ChoiceNearest
SYMMETRY PixSymmetry
CHECK_DEADLOCK FALSE
