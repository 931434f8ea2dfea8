SPECIFICATION Spec
CONSTANT MaxStreams = 1
INVARIANT KeyBeforeDelta
