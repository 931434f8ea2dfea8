SPECIFICATION Spec
CONSTANT MaxStreams = 3
INVARIANTS InitedMeansOpen GapIsRequested DeltaOnlyWithoutGap
