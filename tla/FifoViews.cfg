SPECIFICATION FairSpec
CONSTANT Size = 3
INVARIANTS Owned Conserved RoomIsSeen
PROPERTIES ViewsAreHarmless Circulates
CHECK_DEADLOCK FALSE
