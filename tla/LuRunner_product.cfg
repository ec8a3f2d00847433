CONSTANT MaxM = 4
SPECIFICATION LuSpec
INVARIANT LTimesUIsA
CHECK_DEADLOCK FALSE
