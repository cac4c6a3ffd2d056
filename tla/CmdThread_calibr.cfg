SPECIFICATION LiveSpec
CONSTANT MaxClicks = 3
PROPERTY CalibrPolls
CHECK_DEADLOCK FALSE
