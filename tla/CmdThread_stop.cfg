SPECIFICATION LiveSpec
CONSTANT MaxClicks = 3
PROPERTY StopObeyed
CHECK_DEADLOCK FALSE
