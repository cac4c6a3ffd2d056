SPECIFICATION LiveFormSpec
CONSTANT MaxClicks = 5
INVARIANTS FormInv TimerNeverOverwrites OnlyClicksDeadlock PollingStopped SettingsFromDevice CleanExit OwnParameters
PROPERTIES KeepsPolling OpenObeyed
CHECK_DEADLOCK FALSE
