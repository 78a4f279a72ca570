SPECIFICATION LiveSpec
CONSTANTS
  Bridges <- BoardBridges
  NULL = NULL
  Hazards <- AllHazards
INVARIANTS TypeOK NoFault SettingsBeforeOs ListHasLocation EnabledHasPadding
PROPERTY Boots
CHECK_DEADLOCK FALSE
