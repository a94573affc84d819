CONSTANTS
  ALERT_TIMEOUT_LIMIT = 3
  MAX_AUDIO_SERVICES = 1
  MAX_DATA_SERVICES = 2
  MAX_FRAMES = 3
  Items <- MCItems
  Menus <- MCMenus
  MaxChanges = 3
SPECIFICATION FairSpec
INVARIANTS
  TextsWhole
  
PROPERTIES
  AlertHeld
  Informed
