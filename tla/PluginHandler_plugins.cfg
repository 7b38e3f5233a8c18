SPECIFICATION FairSpec
CONSTANTS
  PluginCount = 2
  MaxStreams = 2
  Notifications = 2
INVARIANTS
  NoPluginLeft
  LivePluginsHearAll
  OneStreamNeverCrashes
PROPERTIES
  Terminates
CHECK_DEADLOCK FALSE
