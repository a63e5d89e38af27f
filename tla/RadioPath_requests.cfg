\* Requests of every kind at any step of main's hops.
CONSTANTS
  Channels = {37, 39}
  Requests = {"start", "off", "channel", "antenna", "amp"}
  MaxRequests = 4
SPECIFICATION Spec
INVARIANTS TypeOK OnChannel PathAgrees SessionReceives SettingsKept
CHECK_DEADLOCK FALSE
