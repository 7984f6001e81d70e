\* wxWidgets, and what it needs to be built: Curl, which needs OpenSSL.
CONSTANTS
  Libraries = {"CURL", "OPENSSL", "WXWIDGETS"}
  Kept = {}
  MaxGrabs = 1
  MaxScripts = 2
  MaxInterrupts = 0
SPECIFICATION Spec
INVARIANT CleanupKeepsWhatIsNeeded
CHECK_DEADLOCK FALSE
