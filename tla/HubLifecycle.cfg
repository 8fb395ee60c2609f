SPECIFICATION FairSpec
CONSTANTS
  Ports = {1, 2, 3, 4}
  Preferred = 1
  Scenarios = {
    {"drop", "crash", "crashBusy", "ackLost", "pollTimeout", "early"},
    {"drop", "crash", "crashAdopted", "reload", "latePost", "graceRace", "reparented"},
    {"drop", "crash", "reload"},
    {"ackLost", "reload"},
    {"drop", "crash", "ackLost", "early"}}
  MaxFaults = 3
  MaxCommands = 2
INVARIANTS SecretsAgree ClientSecretFresh OneHub NoOrphan
PROPERTY LinkComesBack
CHECK_DEADLOCK FALSE
