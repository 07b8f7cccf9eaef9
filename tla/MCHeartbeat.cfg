CONSTANTS
  Interval = 4
  Timeout = 10
  Slack = 2
  Startup = 7
SPECIFICATION HeartbeatSpec
INVARIANT HeartbeatTypeOK
INVARIANT NoFalseTimeout
INVARIANT JoinIsPrompt
PROPERTY SilenceIsNoticed
