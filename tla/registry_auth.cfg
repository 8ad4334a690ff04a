SPECIFICATION FairSpec
CONSTANTS
    Scopes = {s1, s2}
    Hosts = {gitlab, elsewhere}
    AllowedHosts = {gitlab}
    MaxTokens = 3
    NoToken = NoToken
    Static = Static
CHECK_DEADLOCK FALSE
INVARIANTS TypeOK RejectedTokenIsDropped OnlyAllowedHostsAsked
PROPERTIES RecoversFromExpiry
