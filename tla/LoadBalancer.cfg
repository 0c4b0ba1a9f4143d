\* Two backends that come and go.
SPECIFICATION Spec
CONSTANTS
    Hosts = {"h1", "h2"}
    MaxWeight = 2
    MaxHosts = 2
    ChannelSize = 2
    None = None
INVARIANT HealthyHostsAreFound
CHECK_DEADLOCK FALSE
