\* Two playbooks on three hosts through a tunnel.
SPECIFICATION FairSpec
CONSTANTS
    Hosts = {h1, h2, h3}
    Last = 2
    MaxRetries = 2
    Tunnelled = TRUE
INVARIANTS TunnelSound CompletedUnlessGivenUp
PROPERTIES ImplementsContract Terminates
