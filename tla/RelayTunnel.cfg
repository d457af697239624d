SPECIFICATION Spec
CONSTANTS
    Client = client
    NoSocket = none
    Requests = {s1, s2, s3}
INVARIANTS OwnedExactlyOnce OneServerPerTunnel NoUnreadyLeak
PROPERTIES HandshakeEnds ImplementsLifecycle
