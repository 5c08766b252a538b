SPECIFICATION LiveSpec
CONSTANTS
    Clients = {"c1", "c2"}
    Pages = {"office"}
    Transports = {"sc", "tailscale"}
    CloudUrls = {"wss://cloud"}
    Local = "wss://localhost"
    Default <- NoHub
INVARIANT TypeOK
INVARIANT EmbeddedIsReversible
PROPERTY HubRoundTrip
PROPERTY HubModeIsServed
