SPECIFICATION Spec
CONSTANTS
    Clients = {}
    Pages = {"office"}
    Transports = {"sc", "tailscale"}
    CloudUrls = {"wss://cloud"}
    Local = "wss://localhost"
    Default <- NoHub
INVARIANT CloudShowsExternalUrl
