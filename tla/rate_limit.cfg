\* Three calls at a time, a limit of three, a window of four ticks.
CONSTANTS
    Calls = {c1, c2, c3}
    max_attempts = 3
    block_seconds = 4
    Hosts = {"198.51.100.7", "203.0.113.9", "172.18.0.5"}
    Proxies = {"172.18.0.5"}
    Emails = {"ana@test.dev", "luis@test.dev"}
    None = None
SPECIFICATION Spec
INVARIANTS
    WindowIsOfRecentAttempts
    EachClientHasItsLimit
PROPERTY BlocksEnd
