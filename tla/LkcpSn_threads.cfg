SPECIFICATION Spec
CONSTANTS
    Service = {s1, s2}
    Coroutine = {c1, c2}
    Kcp = {k1, k2}
    Addr = {a1, a2}
    Bytes = {b1, b2}
    None = None
    MaxFailed = 1
INVARIANTS OwnBytes
CHECK_DEADLOCK FALSE
