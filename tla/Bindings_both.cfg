SPECIFICATION BothSpec
CONSTANTS
    Service = {s1}
    Coroutine = {c1, c2}
    Kcp = {k1, k2}
    ClientKcp = {k1, k2, k3}
    Addr = {a1, a2}
    Bytes = {b1, b2}
    None = None
    MaxFailed = 1
INVARIANTS TypeOK OnCaller Accounted OwnBytes OwnFunction
