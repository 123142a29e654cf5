SPECIFICATION Spec
CONSTANTS
    r1 = r1
    r2 = r2
    s1 = s1
    s2 = s2
    e1 = e1
    e2 = e2
    e3 = e3
    None = None
    Receivers = {r1}
    Stores = {s1, s2}
    Envelopes = {e1, e2}
    Expiry <- MixedExpiry
    MaxReplayEntries = 2
    MaxTime = 2
    Anomalies <- NoAnomalies
INVARIANT AtMostOnce
