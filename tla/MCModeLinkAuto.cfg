CONSTANTS
    Cameras = {c1}
    Kinds <- MCKinds
    Sockets = {s1, s2}
    None = None
    MaxWire = 2
SPECIFICATION Spec
INVARIANT AutoFollowsMotion
