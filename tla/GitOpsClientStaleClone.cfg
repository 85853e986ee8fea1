SPECIFICATION Spec
CONSTANTS
    Replicas = {n1}
    Calls = {c1, c2}
    Paths = {p1, p2}
    Contents = {v1, v2}
    Faults = {"commit"}
    NoFile = NoFile
    NoCall = NoCall
PROPERTIES
    AcknowledgedIsPushed
