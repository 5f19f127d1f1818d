SPECIFICATION TransportSpec
CONSTANTS
    HeadSize = 4
    LenSize = 2
    LenMod = 9
    BufSize = 8
    MaxFrame = 3
    MaxAgeDigits = 5
INVARIANTS
    TransportTypeOK
    Intact
    Framed
    MotionAsTold
    DiesOfOldDigits
PROPERTIES
    PictureReceived
\* A behaviour follows one packet.
CHECK_DEADLOCK FALSE
