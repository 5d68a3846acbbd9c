CONSTANTS
    Speeds <- MCSpeeds
    MinSpeed = 5
    Watchdog = 3
SPECIFICATION FairSpec
PROPERTY StandsStill
