SPECIFICATION Spec
CONSTANTS
    QBittorrent = "qbittorrent"
    Filebrowser = "filebrowser"
    Arrs <- MCArrs
    Passwords <- MCPasswords
    Keys <- MCKeys
    MaxFaults = 2
    MaxRotations = 1
PROPERTY RotationIsTransactional
