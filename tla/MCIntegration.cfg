SPECIFICATION Spec
CONSTANTS
    Projects <- MCProjects
    Keys <- MCKeys
    Passwords <- MCPasswords
    MaxFaults = 2
    MaxOutside = 1
    MaxRotations = 1
PROPERTIES
    VerifiedLinksWork
    RerunsSettle
