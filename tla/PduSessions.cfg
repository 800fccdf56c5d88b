SPECIFICATION Spec
CONSTANTS
    MaxPsi = 1
    MaxPti = 2
    Dnns = {"internet"}
    DefaultSessions <- OneDefault
    MaxExpiry = 2
    MaxSessions = 2
    MaxReleases = 1
    MaxSmfReleases = 1
    MaxFaults = 1
    MaxEvents = 2
 
PROPERTIES EstablishmentKeepsSession ReleaseKeepsSession TransactionsEnd EstablishmentEnds
CHECK_DEADLOCK FALSE
