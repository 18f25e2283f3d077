CONSTANTS
    DHCP_MIN_LEASE = 20
    DHCP_INFINITE_LIFETIME = 100
    Reboot = 5
    LastLease = TRUE
    Offers <- SomeOffers
    MaxClock = 36
SPECIFICATION MCSpec
INVARIANT SlaIsAdded
CHECK_DEADLOCK FALSE
