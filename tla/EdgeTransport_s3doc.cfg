CONSTANTS
    Supernode = {a}
    NoSn = NoSn
    Confs <- OnlyS3
    Envs <- UnsteadyTcp
    SharedSecret = TRUE
    N2N_EDGE_SUP_ATTEMPTS = 3
    N2N_TCP_REGISTER_SOFT_RETRIES = 2
    N2N_CLOSE_SOCKET_COUNTER_MAX = 15
    CloseMaxNoFallback = 3
SPECIFICATION Spec
CHECK_DEADLOCK FALSE
PROPERTIES
    UdpTriedBetweenFallbacks
