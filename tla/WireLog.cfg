SPECIFICATION Spec
CONSTANTS
    Threads = {t1, t2}
    KeepFiles = 3
    MaxFile = 7
    PCAP_HEADER_LEN = 2
    REC_OVERHEAD = 2
    Segments = {1}
    MaxConns = 2
    MaxChunks = 2
    MaxCrashes = 1
    MaxFailures = 1
INVARIANTS CaptureIsSuffix  
CHECK_DEADLOCK FALSE
SYMMETRY Symmetry
