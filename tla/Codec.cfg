SPECIFICATION CodecSpec
CONSTANTS
    Depth = 7
    Codecs <- AllCodecs
    Samples <- BoundedEncodings
INVARIANTS
    RoundTrip
    Released
