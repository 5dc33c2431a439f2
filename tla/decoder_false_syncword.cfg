\* The packets of decoder_framing, and nothing excepted.
SPECIFICATION Spec
CONSTANTS
    Headers <- AllHeaders
    HeaderBytes = 2
    MaxBytes = 5
INVARIANT
    EveryFrameFound
