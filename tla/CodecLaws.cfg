\* All buffers of up to ten bytes with three values, and those of up to nine
\* with a long stretch of zeros behind them: an int counts to 40, two frames
\* pass it, and so does one that holds the stretch; the sizes 77 to 80 wrap.
SPECIFICATION BytesSpec
CONSTANTS
    ByteBase = 3
    MaxLen = 10
    Stretches = {36, 37}
INVARIANTS
    ReadIsWhatWasParsed
    ChunkingDoesNotMatter
    RoundTrip
CHECK_DEADLOCK FALSE
