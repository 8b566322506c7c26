-------------------------- MODULE MCBandwidthControl --------------------------
\* BandwidthControl with a second of 1000 ticks and a word of 4295, as
\* 10^9 ns and 2^32 are to each other.
EXTENDS BandwidthControl
works == {3, 7, 20}
uptimes == {20, 1000000}
=============================================================================
