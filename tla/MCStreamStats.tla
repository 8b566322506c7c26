---------------------------- MODULE MCStreamStats ----------------------------
(* Small instances of StreamStats for TLC; the values are in the cfg files.  *)
EXTENDS StreamStats

MCHeaderLen == 2
\* A datagram shorter than its own header, and a full one.
MCShortAndFull == {1, 4}
\* What a client sends: datagrams of one length.
MCOneLength == {4}
=============================================================================
