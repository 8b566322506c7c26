------------------------------- MODULE MCJitter -------------------------------
(* Small instances of Jitter for TLC; the values are in the cfg files.       *)
EXTENDS Jitter

MCStarts == {3, 5}
MCGaps == {0, 1, 3}
MCWideGaps == {0, 2, 7}
=============================================================================
