---------------------------- MODULE MCLossyStream ----------------------------
(* Small instances of LossyStream for TLC; the values are in the cfg files.  *)
EXTENDS LossyStream

MCHeaderLen == 2
MCOneLength == {4}
=============================================================================
