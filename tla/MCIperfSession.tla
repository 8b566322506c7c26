--------------------------- MODULE MCIperfSession ---------------------------
(* Small instances of IperfSession for TLC; the values are in the cfg files. *)
EXTENDS IperfSession
=============================================================================
