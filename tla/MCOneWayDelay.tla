----------------------------- MODULE MCOneWayDelay -----------------------------
\* Small instances of OneWayDelay.
EXTENDS OneWayDelay
anyPointer == {"ok", "fault", "stray"}
mappedPointer == {"ok"}
=============================================================================
