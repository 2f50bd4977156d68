--------------------------- MODULE MCDeviceHealth ---------------------------
\* Instances of DeviceHealth for TLC.
EXTENDS DeviceHealth, TLC

\* Everybody a registrant: another request differs from one that authenticates
\* just before it finds the row only in when it authenticates.
Interchangeable == Permutations(Session)
=============================================================================
