----------------------------- MODULE MCUdpRelay -----------------------------
EXTENDS UdpRelay
=============================================================================
