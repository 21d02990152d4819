--------------------------- MODULE MCLowFatStartup ---------------------------
EXTENDS LowFatStartup
=============================================================================
