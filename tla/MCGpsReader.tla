----------------------------- MODULE MCGpsReader -----------------------------
EXTENDS GpsReader
==============================================================================
