------------------------- MODULE MCIngestSupervisor -------------------------
EXTENDS IngestSupervisor, TLC
=============================================================================
