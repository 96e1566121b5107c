---------------------- MODULE MCRevisionCoordinator ----------------------
EXTENDS RevisionCoordinator, TLC
=============================================================================
