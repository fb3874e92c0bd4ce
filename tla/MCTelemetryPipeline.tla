------------------------ MODULE MCTelemetryPipeline ------------------------
EXTENDS TelemetryPipeline

Symmetry == Permutations(Db)
=============================================================================
