---------------------------- MODULE MCIndexEngine ----------------------------
\* Up to three volumes, one of which may fail its check, one or two
\* completion-port threads; the bounds are in the configurations.
EXTENDS IndexEngine
=============================================================================
