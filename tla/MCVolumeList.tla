---------------------------- MODULE MCVolumeList ----------------------------
\* Two volumes and three sessions: seen first, known, started from its row.
EXTENDS VolumeList
=============================================================================
