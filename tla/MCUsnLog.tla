------------------------------ MODULE MCUsnLog ------------------------------
\* Two volumes; files of two events, so that every session rotates.
EXTENDS UsnLog
=============================================================================
