----------------------------- MODULE MCEventPort -----------------------------
\* A log and a window as receivers; a ring of two, so that it overflows soon.
EXTENDS EventPort
=============================================================================
