--------------------------- MODULE MCTaskletQueue ---------------------------
\* One worker, as tasklet_queue_t allocates it, and two threads that enqueue.
EXTENDS TaskletQueue
=============================================================================
