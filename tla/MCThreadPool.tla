---------------------------- MODULE MCThreadPool ----------------------------
\* Two owners, as the index engine has them: the completion-port pool, which
\* asks for one thread per CPU (here two), and the tasklet queue, which asks
\* for one.
EXTENDS ThreadPool

CONSTANTS o1, o2
TwoForOne == [w \in Owners |-> IF w = o1 THEN 2 ELSE 1]
=============================================================================
