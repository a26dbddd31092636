--------------------------- MODULE MCTransactions ----------------------------
\* A known and a new volume, or two known ones, a reader and a writer.
EXTENDS Transactions
=============================================================================
