----------------------------- MODULE MCWatching ------------------------------
\* Two names, two files, up to three journal records in buffers of one or two.
\* At first there is no file, one, one with two names, or two: what is found
\* otherwise differs by a renaming of names and files.
EXTENDS Watching

CONSTANTS a, b, i1, i2

Files(ofa, ofb) == [n \in Names |-> IF n = a THEN ofa ELSE ofb]
MCFound == {Files(NONE, NONE), Files(i1, NONE), Files(i1, i1), Files(i1, i2)}
=============================================================================
