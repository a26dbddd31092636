-------------------------- MODULE MCSearchService ---------------------------
\* The user types MaxPosts texts, at any time, and may close the window.
EXTENDS SearchService
=============================================================================
