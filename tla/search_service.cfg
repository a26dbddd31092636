CONSTANT MaxPosts = 3
SPECIFICATION SearchSpec
INVARIANT ViewWhole
PROPERTY LastTextSearched
CHECK_DEADLOCK FALSE
