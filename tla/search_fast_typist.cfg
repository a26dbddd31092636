CONSTANT MaxPosts = 3
SPECIFICATION SearchSpec
INVARIANT LastTextShown
CHECK_DEADLOCK FALSE
