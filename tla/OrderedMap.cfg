SPECIFICATION Spec
CONSTANTS
  Keys = {1, 2, 3, 4, 5, 6, 7, 8}
  null = null
VIEW WithoutResult
INVARIANT Balanced
PROPERTY ImplementsSortedKeys
