SPECIFICATION DeclFairSpec
CONSTANTS
  Decl <- MCDecl
  Programs <- MCPrograms
INVARIANTS TypesFollowDeclarations HandedOutIsStable
PROPERTIES LookupEnds
