CONSTANT
  None = None
SPECIFICATION Spec
PROPERTY OneAxisMoves
