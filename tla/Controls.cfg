CONSTANT
  None = None
SPECIFICATION Spec
INVARIANTS SetIsSeen ListIsSound
PROPERTIES WriteLandsOnShown 
