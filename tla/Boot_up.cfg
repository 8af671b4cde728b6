SPECIFICATION Spec
INVARIANT OneLookupIsEnough
PROPERTY ComesUp
