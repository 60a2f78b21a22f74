SPECIFICATION Spec
CONSTANT MaxLength = 4
INVARIANT ThoughtsAreStripped
