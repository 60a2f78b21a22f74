SPECIFICATION Spec
INVARIANTS
  TypeOK
  ResultMatchesEvents
  GatheredIsSent
PROPERTIES
  ImplementsClientView
