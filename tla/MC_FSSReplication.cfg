CONSTANTS
  Namespaces = {ns1, ns2}
  MaxVersion = 2
  MaxNsOps = 2
  NoCR = NoCR
  Nil = Nil
  EmptyData = {}
SPECIFICATION Spec
\* Two config map contents and two namespace operations keep the fair-cycle
\* search for Converges within the time limit.
INVARIANTS TypeOK NoLostUpdate
PROPERTIES Converges PendingClearedOnlyWhenDone
