CONSTANTS
  Namespaces = {ns1, ns2}
  MaxVersion = 2
  MaxNsOps = 0
  NoCR = NoCR
  Nil = Nil
  EmptyData = {2}
SPECIFICATION Spec
\* The second content of the config map has an empty data map.
INVARIANT NoLostUpdate
