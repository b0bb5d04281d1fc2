CONSTANTS
  Namespaces = {ns1, ns2}
  MaxVersion = 2
  MaxNsOps = 1
  NoCR = NoCR
  Nil = Nil
  EmptyData = {}
SPECIFICATION Spec
PROPERTY PendingProcessed
