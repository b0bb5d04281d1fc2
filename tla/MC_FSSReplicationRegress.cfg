CONSTANTS
  Namespaces = {ns1, ns2}
  MaxVersion = 3
  MaxNsOps = 2
  NoCR = NoCR
  Nil = Nil
  EmptyData = {}
SPECIFICATION Spec
PROPERTY CRNeverRegresses
