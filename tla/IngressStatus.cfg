SPECIFICATION StatusSpec
CONSTANTS
  Instances = {i, j}
  Ingresses = {g}
  MaxWrites = 2
  MaxApiFailures = 1
INVARIANT PeersDoNotFail
PROPERTY EventuallySet
