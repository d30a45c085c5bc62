SPECIFICATION StatusSpec
CONSTANTS
  Instances = {i}
  Ingresses = {g}
  MaxWrites = 0
  MaxApiFailures = 1
PROPERTY StatusIsSet
