SPECIFICATION Spec
CONSTANTS
  Cap = 9
  Ys = {{}, {1}, {2, 3}}
  Protocols = {0, 1, 15}
  MaxTD = 2
  MaxHist = 2
INVARIANTS
  TypeOK
  AtrFaithful
  ConventionFollowed
PROPERTIES
  EndsWithCard
