SPECIFICATION Spec
CONSTANTS
  s1 = s1
  s2 = s2
  g1 = g1
  g2 = g2
  n1 = n1
  n2 = n2
  Shutters = {s1, s2}
  Groups = {g1, g2}
  Rules = {r1}
  GroupNames = {n1, n2}
  MaxPosition = 2
SYMMETRY Alike
INVARIANTS TypeOK  GroupsAreAList
