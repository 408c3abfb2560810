SPECIFICATION Spec
CONSTANTS
  web1 = web1
  web2 = web2
  spell = spell
  Client <- MCClient
  NameOf <- MCNameOf
  Dotted <- MCDotted
  SpelledBy <- MCSpelledBy
  Query = {q1, q2}
  Sync = {s1, s2}
  MaxUses = 3
SYMMETRY Symmetric
INVARIANT CalmUsesKept
INVARIANT UseInv
