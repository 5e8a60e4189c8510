SPECIFICATION Spec
CONSTANTS
  Workers = {w1, w2}
  Id = {u1, u2, u3}
  Address = {ann, bob}
  Spelling = {Typed, Lower}
  Lowercase = Lower
  Password = {p1, p2}
  Null = Null
INVARIANTS TypeOK OneAccountPerAddress TokensNameAccounts
PROPERTY LoginRefusedOnlyIfWrong
