SPECIFICATION FairSpec
CONSTANTS
  Tab = {t1, t2}
  User = {ann, bob}
  Address = {"private", "login"}
  MaxLogins = 3
  Null = Null
INVARIANTS TypeOK PagesMatchToken
PROPERTIES LoggedOutStaysOut SpinnerEnds ExpiredTokenGoes
