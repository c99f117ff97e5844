CONSTANTS
  Tab = {b1, b2}
  State = {s1, s2, s3}
  Request = {r1, r2}
  Home = home
  None = none
  Account = {a1}
  CookieLife = 2
  MaxLogouts = 1
SPECIFICATION FairLogin
PROPERTIES
  ReturnsToRequest
  SignInEnds
