SPECIFICATION AdmissionSpec
CONSTANTS
  Name = {n1}
  Password = {pw1, pw2}
  Token = {s1}
  AdminToken = admin
  SourceIp = {ip1}
  ApiLimit = 2
  UdpLimit = 1
  Window = 2
  SessionTtl = 2
  Task = {t1, t2}
  MaxLag = 1
  MaxBusy = 2
  Watched = "login"
SYMMETRY Interchangeable
INVARIANTS
  WithinRate
  CountsOwnTraffic
  SessionsMatchAccounts
  
PROPERTIES
  TokensExpire
