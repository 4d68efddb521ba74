SPECIFICATION CacheSpec
CONSTANTS
  main = main
  http = http
  wallet = wallet
  Owner = main
  tcp = tcp
  tcpSsl = tcpSsl
  Threads <- TwoThreads
  Callees <- OneCallee
  Transports <- TwoTransports
SYMMETRY Interchange
INVARIANTS
  AnsweredAsAsked
  OneClientPerKey
