CONSTANTS
  TcpClient = {c1, c2}
  TcpListener = {l1, l2}
  Fd <- MCFd
  Quad <- MCQuad
  Port <- MCPort
  Backlog = 1
SYMMETRY Interchangeable
SPECIFICATION SocketSpec
INVARIANTS
  OneOwner
  AddressesAreTrue
  PortsAreReusable
  ErrorsAreTruthful
PROPERTY ImplementsOwnership
