\* Descriptors of TCPSender with two addrinfo results and three descriptor
\* numbers: no socket leaks.
CONSTANTS
  Fds = {3, 4, 5}
  NumAddrs = 2
SPECIFICATION Spec
INVARIANTS
  SocketsTypeOK
  NoSocketLeak
