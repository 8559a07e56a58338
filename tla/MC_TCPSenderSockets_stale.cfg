\* A bind failure on the last addrinfo result leaves server_sock_fd_ at a
\* closed number; the next end_sender() closes it again.
CONSTANTS
  Fds = {3, 4, 5}
  NumAddrs = 2
SPECIFICATION Spec
PROPERTIES
  AppFileStable
