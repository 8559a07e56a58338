------------------------- MODULE MC_RealTimeSystem -------------------------
(* Model values for RealTimeSystem: the two caller buffers                 *)
(* (user_packets_list of run() and the by-value list of send_before_run)  *)
(* and packet lists of one one-byte packet, from memory or from a file.   *)
EXTENDS RealTimeSystem

MCPacketIds == {"a", "b"}

MemA  == [id |-> "a", kind |-> "mem",  size |-> 1, avail |-> 1]
FileB == [id |-> "b", kind |-> "file", size |-> 1, avail |-> 1]

MCPayloads == {<<MemA>>, <<FileB>>}

MCBuffers == {"user", "handshake"}

MCSetupFailures == {CANT_SOCKET_BUFFERS}

====
