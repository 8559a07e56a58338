---------------------------- MODULE MC_TCPSender ----------------------------
(* Model values for checking TCPSender with the direct-caller harness.    *)
EXTENDS TCPSender

\* Three packet regions: a 2-byte memory buffer, a 1-byte file region and
\* a 2-byte file region whose file ends after 1 byte.
MCPacketIds == {"a", "b", "c"}

MemA   == [id |-> "a", kind |-> "mem",  size |-> 2, avail |-> 2]
FileB  == [id |-> "b", kind |-> "file", size |-> 1, avail |-> 1]
ShortC == [id |-> "c", kind |-> "file", size |-> 2, avail |-> 1]
BadC   == [id |-> "c", kind |-> "bad",  size |-> 1, avail |-> 1]

\* Lists whose every region is complete and of a supported kind, lists
\* with an unsupported element, and a list with a short file.
MCPayloads      == {<<MemA>>, <<FileB, MemA>>, <<>>, <<FileB, BadC>>}

MCPayloadsShort == {<<MemA>>, <<ShortC>>}

MCSetupFailures == {CANT_CPU_AFFINITY, CANT_SOCKET_BUFFERS}
=============================================================================
