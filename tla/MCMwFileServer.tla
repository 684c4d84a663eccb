--------------------------- MODULE MCMwFileServer ---------------------------
(* Small instances of MwFileServer.                                        *)
EXTENDS MwFileServerInv

CONSTANT f1

Unbuffered(p, n) == [kind |-> "unbuffered", prio |-> p, file |-> f1, chunks |-> n]
Buffered(p, n) == [kind |-> "buffered", prio |-> p, file |-> f1, chunks |-> n]
Open == [kind |-> "open", prio |-> 1, file |-> f1, chunks |-> 0]
Close == [kind |-> "close", prio |-> 1, file |-> f1, chunks |-> 0]

\* every kind of command, and reads of several chunks
AllJobs == {Unbuffered(0, 1), Unbuffered(1, 2), Buffered(1, 1), Open, Close}

\* reads of two priorities
ReadJobs == {Unbuffered(0, 1), Unbuffered(1, 1), Buffered(1, 1)}
=============================================================================
