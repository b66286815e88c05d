------------------------------ MODULE MCSftpFile ------------------------------
EXTENDS SftpFile, TLC

CONSTANTS h1, h2

UseOf(o1, o2, sizes, seeks, short, fault, requests) ==
    [ops |-> (h1 :> o1 @@ h2 :> o2), sizes |-> sizes, seeks |-> seeks,
     short |-> short, fault |-> fault, requests |-> requests]

One(ops, sizes, seeks, short, fault, requests) ==
    UseOf(ops, {}, sizes, seeks, short, fault, requests)

\* Reading and writing with several buffer sizes; reading with seeks, short
\* answers and errors; writing with errors, and with seeks; two files in turns.
MCUses ==
    { One({"read"}, {1, 3}, {}, FALSE, FALSE, 10),
      One({"write"}, {1, 2, 3}, {}, FALSE, FALSE, 10),
      One({"read", "close"}, {2}, {1}, TRUE, FALSE, 6),
      One({"read"}, {1}, {0}, FALSE, TRUE, 5),
      One({"write", "close"}, {1, 3}, {}, FALSE, TRUE, 5),
      One({"write"}, {1, 2}, {1}, FALSE, FALSE, 4),
      UseOf({"read", "close"}, {"read"}, {2}, {}, FALSE, FALSE, 5),
      UseOf({"read"}, {"read"}, {1}, {}, FALSE, FALSE, 5),
      One({"read"}, {3}, {}, FALSE, TRUE, 8),
      UseOf({"read"}, {"write"}, {2}, {}, FALSE, FALSE, 6) }

\* One handle is read from and written to.
RWUses == { One({"read", "write"}, {1, 2}, {}, FALSE, FALSE, 6) }

\* Two files are read in turns, with buffers smaller than the answers.
TurnUses == { UseOf({"read"}, {"read"}, {1}, {}, FALSE, FALSE, 6) }

\* One file is read with two requests ahead.
AheadUses == { One({"read"}, {2}, {}, FALSE, FALSE, 5) }
===============================================================================
