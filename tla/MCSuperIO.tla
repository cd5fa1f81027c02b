------------------------------ MODULE MCSuperIO ------------------------------
(****************************************************************************)
(* SuperIO under commands that reach every branch of receiveI2c: each       *)
(* register read and written, values at and one beyond each limit, values   *)
(* that are only in range after the 16-bit cut, half-accepted pairs and     *)
(* malformed commands.                                                      *)
(****************************************************************************)
EXTENDS SuperIO

CP == INSTANCE CommandParser

\* The bytes of a command written as a string.
Text(s) == [k \in 1..Len(s) |-> SubSeq(s, k, k)]

GetCommands == {"GLE", "GLP", "GSE", "GSX", "gsy", "GSP"}

OneValueCommands ==
  {"SLE0", "SLE1", "SLE", "SLE2", "SLP0", "SLP255", "SLP256", "SLX1",
   "SSE0", "SSE1", "SSE65537", "SSX500", "SSX501", "SSX2399", "SSX2400",
   "SSY501", "SSY65535", "SSY67035"}

TwoValueCommands ==
  {"SSP501,2399", "SSP2399,501", "SSP1000,2400", "SSP500,1000",
   "SSP65535,1500", "SSP1500,65535", "SSP,", "SSX1000,1000", "GSP1,1"}

Malformed == {"X", "GX", "GSZ", "SSE-1", "SSP1,2,3", " ", "GS", "S"}

MCParsed == {CP!Parse(Text(s)) : s \in GetCommands \cup OneValueCommands
                                       \cup TwoValueCommands \cup Malformed}
=============================================================================
