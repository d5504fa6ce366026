----------------------------- MODULE MCAcpiTables -----------------------------
(***************************************************************************)
(* Bodies with objects of every prefix and width, too narrow, exact and    *)
(* too wide; a name referred to before it is declared, declared twice, cut *)
(* off by the end of the table, and with a value that has no data bytes.   *)
(* MaxFailures is 2, since the bytes of a name come from two queries at    *)
(* most.                                                                   *)
(***************************************************************************)
EXTENDS AcpiTables

Bytes(n)     == [i \in 1..n |-> Old]
Declare(n)   == <<NameOp, Named(n)>>
Number(n, p, size) == Declare(n) \o <<Prefix(p)>> \o Bytes(size)
Text(n, size) == Declare(n) \o <<Prefix("String")>> \o Bytes(size - 1) \o <<Nul>>

MCBodies ==
  {<<Code>> \o Number("SOID", "DWord", 4) \o Number("SIDV", "QWord", 8)
       \o Number("SVMJ", "Byte", 1) \o Number("SOSN", "QWord", 8) \o Number("STOR", "DWord", 4),
   <<Code, Named("SOID"), Code>> \o Number("SOID", "DWord", 4)
       \o Number("SOID", "DWord", 4) \o Number("PLST", "DWord", 4) \o Declare("EMUL"),
   Text("SIDS", 3) \o <<Code>> \o Number("SOSI", "DWord", 4) \o Number("SVMI", "Word", 2),
   Text("SIDS", 5) \o Number("STOR", "Other", 0) \o Number("EMUL", "DWord", 4)
       \o Number("TCMA", "DWord", 4) \o Number("RMTX", "QWord", 8),
   Text("SIDS", 2) \o <<NameOp>> \o Number("PLST", "Word", 2) \o Number("SOSI", "QWord", 8)}
=============================================================================
