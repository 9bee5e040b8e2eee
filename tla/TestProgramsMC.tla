--------------------------- MODULE TestProgramsMC ---------------------------
(* Every program and both clients; the builder's client has buffer objects  *)
(* of one, three and five planes, one more than a request takes.            *)
EXTENDS TestPrograms

MCPrograms == Scripted \cup Clients

MCBos ==
  { [name |-> 11, format |-> "XRGB8888", planes |-> 1],
    [name |-> 12, format |-> "YVU420", planes |-> 3],
    [name |-> 13, format |-> "NV12", planes |-> 5] }

MCFbFormats == {"XRGB8888", Null}
=============================================================================
