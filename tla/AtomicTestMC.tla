---------------------------- MODULE AtomicTestMC ----------------------------
\* Machines for TLC: three planes, two CRTCs and two connectors.
EXTENDS AtomicTest, TLC

CONSTANTS k1, k2

Machine(type, crtcs_of, lit, modes) ==
  [ type |-> type, crtcs |-> crtcs_of, rotation |-> {2}, ctm |-> {2},
    color |-> {1}, lit |-> lit, modes |-> modes ]

\* A mode that the video fits on, one that is too low for it, and one that is
\* too small in both directions.
Large == [width |-> 1000, height |-> 900]
Low == [width |-> 1000, height |-> 600]
Small == [width |-> 640, height |-> 480]

Dark == [k \in {k1, k2} |-> 0]

\* A primary plane for each CRTC, and an overlay that either may use.
TwoHeads(lit, modes) ==
  Machine(<<"primary", "overlay", "primary">>, << {1}, {1, 2}, {2} >>, lit, modes)

\* The second CRTC has a plane; the first has two primary ones, or a cursor.
OneHead(type) ==
  Machine(<<"primary", type, "primary">>, << {1}, {1}, {2} >>, Dark, <<Large, Small>>)

MCMachines ==
  { TwoHeads(Dark, <<Small>>), TwoHeads([Dark EXCEPT ![k1] = 1], <<Large>>),
    TwoHeads((k1 :> 1) @@ (k2 :> 2), <<Low>>),
    OneHead("primary"), OneHead("cursor") }

MCNames == Range(Names) \cup {"all"}
=============================================================================
