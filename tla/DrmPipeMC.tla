----------------------------- MODULE DrmPipeMC -----------------------------
(***************************************************************************)
(* A family of small machines for DrmPipe: two cards, two connectors on    *)
(* the first and one on the second, sharing encoders and CRTCs so that the *)
(* search has to go back, with connectors that are tied, ranked to be      *)
(* skipped, unplugged, unreadable, or without a usable CRTC.               *)
(***************************************************************************)
EXTENDS DrmPipe, TLC

CONSTANTS c1, c2, c3, e1, e2, e3, lvds, hdmi, vga

MCMachine(card, connected, types, e1_crtcs, e2_crtcs, flaky) ==
  [ card |-> 0 :> card @@ 1 :> "kms",
    connectors |-> 0 :> <<c1, c2>> @@ 1 :> <<c3>>,
    count_crtcs |-> 0 :> 2 @@ 1 :> 1,
    connected |-> connected,
    connector_type |-> types,
    encoders |-> c1 :> <<e1, e2>> @@ c2 :> <<e2>> @@ c3 :> <<e3>>,
    possible_crtcs |-> e1 :> e1_crtcs @@ e2 :> e2_crtcs @@ e3 :> {0, 1},
    flaky |-> flaky ]

MCHardware ==
  { MCMachine(card, connected, c1 :> t1 @@ c2 :> t2 @@ c3 :> t3, x1, x2, flaky) :
      card \in {"kms", "no_kms"},
      connected \in {{c1, c2, c3}, {c2, c3}},
      t1 \in {lvds, vga}, t2 \in {hdmi}, t3 \in {lvds, hdmi},
      x1 \in {{}, {0}}, x2 \in {{1}},
      flaky \in {{}, {c1, e1, e2}} }

MCRankTables ==
  { << <<lvds, 1>>, <<hdmi, 2>> >>,
    << <<lvds, Skip>>, <<hdmi, 0>>, <<AnyType, 1>> >> }

MCMasks == {{0, 1}, {1}}
=============================================================================
