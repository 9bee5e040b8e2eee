----------------------------- MODULE DrmOpenMC -----------------------------
(***************************************************************************)
(* A family of small machines for DrmOpen: three cards, of which the first *)
(* has two connectors that share an encoder, with absent cards, cards      *)
(* without mode setting, unplugged and unreadable connectors, encoders     *)
(* that reach no CRTC, and tied ranks.                                     *)
(***************************************************************************)
EXTENDS DrmOpen, TLC

CONSTANTS c1, c2, c3, c4, e1, e2, e3, lvds, dsi, hdmi, vgem, i915

MCMachine(card0, card1, connected, types, crtcs, flaky) ==
  [ card |-> 0 :> card0 @@ 1 :> card1 @@ 2 :> "kms",
    connectors |-> 0 :> <<c1, c2>> @@ 1 :> <<c3>> @@ 2 :> <<c4>>,
    count_crtcs |-> 0 :> 1 @@ 1 :> 1 @@ 2 :> 1,
    connected |-> connected,
    connector_type |-> types,
    encoders |-> c1 :> <<e1>> @@ c2 :> <<e1, e2>> @@ c3 :> <<e2>> @@ c4 :> <<e3>>,
    possible_crtcs |-> e1 :> crtcs @@ e2 :> {0} @@ e3 :> {0},
    flaky |-> flaky ]

MCHardware ==
  { MCMachine("kms", card1, connected, c1 :> hdmi @@ c2 :> t2 @@ c3 :> t3 @@ c4 :> hdmi,
              crtcs, flaky) :
      card1 \in {"kms", "no_kms", "absent"},
      connected \in {{c1}, {c1, c2, c3}, {c2, c3, c4}, {c1, c2, c3, c4}},
      t2 \in {dsi, hdmi}, t3 \in {lvds, dsi, hdmi},
      crtcs \in {{0}, {1}},
      flaky \in {{}, {c2, e2}, {c3}} }

MCCardDrivers ==
  {0 :> i915 @@ 1 :> vgem @@ 2 :> vgem, 0 :> i915 @@ 1 :> Null @@ 2 :> i915}

MCInternal == lvds :> 1 @@ dsi :> 2
=============================================================================
