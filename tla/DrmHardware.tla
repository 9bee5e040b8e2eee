---------------------------- MODULE DrmHardware ----------------------------
(***************************************************************************)
(* What the kernel's mode setting interface shows of the machine to        *)
(* bsdrm: cards, and on each card connectors, encoders and CRTCs.  libdrm  *)
(* and the kernel are not in the repository; this module is their model,   *)
(* as bsdrm/src/drm_pipe.c and bsdrm/src/drm_open.c use them.              *)
(***************************************************************************)
EXTENDS Integers, Sequences, FiniteSets

CONSTANTS
  DRM_MAX_MINOR,   \* cards are /dev/dri/card0 .. card(DRM_MAX_MINOR-1)
  MaskBits,        \* width of a CRTC mask: 32 in the code
  Connectors,      \* connector ids, of all cards
  Encoders,        \* encoder ids, of all cards
  Types,           \* connector types (DRM_MODE_CONNECTOR_*)
  AnyType,         \* bs_drm_connectors_any, a wildcard in a rank table
  Skip,            \* bs_rank_skip, larger than every rank
  Hardware         \* the machines considered

Minor == 0 .. DRM_MAX_MINOR - 1

\* Bits of the masks drmModeEncoder.possible_crtcs and crtc_mask, which are
\* the indices of the CRTCs of a card.
CrtcIndex == 0 .. MaskBits - 1

\* A machine.  flaky holds the connectors and encoders for which
\* drmModeGetConnector and drmModeGetEncoder may return NULL, now or later
\* (an unplugged MST connector, say); every other one is always readable.
MachineType ==
  [ card : [Minor -> {"absent", "no_kms", "kms"}],
    connectors : [Minor -> Seq(Connectors)],  \* in the card's order
    count_crtcs : [Minor -> 0 .. MaskBits],
    connected : SUBSET Connectors,        \* DRM_MODE_CONNECTED, count_modes > 0
    connector_type : [Connectors -> Types],
    encoders : [Connectors -> Seq(Encoders)],
    possible_crtcs : [Encoders -> SUBSET CrtcIndex],
    flaky : SUBSET (Connectors \cup Encoders) ]

ASSUME HardwareAssumption ==
  /\ DRM_MAX_MINOR \in Nat
  /\ MaskBits \in Nat
  /\ Skip \in Nat
  /\ AnyType \notin Types
  /\ Hardware \subseteq MachineType

----------------------------------------------------------------------------
\* A rank table is a sequence of <<type, rank>>, the pairs in front of the
\* terminating 0, 0.

RankTableType == Seq((Types \cup {AnyType}) \X (0 .. Skip))

\* The entries of a rank table that speak of a connector type.
MatchingEntries(ranks, connector_type) ==
  {n \in DOMAIN ranks : ranks[n][1] \in {AnyType, connector_type}}

\* bs_drm_connectors_rank: the first matching entry decides.
bs_drm_connectors_rank(ranks, connector_type) ==
  LET matching == MatchingEntries(ranks, connector_type)
  IN  IF matching = {}
      THEN Skip
      ELSE ranks[CHOOSE n \in matching : \A m \in matching : n <= m][2]

----------------------------------------------------------------------------
\* The CRTCs, by index, of a card that an encoder can be routed to.
RoutableCrtcs(hw, minor, encoder, mask) ==
  hw.possible_crtcs[encoder] \cap mask \cap 0 .. hw.count_crtcs[minor] - 1

\* The display pipes a machine really has: a connected connector of a card,
\* one of its encoders, and a CRTC of the same card that the encoder reaches.
PipesOn(hw, minors, mask) ==
  { p \in [ minor : minors, connector : Connectors,
            encoder : Encoders, crtc : CrtcIndex ] :
      /\ hw.card[p.minor] = "kms"
      /\ \E n \in DOMAIN hw.connectors[p.minor] :
           hw.connectors[p.minor][n] = p.connector
      /\ p.connector \in hw.connected
      /\ \E n \in DOMAIN hw.encoders[p.connector] :
           hw.encoders[p.connector][n] = p.encoder
      /\ p.crtc \in RoutableCrtcs(hw, p.minor, p.encoder, mask) }
=============================================================================
