------------------------------ MODULE DrmOpen ------------------------------
(***************************************************************************)
(* Opening a card: the enumeration of /dev/dri/card%u in                   *)
(* bsdrm/src/open.c with its filtered and its ranked body, and the three   *)
(* requests of bsdrm/src/drm_open.c that run on it.                        *)
(*                                                                         *)
(* The process has a limited number of descriptors, so that open and dup   *)
(* may fail, and an object may turn unreadable at any read, so that the    *)
(* answer depends on the order of closes, dups and reads.                  *)
(***************************************************************************)
EXTENDS DrmHardware

CONSTANTS
  Null,            \* -1, NULL
  Internal,        \* function: LVDS, eDP and DSI connector types, with ranks
  OtherRank,       \* 0xFF
  Drivers,         \* names of kernel drivers
  CardDrivers,     \* the ways the cards may be driven, Null: no version
  VgemPrefixes,    \* those that are a prefix of "vgem", itself included
  Limits,          \* descriptors the process may have
  MaxCalls         \* bound: requests

\* A descriptor: the card, the request that made it, and whether by dup.
Fd == [minor : Minor, call : 0 .. MaxCalls, dup : BOOLEAN]

Requests == {"bs_drm_open_for_display", "bs_drm_open_main_display",
             "bs_drm_open_vgem"}

ASSUME OpenAssumption ==
  /\ DOMAIN Internal \subseteq Types
  /\ OtherRank \in 1 .. Skip - 1
  /\ \A t \in DOMAIN Internal : Internal[t] \in 1 .. OtherRank - 1
  /\ VgemPrefixes \subseteq Drivers
  /\ CardDrivers \subseteq [Minor -> Drivers \cup {Null}]
  /\ Limits \subseteq Nat
  /\ MaxCalls \in Nat
  /\ Null \notin Drivers \cup Connectors \cup Fd \cup Requests

VARIABLES
  hw,           \* the machine; never changes
  driver,       \* name of each card's driver; never changes
  limit,        \* descriptors the process may have
  open,         \* descriptors that are open
  owned,        \* those of the caller
  live,         \* connectors read and not freed, with card and request
  calls,        \* requests so far
  request,      \* the request running, or the last one
  pc,           \* where bs_open_enumerate stands
  dev_index,    \* bs_open_enumerate: the card
  fd,           \* bs_open_enumerate: its descriptor, or Null
  end,          \* bs_open_enumerate: what the body returned
  data,         \* struct bs_open_filtered_user or bs_open_ranked_user
  result,       \* what the last request returned
  slots         \* history: descriptors to spare when the request began

environment == <<hw, driver, limit>>
vars == <<environment, open, owned, live, calls, request, pc, dev_index, fd,
          end, data, result, slots>>

Init ==
  /\ hw \in Hardware
  /\ driver \in CardDrivers
  /\ limit \in Limits
  /\ open = {} /\ owned = {} /\ live = {}
  /\ calls = 0
  /\ request = Null
  /\ pc = "idle"
  /\ dev_index = 0 /\ fd = Null /\ end = FALSE
  /\ data = [rank_index |-> Skip, fd |-> Null]
  /\ result = Null
  /\ slots = limit

----------------------------------------------------------------------------
\* What a callback sees of a card.  The objects in lost cannot be read.

ConnectorsOf(minor) ==
  {hw.connectors[minor][n] : n \in DOMAIN hw.connectors[minor]}

EncodersOf(connector) ==
  {hw.encoders[connector][n] : n \in DOMAIN hw.encoders[connector]}

\* display_filter
display_filter(minor, lost) ==
  /\ hw.card[minor] = "kms"
  /\ hw.count_crtcs[minor] # 0
  /\ (ConnectorsOf(minor) \ lost) \cap hw.connected # {}

\* connector_has_crtc
connector_has_crtc(minor, connector, lost) ==
  \E encoder \in EncodersOf(connector) \ lost :
    RoutableCrtcs(hw, minor, encoder, CrtcIndex) # {}

\* The connectors that display_rank ranks.
Usable(minor, lost) ==
  { c \in (ConnectorsOf(minor) \ lost) \cap hw.connected :
      connector_has_crtc(minor, c, lost) }

\* display_rank_connector_type
display_rank_connector_type(connector_type) ==
  IF connector_type \in DOMAIN Internal
  THEN Internal[connector_type] ELSE OtherRank

\* Whether display_rank looks at the connectors at all.
Ranks(minor) == hw.card[minor] = "kms" /\ hw.count_crtcs[minor] # 0

\* Mutant of display_rank: a connector without a CRTC is ranked as well.
display_rank_NoCrtc(minor, lost) ==
  LET ranks == { display_rank_connector_type(hw.connector_type[c]) :
                   c \in (ConnectorsOf(minor) \ lost) \cap hw.connected }
  IN  IF ~Ranks(minor) \/ ranks = {}
      THEN Skip
      ELSE CHOOSE r \in ranks : \A s \in ranks : r <= s

\* display_rank
display_rank(minor, lost) ==
  LET ranks == { display_rank_connector_type(hw.connector_type[c]) :
                   c \in Usable(minor, lost) }
  IN  IF ~Ranks(minor) \/ ranks = {}
      THEN Skip
      ELSE CHOOSE r \in ranks : \A s \in ranks : r <= s

\* The connectors display_rank does not free: it passes over them at line 92.
Unfreed(minor, lost) ==
  IF Ranks(minor)
  THEN (ConnectorsOf(minor) \ lost) \ Usable(minor, lost) ELSE {}

\* vgem_filter; it compares no more characters than the driver's name has.
vgem_filter(minor) ==
  hw.card[minor] # "absent" /\ driver[minor] \in VgemPrefixes

----------------------------------------------------------------------------
\* The table of descriptors has room.
HasRoom(descriptors) == Cardinality(descriptors) < limit

\* bs_drm_open_for_display, bs_drm_open_main_display and bs_drm_open_vgem:
\* the call, up to the first card.
Request(kind) ==
  /\ pc = "idle"
  /\ calls < MaxCalls
  /\ calls' = calls + 1
  /\ request' = kind
  /\ data' = [rank_index |-> Skip, fd |-> Null]
  /\ dev_index' = 0
  /\ pc' = "enumerate"
  /\ slots' = limit - Cardinality(open)
  /\ UNCHANGED <<environment, open, owned, live, fd, end, result>>

\* bs_open_enumerate: open the next card; one that cannot be opened is
\* passed over.
OpenCard ==
  /\ pc = "enumerate"
  /\ dev_index < DRM_MAX_MINOR
  /\ IF hw.card[dev_index] # "absent" /\ HasRoom(open)
     THEN /\ fd' = [minor |-> dev_index, call |-> calls, dup |-> FALSE]
          /\ open' = open \cup {fd'}
          /\ pc' = "body"
          /\ UNCHANGED dev_index
     ELSE /\ dev_index' = dev_index + 1
          /\ UNCHANGED <<fd, open, pc>>
  /\ UNCHANGED <<environment, owned, live, calls, request, end, data, result,
                 slots>>

\* dup(fd) over a table of descriptors: it fails when the table is full.
DupOf(table) == IF HasRoom(table) THEN [fd EXCEPT !.dup = TRUE] ELSE Null
WithDup(table) == table \cup ({DupOf(table)} \ {Null})

\* Mutant of FilteredBody: the enumeration goes on after a match.
FilteredBody_GoesOn(passes) ==
  /\ end' = FALSE
  /\ IF passes
     THEN data' = [data EXCEPT !.fd = DupOf(open)] /\ open' = WithDup(open)
     ELSE UNCHANGED <<data, open>>

\* bs_open_filtered_body
FilteredBody(passes) ==
  /\ end' = passes
  /\ IF passes
     THEN data' = [data EXCEPT !.fd = DupOf(open)] /\ open' = WithDup(open)
     ELSE UNCHANGED <<data, open>>

\* Mutant of RankedBody: the old best is not closed.
RankedBody_KeepsOld(rank_index) ==
  /\ end' = (rank_index = 0)
  /\ IF data.rank_index > rank_index
     THEN /\ data' = [rank_index |-> rank_index, fd |-> DupOf(open)]
          /\ open' = WithDup(open)
     ELSE UNCHANGED <<data, open>>

\* Mutant of RankedBody: the rank of the best is not updated.
RankedBody_StaleRank(rank_index) ==
  /\ end' = (rank_index = 0)
  /\ IF data.rank_index > rank_index
     THEN LET table == open \ {data.fd}
          IN  data' = [data EXCEPT !.fd = DupOf(table)] /\ open' = WithDup(table)
     ELSE UNCHANGED <<data, open>>

\* Mutant of RankedBody: fd is closed in place of the old best.
RankedBody_ClosesFd(rank_index) ==
  /\ end' = (rank_index = 0)
  /\ IF data.rank_index > rank_index
     THEN LET table == IF data.fd # Null THEN open \ {fd} ELSE open
          IN  /\ data' = [rank_index |-> rank_index, fd |-> DupOf(table)]
              /\ open' = WithDup(table)
     ELSE UNCHANGED <<data, open>>

\* bs_open_ranked_body: the best so far is closed before fd is copied.
RankedBody(rank_index) ==
  /\ end' = (rank_index = 0)
  /\ IF data.rank_index > rank_index
     THEN LET table == open \ {data.fd}
          IN  /\ data' = [rank_index |-> rank_index, fd |-> DupOf(table)]
              /\ open' = WithDup(table)
     ELSE UNCHANGED <<data, open>>

\* The callback of the request running.
Body ==
  /\ pc = "body"
  /\ pc' = "close"
  /\ \E lost \in SUBSET (hw.flaky \cap
                   (ConnectorsOf(fd.minor) \cup
                      UNION {EncodersOf(c) : c \in ConnectorsOf(fd.minor)})) :
       \/ /\ request = "bs_drm_open_for_display"
          /\ FilteredBody(display_filter(fd.minor, lost))
          /\ UNCHANGED live
       \/ /\ request = "bs_drm_open_main_display"
          /\ RankedBody(display_rank(fd.minor, lost))
          /\ live' = live \cup
               { [connector |-> c, minor |-> fd.minor, call |-> calls] :
                   c \in Unfreed(fd.minor, lost) }
       \/ /\ request = "bs_drm_open_vgem"
          /\ FilteredBody(vgem_filter(fd.minor))
          /\ UNCHANGED live
  /\ UNCHANGED <<environment, owned, calls, request, dev_index, fd, result,
                 slots>>

\* bs_open_enumerate: close the card, and stop if the body said so.
CloseCard ==
  /\ pc = "close"
  /\ open' = open \ {fd}
  /\ fd' = Null
  /\ dev_index' = IF end THEN DRM_MAX_MINOR ELSE dev_index + 1
  /\ pc' = "enumerate"
  /\ UNCHANGED <<environment, owned, live, calls, request, end, data, result,
                 slots>>

\* bs_open_filtered and bs_open_ranked return data.fd.
Return ==
  /\ pc = "enumerate"
  /\ dev_index = DRM_MAX_MINOR
  /\ pc' = "idle"
  /\ result' = data.fd
  /\ owned' = owned \cup ({data.fd} \ {Null})
  /\ UNCHANGED <<environment, open, live, calls, request, dev_index, fd, end,
                 data, slots>>

Next ==
  \/ \E kind \in Requests : Request(kind)
  \/ OpenCard
  \/ Body
  \/ CloseCard
  \/ Return

Spec == Init /\ [][Next]_vars

----------------------------------------------------------------------------
TypeOK ==
  /\ hw \in MachineType
  /\ open \subseteq Fd /\ owned \subseteq Fd
  /\ live \subseteq
       [connector : Connectors, minor : Minor, call : 0 .. MaxCalls]
  /\ calls \in 0 .. MaxCalls
  /\ request \in Requests \cup {Null}
  /\ pc \in {"idle", "enumerate", "body", "close"}
  /\ dev_index \in 0 .. DRM_MAX_MINOR
  /\ fd \in Fd \cup {Null}
  /\ end \in BOOLEAN
  /\ data \in [rank_index : 0 .. Skip, fd : Fd \cup {Null}]
  /\ result \in Fd \cup {Null}
  /\ pc \in {"body", "close"} => fd \in open

Returned(kind) == pc = "idle" /\ request = kind

\* Two descriptors are enough for every request: the one being looked at and
\* the best so far.
Roomy == slots >= 2

\* Whether a card passes the filter of the request.
Passes(minor, lost) ==
  IF request = "bs_drm_open_vgem"
  THEN vgem_filter(minor) ELSE display_filter(minor, lost)

\* bs_open_filtered returns the first card that passes its filter (bs_drm.h:68,
\* open.c:42): no card in front of the one returned passes for sure, and with
\* nothing returned no card at all does.
FilteredIsFirst ==
  /\ Returned("bs_drm_open_for_display") \/ Returned("bs_drm_open_vgem")
  /\ Roomy
  =>
    /\ result # Null => Passes(result.minor, {})
    /\ \A m \in Minor : Passes(m, hw.flaky) =>
         result # Null /\ result.minor <= m

\* bs_open_ranked returns a card of the lowest rank, and never one that is to
\* be skipped (bs_drm.h:71-73): whatever cannot be read meanwhile, no other
\* card is sure to rank lower than the one returned can.
RankedIsLowest ==
  Returned("bs_drm_open_main_display") /\ Roomy =>
    \A m \in Minor : display_rank(m, hw.flaky) < Skip =>
      /\ result # Null
      /\ display_rank(result.minor, {}) <= display_rank(m, hw.flaky)

\* What every program relies on that calls bs_drm_pipe_make next, as
\* bs_app_setup (app.c:112-125) does: the main display's card has a pipe.
DisplayHasPipe ==
  Returned("bs_drm_open_main_display") /\ result # Null =>
    PipesOn(hw, {result.minor}, CrtcIndex) # {}

\* "fd is always closed after the callback" (bs_drm.h:64), and of the copies
\* only the one returned stays open: between requests the open descriptors are
\* those the caller owns.  Of the connectors read only those stay allocated whose
\* release the `continue` of drm_open.c:92 passes over: connectors that cannot
\* drive a display, or whose encoders could not be read.
OnlyUnusableLeak ==
  /\ pc = "idle" => open = owned
  /\ \A l \in live : l.connector \notin Usable(l.minor, hw.flaky)

\* bs_drm.h:149 of bs_drm_open_main_display: "This falls back to
\* bs_drm_open_for_display()", so it returns -1 only when that one does.
MainFallsBack ==
  Returned("bs_drm_open_main_display") /\ Roomy /\ result = Null =>
    \A m \in Minor : ~display_filter(m, hw.flaky)
=============================================================================
