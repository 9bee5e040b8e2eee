--------------------------- MODULE DrmOpenProofs ---------------------------
(***************************************************************************)
(* However many descriptors a process may have and whatever turns          *)
(* unreadable, the requests that open a card close every descriptor but    *)
(* the one they return, and lose no connector that could drive a display;  *)
(* and with two descriptors to spare they return the right card.           *)
(***************************************************************************)
EXTENDS DrmOpen, TLAPS, FiniteSetTheorems, WellFoundedInduction

\* A descriptor that may be none, as a set.
Here(descriptor) == {descriptor} \ {Null}

\* Where the request stands.
Control ==
  /\ pc \in {"idle", "enumerate", "body", "close"}
  /\ pc \in {"body", "close"} <=> fd # Null
  /\ fd \in Fd \cup {Null}
  /\ dev_index \in 0 .. DRM_MAX_MINOR
  /\ fd # Null => dev_index \in Minor
  /\ calls \in 0 .. MaxCalls
  /\ data = [rank_index |-> data.rank_index, fd |-> data.fd]

\* A filtered request has no descriptor until it ends the enumeration.
Filtering ==
  request # "bs_drm_open_main_display" /\ pc # "idle" =>
    \/ data.fd = Null
    \/ pc = "close" /\ end
    \/ pc = "enumerate" /\ dev_index = DRM_MAX_MINOR

\* What a request has made is its own: it bears the request's number, and is a
\* copy or not; what callers own was made by requests before it.
Provenance ==
  /\ fd # Null => fd.call = calls /\ fd.dup = FALSE
  /\ pc # "idle" /\ data.fd # Null => data.fd.call = calls /\ data.fd.dup = TRUE
  /\ Null \notin owned
  /\ \A d \in owned : d.call \in Nat /\ d.call <= calls
  /\ pc # "idle" => \A d \in owned : d.call # calls

\* Every open descriptor is accounted for.
Accounted ==
  open = owned \cup Here(fd) \cup (IF pc = "idle" THEN {} ELSE Here(data.fd))

LostAreUnusable ==
  \A l \in live : l.connector \notin Usable(l.minor, hw.flaky)

\* The inductive invariant.
Inv == Control /\ Filtering /\ Provenance /\ Accounted /\ LostAreUnusable

----------------------------------------------------------------------------
\* A connector passed over when some objects could not be read is one that
\* cannot be used when none of those can be read that ever might not.
LEMMA UnfreedIsUnusable ==
  ASSUME NEW minor, NEW lost \in SUBSET hw.flaky,
         NEW c \in Unfreed(minor, lost)
  PROVE  c \notin Usable(minor, hw.flaky)
<1> SUFFICES ASSUME c \in Usable(minor, hw.flaky) PROVE FALSE
  OBVIOUS
<1>1. c \in ConnectorsOf(minor) \ lost /\ c \notin Usable(minor, lost)
  BY DEF Unfreed
<1>2. c \in hw.connected /\ connector_has_crtc(minor, c, hw.flaky)
  BY DEF Usable
<1>3. connector_has_crtc(minor, c, lost)
  BY <1>2 DEF connector_has_crtc
<1> QED
  BY <1>1, <1>2, <1>3 DEF Usable

\* What can be used depends on the machine alone.
LEMMA StayUnusable ==
  ASSUME LostAreUnusable, UNCHANGED <<hw, live>>
  PROVE  LostAreUnusable'
<1>1. \A minor, c : (c \in Usable(minor, hw.flaky))' = (c \in Usable(minor, hw.flaky))
  BY DEF Usable, ConnectorsOf, connector_has_crtc, EncodersOf
<1> QED
  BY <1>1 DEF LostAreUnusable

LEMMA NullIsNoFd == Null \notin Fd
BY OpenAssumption

\* A copy is a descriptor of the card and request it was made for, or none.
LEMMA CopyIs ==
  ASSUME fd \in Fd, NEW table
  PROVE  /\ DupOf(table) # Null =>
              DupOf(table).call = fd.call /\ DupOf(table).dup = TRUE
         /\ WithDup(table) = table \cup Here(DupOf(table))
BY DEF DupOf, WithDup, Here, Fd

\* While a card is looked at, its descriptor, the best so far and those owned
\* are told apart by their provenance.
LEMMA ToldApart ==
  ASSUME Control, Provenance, pc # "idle"
  PROVE  /\ fd # Null => fd \notin owned /\ fd # data.fd
         /\ data.fd # Null => data.fd \notin owned
BY DEF Control, Provenance

----------------------------------------------------------------------------
LEMMA InitInv == Init => Inv
BY HardwareAssumption, OpenAssumption
DEF Init, Inv, Control, Filtering, Provenance, Accounted, Here, LostAreUnusable

LEMMA RequestStep ==
  ASSUME Inv, NEW kind \in Requests, Request(kind)
  PROVE  Inv'
<1>1. fd = Null /\ fd' = Null /\ data'.fd = Null
  BY DEF Inv, Control, Request
<1>2. Control'
  BY <1>1, HardwareAssumption, OpenAssumption DEF Inv, Control, Request
<1>3. Filtering'
  BY <1>1 DEF Filtering
<1>4. Provenance'
  BY <1>1, OpenAssumption DEF Inv, Control, Provenance, Request
<1>5. Accounted'
  BY <1>1 DEF Inv, Accounted, Here, Request
<1>6. LostAreUnusable'
  BY StayUnusable DEF Inv, Request, environment
<1> QED
  BY <1>2, <1>3, <1>4, <1>5, <1>6 DEF Inv

LEMMA OpenCardStep ==
  ASSUME Inv, OpenCard
  PROVE  Inv'
<1>1. fd = Null /\ dev_index \in Minor /\ calls \in 0 .. MaxCalls
  BY HardwareAssumption DEF Inv, Control, OpenCard, Minor
<1>2. LostAreUnusable'
  BY StayUnusable DEF Inv, OpenCard, environment
<1>3. CASE UNCHANGED <<fd, open, pc>> /\ dev_index' = dev_index + 1
  <2>1. Control' /\ Filtering'
    BY <1>1, <1>3, HardwareAssumption DEF Inv, Control, Filtering, Minor, OpenCard
  <2>2. Provenance' /\ Accounted'
    BY <1>3 DEF Inv, Provenance, Accounted, Here, OpenCard
  <2> QED
    BY <1>2, <2>1, <2>2 DEF Inv
<1>4. CASE /\ fd' = [minor |-> dev_index, call |-> calls, dup |-> FALSE]
           /\ open' = open \cup {fd'}
           /\ pc' = "body"
           /\ UNCHANGED dev_index
  <2>1. fd' \in Fd /\ fd' # Null /\ fd'.call = calls /\ fd'.dup = FALSE
    <3>1. [minor |-> dev_index, call |-> calls, dup |-> FALSE] \in Fd
      BY <1>1 DEF Fd
    <3> QED
      BY <1>4, <3>1, NullIsNoFd
  <2>2. Control' /\ Filtering'
    BY <1>1, <1>4, <2>1 DEF Inv, Control, Filtering, Minor, OpenCard
  <2>3. Provenance'
    BY <1>1, <1>4, <2>1 DEF Inv, Provenance, OpenCard
  <2>4. Accounted'
    BY <1>1, <1>4, <2>1 DEF Inv, Accounted, Here, OpenCard
  <2> QED
    BY <1>2, <2>2, <2>3, <2>4 DEF Inv
<1> QED
  BY <1>3, <1>4 DEF OpenCard

\* bs_open_filtered_body has nothing to close when it copies.
LEMMA FilteredStep ==
  ASSUME Inv, pc = "body", pc' = "close",
         request # "bs_drm_open_main_display",
         NEW passes \in BOOLEAN, FilteredBody(passes),
         UNCHANGED <<environment, owned, live, calls, request, dev_index, fd>>
  PROVE  Inv'
<1>1. fd \in Fd /\ fd # Null /\ data.fd = Null
  BY HardwareAssumption DEF Inv, Control, Filtering
<1>2. LostAreUnusable'
  BY StayUnusable DEF Inv, environment
<1>3. CASE ~passes
  <2>1. UNCHANGED <<data, open>>
    BY <1>3 DEF FilteredBody
  <2> QED
    BY <1>1, <1>2, <2>1 DEF Inv, Control, Filtering, Provenance, Accounted
<1>4. CASE passes
  <2>1. data' = [rank_index |-> data.rank_index, fd |-> DupOf(open)]
    BY <1>4 DEF FilteredBody, Inv, Control
  <2>2. open' = open \cup Here(DupOf(open)) /\ end'
    BY <1>1, <1>4, CopyIs DEF FilteredBody
  <2>3. Control' /\ Filtering'
    BY <1>1, <2>1, <2>2 DEF Inv, Control, Filtering
  <2>4. Provenance'
    BY <1>1, <2>1, CopyIs DEF Inv, Provenance
  <2>5. Accounted'
    BY <1>1, <2>1, <2>2 DEF Inv, Accounted, Here
  <2> QED
    BY <1>2, <2>3, <2>4, <2>5 DEF Inv
<1> QED
  BY <1>3, <1>4

\* bs_open_ranked_body closes the best so far, which nobody else has, before it
\* copies the better one.
LEMMA RankedStep ==
  ASSUME Inv, pc = "body", pc' = "close",
         request = "bs_drm_open_main_display",
         NEW rank, RankedBody(rank),
         NEW lost \in SUBSET hw.flaky,
         live' = live \cup
           { [connector |-> c, minor |-> fd.minor, call |-> calls] :
               c \in Unfreed(fd.minor, lost) },
         UNCHANGED <<environment, owned, calls, request, dev_index, fd>>
  PROVE  Inv'
<1>1. fd \in Fd /\ fd # Null
  BY DEF Inv, Control
<1>2. LostAreUnusable'
  <2>1. ASSUME NEW l \in live' PROVE l.connector \notin Usable(l.minor, hw.flaky)
    <3>1. CASE l \in live
      BY <3>1 DEF Inv, LostAreUnusable
    <3>2. CASE l \notin live
      <4>1. PICK c \in Unfreed(fd.minor, lost) : l.connector = c /\ l.minor = fd.minor
        BY <3>2
      <4> QED
        BY <4>1, UnfreedIsUnusable
    <3> QED
      BY <3>1, <3>2
  <2>2. \A minor, c : (c \in Usable(minor, hw.flaky))' = (c \in Usable(minor, hw.flaky))
    BY DEF Usable, ConnectorsOf, connector_has_crtc, EncodersOf, environment
  <2> QED
    BY <2>1, <2>2 DEF LostAreUnusable
<1>3. CASE UNCHANGED <<data, open>>
  BY <1>1, <1>2, <1>3 DEF Inv, Control, Filtering, Provenance, Accounted
<1>4. CASE /\ data' = [rank_index |-> rank, fd |-> DupOf(open \ {data.fd})]
           /\ open' = WithDup(open \ {data.fd})
  <2> DEFINE table == open \ {data.fd}
  <2>1. open' = table \cup Here(DupOf(table))
    BY <1>1, <1>4, CopyIs
  <2>2. table = owned \cup {fd}
    <3>1. open = owned \cup {fd} \cup Here(data.fd)
      BY <1>1 DEF Inv, Accounted, Here
    <3>2. data.fd # Null => data.fd \notin owned /\ data.fd # fd
      BY <1>1, ToldApart DEF Inv
    <3>3. Null \notin owned
      BY DEF Inv, Provenance
    <3>4. fd # data.fd
      BY <1>1, <3>2
    <3>5. data.fd \notin owned
      BY <3>2, <3>3
    <3>6. Here(data.fd) \ {data.fd} = {}
      BY DEF Here
    <3> QED
      BY <3>1, <3>4, <3>5, <3>6
  <2>3. Control' /\ Filtering'
    BY <1>1, <1>4 DEF Inv, Control, Filtering
  <2>4. Provenance'
    BY <1>1, <1>4, CopyIs DEF Inv, Provenance
  <2>5. Accounted'
    BY <1>1, <1>4, <2>1, <2>2 DEF Accounted, Here
  <2> QED
    BY <1>2, <2>3, <2>4, <2>5 DEF Inv
<1> QED
  BY <1>3, <1>4 DEF RankedBody

LEMMA BodyStep ==
  ASSUME Inv, Body
  PROVE  Inv'
<1>1. PICK lost \in SUBSET hw.flaky :
       \/ /\ request = "bs_drm_open_for_display"
          /\ FilteredBody(display_filter(fd.minor, lost))
          /\ UNCHANGED live
       \/ /\ request = "bs_drm_open_main_display"
          /\ RankedBody(display_rank(fd.minor, lost))
          /\ live' = live \cup
               { [connector |-> c, minor |-> fd.minor, call |-> calls] :
                   c \in Unfreed(fd.minor, lost) }
       \/ /\ request = "bs_drm_open_vgem"
          /\ FilteredBody(vgem_filter(fd.minor))
          /\ UNCHANGED live
  BY DEF Body
<1>2. /\ pc = "body" /\ pc' = "close"
      /\ UNCHANGED <<environment, owned, calls, request, dev_index, fd>>
  BY DEF Body
<1>3. display_filter(fd.minor, lost) \in BOOLEAN /\ vgem_filter(fd.minor) \in BOOLEAN
  BY DEF display_filter, vgem_filter
<1> QED
  BY <1>1, <1>2, <1>3, FilteredStep, RankedStep

LEMMA CloseCardStep ==
  ASSUME Inv, CloseCard
  PROVE  Inv'
<1>1. fd # Null /\ fd' = Null /\ pc = "close" /\ pc' = "enumerate"
  BY DEF Inv, Control, CloseCard
<1>2. Control'
  BY <1>1, HardwareAssumption DEF Inv, Control, Minor, CloseCard
<1>3. Filtering'
  BY <1>1 DEF Inv, Filtering, CloseCard
<1>4. Provenance'
  BY <1>1 DEF Inv, Provenance, CloseCard
<1>5. Accounted'
  BY <1>1, ToldApart DEF Inv, Accounted, Here, CloseCard
<1>6. LostAreUnusable'
  BY StayUnusable DEF Inv, CloseCard, environment
<1> QED
  BY <1>2, <1>3, <1>4, <1>5, <1>6 DEF Inv

LEMMA ReturnStep ==
  ASSUME Inv, Return
  PROVE  Inv'
<1>1. fd = Null /\ fd' = Null /\ pc' = "idle"
  BY DEF Inv, Control, Return
<1>2. Control' /\ Filtering'
  BY <1>1 DEF Inv, Control, Filtering, Return
<1>3. Provenance'
  BY <1>1 DEF Inv, Control, Provenance, Return
<1>4. Accounted'
  BY <1>1 DEF Inv, Accounted, Here, Return
<1>5. LostAreUnusable'
  BY StayUnusable DEF Inv, Return, environment
<1> QED
  BY <1>2, <1>3, <1>4, <1>5 DEF Inv

LEMMA NextInv == Inv /\ [Next]_vars => Inv'
<1> SUFFICES ASSUME Inv, [Next]_vars PROVE Inv'
  OBVIOUS
<1>1. CASE UNCHANGED vars
  <2>1. LostAreUnusable'
    BY <1>1, StayUnusable DEF Inv, vars, environment
  <2> QED
    BY <1>1, <2>1 DEF Inv, Control, Filtering, Provenance, Accounted, vars
<1> QED
  BY <1>1, RequestStep, OpenCardStep, BodyStep, CloseCardStep, ReturnStep DEF Next

----------------------------------------------------------------------------
\* Between requests exactly the callers' descriptors are open, and connectors
\* left allocated are unusable ones, for every machine, every limit of
\* descriptors and any number of requests.
THEOREM NothingUsefulLeaks == Spec => []OnlyUnusableLeak
<1>1. Inv => OnlyUnusableLeak
  BY DEF Inv, Control, Accounted, Here, LostAreUnusable, OnlyUnusableLeak
<1> QED
  BY <1>1, InitInv, NextInv, PTL DEF Spec
----------------------------------------------------------------------------
(***************************************************************************)
(* Ranks.                                                                  *)
(***************************************************************************)

\* A nonempty set of natural numbers has a least element.
LEMMA LeastRank ==
  ASSUME NEW T, T \subseteq Nat, T # {}
  PROVE  \E n \in T : \A k \in T : n <= k
<1> DEFINE less == OpToRel(<, Nat)
<1>1. IsWellFoundedOn(less, Nat)
  BY NatLessThanWellFounded
<1>2. \A n, k \in Nat : k < n => <<k, n>> \in less
  BY DEF OpToRel
<1> HIDE DEF less
<1>3. PICK n \in T : \A k \in T : ~ (<<k, n>> \in less)
  BY <1>1, WFMin
<1>4. ASSUME NEW k \in T PROVE n <= k
  <2>1. n \in Nat /\ k \in Nat
    OBVIOUS
  <2>2. ~ (k < n)
    BY <1>2, <1>3, <2>1
  <2> QED
    BY <2>1, <2>2
<1> QED
  BY <1>4

LEMMA TypeRank ==
  ASSUME NEW type
  PROVE  display_rank_connector_type(type) \in 1 .. Skip - 1
BY OpenAssumption, HardwareAssumption DEF display_rank_connector_type

\* display_rank is the least rank of a connector that can be used, and Skip on
\* a card without any.
LEMMA RankIs ==
  ASSUME NEW minor, NEW lost
  PROVE  /\ display_rank(minor, lost) \in 1 .. Skip
         /\ Ranks(minor) => \A c \in Usable(minor, lost) :
              display_rank(minor, lost)
                <= display_rank_connector_type(hw.connector_type[c])
         /\ display_rank(minor, lost) < Skip =>
              Ranks(minor) /\ \E c \in Usable(minor, lost) :
                display_rank(minor, lost)
                  = display_rank_connector_type(hw.connector_type[c])
<1> DEFINE ranks == { display_rank_connector_type(hw.connector_type[c]) :
                        c \in Usable(minor, lost) }
<1>1. ranks \subseteq 1 .. Skip - 1
  BY TypeRank
<1>2. CASE ~Ranks(minor) \/ ranks = {}
  <2>1. display_rank(minor, lost) = Skip
    BY <1>2 DEF display_rank
  <2>2. Skip \in 1 .. Skip
    BY OpenAssumption, HardwareAssumption
  <2> QED
    BY <1>2, <2>1, <2>2, HardwareAssumption
<1>3. CASE Ranks(minor) /\ ranks # {}
  <2>1. ranks \subseteq Nat
    BY <1>1
  <2>2. \E n \in ranks : \A k \in ranks : n <= k
    BY <1>3, <2>1, LeastRank
  <2>3. display_rank(minor, lost) = CHOOSE n \in ranks : \A k \in ranks : n <= k
    BY <1>3 DEF display_rank
  <2>4. /\ display_rank(minor, lost) \in ranks
        /\ \A k \in ranks : display_rank(minor, lost) <= k
    BY <2>2, <2>3
  <2>5. display_rank(minor, lost) \in 1 .. Skip
    BY <1>1, <2>4, HardwareAssumption
  <2> QED
    BY <1>3, <2>4, <2>5
<1> QED
  BY <1>2, <1>3

\* What cannot be read makes a card rank higher, or not pass, never the other
\* way round.
LEMMA RankMonotone ==
  ASSUME NEW minor, NEW more, NEW less \in SUBSET more
  PROVE  display_rank(minor, less) <= display_rank(minor, more)
<1>1. Usable(minor, more) \subseteq Usable(minor, less)
  BY DEF Usable, connector_has_crtc
<1>2. CASE display_rank(minor, more) < Skip
  BY <1>1, <1>2, RankIs
<1>3. CASE ~(display_rank(minor, more) < Skip)
  <2>1. /\ display_rank(minor, more) \in 1 .. Skip
        /\ display_rank(minor, less) \in 1 .. Skip
    BY RankIs
  <2> QED
    BY <1>3, <2>1, HardwareAssumption
<1> QED
  BY <1>2, <1>3

LEMMA PassesMonotone ==
  ASSUME NEW minor, NEW more, NEW less \in SUBSET more, Passes(minor, more)
  PROVE  Passes(minor, less)
BY DEF Passes, display_filter

----------------------------------------------------------------------------
(***************************************************************************)
(* Types, and the descriptors to spare.                                    *)
(***************************************************************************)

\* What a step needs to know beside TypeOK: which card a descriptor is of, and
\* what the caller has been told.
Types2 ==
  /\ TypeOK
  /\ limit \in Nat
  /\ fd # Null => fd.minor = dev_index
  /\ data.rank_index \in 1 .. Skip
  /\ pc = "idle" /\ request # Null =>
       result = data.fd /\ dev_index = DRM_MAX_MINOR
  /\ pc # "idle" => request \in Requests

LEMMA TypesInit == Init => Types2
<1> SUFFICES ASSUME Init PROVE Types2
  OBVIOUS
<1>1. hw \in MachineType /\ limit \in Nat
  BY HardwareAssumption, OpenAssumption DEF Init
<1>2. /\ 0 \in 0 .. MaxCalls /\ 0 \in 0 .. DRM_MAX_MINOR /\ Skip \in 0 .. Skip
      /\ Skip \in 1 .. Skip
  BY HardwareAssumption, OpenAssumption
<1>3. data \in [rank_index : 0 .. Skip, fd : Fd \cup {Null}]
  BY <1>2 DEF Init
<1>4. TypeOK
  BY <1>1, <1>2, <1>3 DEF Init, TypeOK
<1> QED
  BY <1>1, <1>2, <1>4 DEF Init, Types2

LEMMA CopyType ==
  ASSUME fd \in Fd, NEW table
  PROVE  /\ DupOf(table) \in Fd \cup {Null}
         /\ DupOf(table) # Null => DupOf(table).minor = fd.minor
         /\ HasRoom(table) => DupOf(table) # Null
BY NullIsNoFd DEF DupOf, Fd

\* The types that a body and its copy keep.
LEMMA BodyTypes ==
  ASSUME Inv, Types2, Body
  PROVE  Types2'
<1>1. fd \in Fd /\ fd # Null
  BY DEF Inv, Control, Body
<1>2. /\ pc = "body" /\ pc' = "close"
      /\ UNCHANGED <<hw, limit, owned, calls, request, dev_index, fd, result, slots>>
  BY DEF Body, environment
<1>3. /\ open' \subseteq Fd /\ fd \in open'
      /\ end' \in BOOLEAN
      /\ data' \in [rank_index : 1 .. Skip, fd : Fd \cup {Null}]
  <2>1. ASSUME NEW passes \in BOOLEAN, FilteredBody(passes)
        PROVE  <1>3!:
    <3>1. data' \in [rank_index : 1 .. Skip, fd : Fd \cup {Null}]
      BY <1>1, <2>1, CopyType DEF FilteredBody, Types2, TypeOK
    <3>2. open' \subseteq Fd /\ open \subseteq open'
      BY <1>1, <2>1, CopyType DEF FilteredBody, WithDup, Types2, TypeOK
    <3> QED
      BY <1>2, <2>1, <3>1, <3>2 DEF FilteredBody, Types2, TypeOK
  <2>2. ASSUME NEW rank \in 1 .. Skip, RankedBody(rank)
        PROVE  <1>3!:
    <3>1. data' \in [rank_index : 1 .. Skip, fd : Fd \cup {Null}]
      BY <1>1, <2>2, CopyType DEF RankedBody, Types2, TypeOK
    <3>2. open' \subseteq Fd
      BY <1>1, <2>2, CopyType DEF RankedBody, WithDup, Types2, TypeOK
    <3>3. fd \in open'
      BY <1>1, <1>2, <2>2, ToldApart
      DEF RankedBody, WithDup, Inv, Types2, TypeOK
    <3> QED
      BY <2>2, <3>1, <3>2, <3>3 DEF RankedBody
  <2>3. /\ \A lost : display_filter(fd.minor, lost) \in BOOLEAN
        /\ vgem_filter(fd.minor) \in BOOLEAN
        /\ \A lost : display_rank(fd.minor, lost) \in 1 .. Skip
    BY RankIs DEF display_filter, vgem_filter
  <2> QED
    BY <2>1, <2>2, <2>3 DEF Body
<1>4. live' \subseteq [connector : Connectors, minor : Minor, call : 0 .. MaxCalls]
  <2>1. \A lost : Unfreed(fd.minor, lost) \subseteq Connectors
    BY <1>1 DEF Unfreed, ConnectorsOf, Fd, Types2, TypeOK, MachineType
  <2>2. fd.minor \in Minor /\ calls \in 0 .. MaxCalls
    BY <1>1 DEF Fd, Types2, TypeOK
  <2> QED
    BY <2>1, <2>2 DEF Body, Types2, TypeOK
<1> QED
  BY <1>1, <1>2, <1>3, <1>4, HardwareAssumption DEF Types2, TypeOK

LEMMA TypesStep ==
  ASSUME Inv, Types2, [Next]_vars
  PROVE  Types2'
<1>1. ASSUME NEW kind \in Requests, Request(kind) PROVE Types2'
  <2>1. calls' \in 0 .. MaxCalls
    BY <1>1, OpenAssumption DEF Types2, TypeOK, Request
  <2>2. fd = Null
    BY <1>1 DEF Inv, Control, Request
  <2>3. 0 \in 0 .. DRM_MAX_MINOR /\ Skip \in 0 .. Skip /\ Skip \in 1 .. Skip
    BY HardwareAssumption, OpenAssumption
  <2>4. /\ data' \in [rank_index : 0 .. Skip, fd : Fd \cup {Null}]
        /\ data'.rank_index = Skip
    BY <1>1, <2>3 DEF Request
  <2>5. TypeOK'
    BY <1>1, <2>1, <2>3, <2>4 DEF Types2, TypeOK, Request, environment
  <2>6. kind # Null
    BY OpenAssumption
  <2> QED
    BY <1>1, <2>2, <2>3, <2>4, <2>5, <2>6 DEF Types2, Request, environment
<1>2. CASE OpenCard
  <2>1. CASE UNCHANGED <<fd, open, pc>> /\ dev_index' = dev_index + 1
    <3>1. dev_index' \in 0 .. DRM_MAX_MINOR
      BY <1>2, <2>1, HardwareAssumption DEF Types2, TypeOK, OpenCard
    <3>2. fd = Null
      BY <1>2 DEF Inv, Control, OpenCard
    <3> QED
      BY <1>2, <2>1, <3>1, <3>2 DEF Types2, TypeOK, OpenCard, environment
  <2>2. CASE /\ fd' = [minor |-> dev_index, call |-> calls, dup |-> FALSE]
             /\ open' = open \cup {fd'}
             /\ pc' = "body"
             /\ UNCHANGED dev_index
    <3>1. fd' \in Fd /\ fd'.minor = dev_index
      BY <1>2, <2>2, HardwareAssumption DEF Fd, Minor, Types2, TypeOK, OpenCard
    <3> QED
      BY <1>2, <2>2, <3>1 DEF Types2, TypeOK, OpenCard, environment
  <2> QED
    BY <1>2, <2>1, <2>2 DEF OpenCard
<1>3. CASE CloseCard
  <2>1. dev_index' \in 0 .. DRM_MAX_MINOR
    BY <1>3, HardwareAssumption DEF Inv, Control, Minor, CloseCard
  <2> QED
    BY <1>3, <2>1 DEF Types2, TypeOK, CloseCard, environment
<1>4. CASE Return
  <2>1. data.fd \in Fd \cup {Null} /\ fd = Null
    BY <1>4 DEF Types2, TypeOK, Inv, Control, Return
  <2>2. owned' \subseteq Fd /\ result' \in Fd \cup {Null}
    BY <1>4, <2>1 DEF Types2, TypeOK, Return
  <2> QED
    BY <1>4, <2>1, <2>2 DEF Types2, TypeOK, Return, environment
<1>5. CASE UNCHANGED vars
  BY <1>5 DEF Types2, TypeOK, vars, environment
<1> QED
  BY <1>1, <1>2, <1>3, <1>4, <1>5, BodyTypes DEF Next

----------------------------------------------------------------------------
\* slots is what the table has left beside the descriptors owned.
Spare ==
  /\ IsFiniteSet(owned)
  /\ slots \in Int
  /\ pc # "idle" => Cardinality(owned) = limit - slots

LEMMA SpareInit == Init => Spare
BY FS_EmptySet, OpenAssumption DEF Init, Spare

LEMMA SpareStep ==
  ASSUME Inv, Types2, Spare, [Next]_vars
  PROVE  Spare'
<1>1. ASSUME NEW kind \in Requests, Request(kind) PROVE Spare'
  <2>1. open = owned
    BY <1>1 DEF Inv, Accounted, Control, Here, Request
  <2>2. Cardinality(owned) \in Nat /\ limit \in Nat
    BY FS_CardinalityType DEF Spare, Types2
  <2> QED
    BY <1>1, <2>1, <2>2 DEF Spare, Request, environment
<1>2. CASE Return
  <2>1. IsFiniteSet(owned \cup {data.fd})
    BY FS_AddElement DEF Spare
  <2>2. IsFiniteSet(owned')
    BY <1>2, <2>1, FS_Subset DEF Return
  <2> QED
    BY <1>2, <2>2 DEF Spare, Return
<1>3. CASE OpenCard \/ Body \/ CloseCard \/ UNCHANGED vars
  <2>1. UNCHANGED <<owned, limit, slots>> /\ (pc' = "idle" <=> pc = "idle")
    BY <1>3 DEF OpenCard, Body, CloseCard, vars, environment
  <2> QED
    BY <2>1 DEF Spare
<1> QED
  BY <1>1, <1>2, <1>3 DEF Next

\* With two descriptors to spare there is room for one beside those owned and
\* another one.
LEMMA EnoughRoom ==
  ASSUME Types2, Spare, pc # "idle", Roomy, NEW d
  PROVE  HasRoom(owned) /\ HasRoom(owned \cup {d})
<1>1. Cardinality(owned) \in Nat /\ Cardinality(owned) = limit - slots
  BY FS_CardinalityType DEF Spare
<1>2. /\ Cardinality(owned \cup {d}) = Cardinality(owned)
         \/ Cardinality(owned \cup {d}) = Cardinality(owned) + 1
  BY FS_AddElement DEF Spare
<1>3. limit \in Nat /\ slots \in Int /\ slots >= 2
  BY DEF Types2, Spare, Roomy
<1> QED
  BY <1>1, <1>2, <1>3 DEF HasRoom

----------------------------------------------------------------------------
(***************************************************************************)
(* Which card a request returns.                                           *)
(***************************************************************************)

\* The cards the enumeration is done with.
Behind(m) == m < dev_index \/ (m = dev_index /\ pc = "close")

\* bs_open_filtered_body: as long as nothing is found, nothing behind passes.
FilteredSoFar ==
  pc # "idle" /\ request # "bs_drm_open_main_display" /\ Roomy =>
    /\ data.fd = Null =>
         /\ \A m \in Minor : Behind(m) => ~Passes(m, hw.flaky)
         /\ pc = "close" => ~end
    /\ data.fd # Null =>
         /\ Passes(data.fd.minor, {})
         /\ \A m \in Minor : Passes(m, hw.flaky) => data.fd.minor <= m

\* bs_open_ranked_body: what it has is a card that can be used, of a rank no
\* higher than that of the cards behind.
RankedSoFar ==
  pc # "idle" /\ request = "bs_drm_open_main_display" =>
    /\ data.fd # Null =>
         /\ data.rank_index < Skip
         /\ display_rank(data.fd.minor, {}) <= data.rank_index
    /\ Roomy =>
         /\ data.fd = Null => data.rank_index = Skip
         /\ \A m \in Minor : Behind(m) =>
              data.rank_index <= display_rank(m, hw.flaky)
    /\ pc = "close" => ~end

\* The inductive invariant of the answers.
Answers ==
  /\ FilteredSoFar
  /\ RankedSoFar
  /\ FilteredIsFirst
  /\ RankedIsLowest
  /\ DisplayHasPipe

\* Everything known of a state.
All == Inv /\ Types2 /\ Spare /\ Answers

\* What a card is does not change, nor what a running request wants.
LEMMA SameMachine ==
  ASSUME UNCHANGED environment
  PROVE  /\ hw' = hw /\ limit' = limit
         /\ \A m, lost : (display_rank(m, lost))' = display_rank(m, lost)
         /\ request' = request =>
              \A m, lost : (Passes(m, lost))' = Passes(m, lost)
<1>1. hw' = hw /\ driver' = driver /\ limit' = limit
  BY DEF environment
<1>2. \A m, lost : (display_rank(m, lost))' = display_rank(m, lost)
  BY <1>1 DEF display_rank, Ranks, Usable, ConnectorsOf, EncodersOf, connector_has_crtc
<1>3. \A m, lost : (display_filter(m, lost))' = display_filter(m, lost)
  BY <1>1 DEF display_filter, ConnectorsOf
<1>4. \A m : (vgem_filter(m))' = vgem_filter(m)
  BY <1>1 DEF vgem_filter
<1> QED
  BY <1>1, <1>2, <1>3, <1>4 DEF Passes

\* A card that is absent is not one that anybody wants.
LEMMA AbsentIsUseless ==
  ASSUME NEW m, NEW lost, hw.card[m] = "absent"
  PROVE  ~Passes(m, lost) /\ display_rank(m, lost) = Skip
BY DEF Passes, vgem_filter, display_filter, display_rank, Ranks

\* A card that display_rank ranks has a pipe.
LEMMA RankedHasPipe ==
  ASSUME hw \in MachineType, NEW m \in Minor, display_rank(m, {}) < Skip
  PROVE  PipesOn(hw, {m}, CrtcIndex) # {}
<1>1. hw.card[m] = "kms" /\ \E c \in Usable(m, {}) : TRUE
  BY RankIs DEF Ranks
<1>2. PICK c \in Usable(m, {}) : TRUE
  BY <1>1
<1>3. /\ c \in hw.connected
      /\ \E n \in DOMAIN hw.connectors[m] : hw.connectors[m][n] = c
      /\ connector_has_crtc(m, c, {})
  BY <1>2 DEF Usable, ConnectorsOf
<1>4. c \in Connectors
  BY <1>3 DEF MachineType
<1>5. PICK e \in EncodersOf(c) : RoutableCrtcs(hw, m, e, CrtcIndex) # {}
  BY <1>3 DEF connector_has_crtc
<1>6. \E n \in DOMAIN hw.encoders[c] : hw.encoders[c][n] = e
  BY <1>5 DEF EncodersOf
<1>7. e \in Encoders
  <2>1. hw.encoders[c] \in Seq(Encoders)
    BY <1>4 DEF MachineType
  <2> QED
    BY <1>6, <2>1
<1>8. PICK x : x \in RoutableCrtcs(hw, m, e, CrtcIndex)
  BY <1>5
<1>9. x \in CrtcIndex
  BY <1>8 DEF RoutableCrtcs
<1> DEFINE pipe == [minor |-> m, connector |-> c, encoder |-> e, crtc |-> x]
<1>10. pipe \in PipesOn(hw, {m}, CrtcIndex)
  BY <1>1, <1>3, <1>4, <1>6, <1>7, <1>8, <1>9 DEF PipesOn
<1> QED
  BY <1>10

LEMMA AnswersInit == Init => Answers
BY OpenAssumption
DEF Init, Answers, FilteredSoFar, RankedSoFar, FilteredIsFirst, RankedIsLowest,
    DisplayHasPipe, Returned, Requests

\* While a request runs nothing is claimed of what it returns.
LEMMA WhileRunning ==
  ASSUME pc' # "idle"
  PROVE  FilteredIsFirst' /\ RankedIsLowest' /\ DisplayHasPipe'
BY DEF FilteredIsFirst, RankedIsLowest, DisplayHasPipe, Returned

LEMMA RequestAnswers ==
  ASSUME All, NEW kind \in Requests, Request(kind)
  PROVE  Answers'
<1>1. data'.fd = Null /\ data'.rank_index = Skip /\ pc' = "enumerate" /\ dev_index' = 0
  BY DEF Request
<1>2. \A m \in Minor : ~Behind(m)'
  BY <1>1 DEF Behind, Minor
<1>3. FilteredSoFar' /\ RankedSoFar'
  BY <1>1, <1>2 DEF FilteredSoFar, RankedSoFar
<1> QED
  BY <1>1, <1>3, WhileRunning DEF Answers

\* No card is passed over for want of a descriptor.
LEMMA OpenCardAnswers ==
  ASSUME All, OpenCard
  PROVE  Answers'
<1>1. /\ pc = "enumerate" /\ fd = Null /\ dev_index \in Minor
      /\ UNCHANGED <<environment, request, data, slots, end>>
  BY HardwareAssumption DEF All, Inv, Control, Minor, OpenCard
<1>2. /\ hw' = hw
      /\ \A m, lost : (display_rank(m, lost))' = display_rank(m, lost)
      /\ \A m, lost : (Passes(m, lost))' = Passes(m, lost)
  BY <1>1, SameMachine
<1>3. CASE pc' = "body" /\ dev_index' = dev_index
  <2>1. \A m : Behind(m)' <=> Behind(m)
    BY <1>1, <1>3 DEF Behind
  <2>2. FilteredSoFar'
    BY <1>1, <1>2, <1>3, <2>1 DEF All, Answers, FilteredSoFar, Roomy
  <2>3. RankedSoFar'
    BY <1>1, <1>2, <1>3, <2>1 DEF All, Answers, RankedSoFar, Roomy
  <2> QED
    BY <1>3, <2>2, <2>3, WhileRunning DEF Answers
<1>4. CASE /\ pc' = "enumerate" /\ dev_index' = dev_index + 1
           /\ ~(hw.card[dev_index] # "absent" /\ HasRoom(open))
  <2>1. \A m \in Minor : Behind(m)' => Behind(m) \/ m = dev_index
    BY <1>1, <1>4, HardwareAssumption DEF Behind, Minor
  <2>2. Roomy => HasRoom(open)
    <3>1. open = owned \cup Here(data.fd)
      BY <1>1 DEF All, Inv, Accounted, Here
    <3>2. open = owned \/ open = owned \cup {data.fd}
      BY <3>1 DEF Here
    <3> QED
      BY <1>1, <3>2, EnoughRoom DEF All
  <2>3. Roomy => hw.card[dev_index] = "absent"
    BY <1>4, <2>2
  <2>4. Roomy => /\ ~Passes(dev_index, hw.flaky)
                 /\ display_rank(dev_index, hw.flaky) = Skip
    BY <2>3, AbsentIsUseless
  <2>5. data.rank_index <= Skip
    BY HardwareAssumption DEF All, Types2
  <2>6. FilteredSoFar'
    BY <1>1, <1>2, <1>4, <2>1, <2>4 DEF All, Answers, FilteredSoFar, Roomy
  <2>7. RankedSoFar'
    BY <1>1, <1>2, <1>4, <2>1, <2>4, <2>5 DEF All, Answers, RankedSoFar, Roomy
  <2> QED
    BY <1>4, <2>6, <2>7, WhileRunning DEF Answers
<1> QED
  BY <1>1, <1>3, <1>4 DEF OpenCard

\* bs_open_filtered_body: the card taken is the first one that passes.
LEMMA FilteredAnswers ==
  ASSUME All, Body, request # "bs_drm_open_main_display",
         NEW lost \in SUBSET hw.flaky,
         FilteredBody(Passes(fd.minor, lost))
  PROVE  FilteredSoFar'
<1>1. /\ pc = "body" /\ pc' = "close"
      /\ fd \in Fd /\ fd # Null /\ data.fd = Null
      /\ UNCHANGED <<environment, owned, request, dev_index, fd, slots>>
  BY DEF All, Inv, Control, Filtering, Body
<1>2. /\ hw' = hw
      /\ \A m, l : (Passes(m, l))' = Passes(m, l)
  BY <1>1, SameMachine
<1>3. /\ dev_index \in Minor /\ fd.minor = dev_index
      /\ \A m \in Minor : Behind(m) <=> m < dev_index
      /\ \A m \in Minor : Behind(m)' <=> m <= dev_index
  BY <1>1, HardwareAssumption DEF All, Types2, Inv, Control, Behind, Minor
<1> SUFFICES ASSUME Roomy PROVE FilteredSoFar'
  BY <1>1 DEF FilteredSoFar, Roomy
<1>4. \A m \in Minor : m < dev_index => ~Passes(m, hw.flaky)
  BY <1>1, <1>3 DEF All, Answers, FilteredSoFar
<1>5. CASE Passes(fd.minor, lost)
  <2>1. open = owned \cup {fd}
    BY <1>1 DEF All, Inv, Accounted, Here
  <2>2. HasRoom(open)
    BY <1>1, <2>1, EnoughRoom DEF All
  <2>3. data'.fd = DupOf(open) /\ data'.fd # Null /\ data'.fd.minor = dev_index
    BY <1>1, <1>3, <1>5, <2>2, CopyType DEF FilteredBody, All, Types2, TypeOK
  <2>4. Passes(dev_index, {})
    <3>1. {} \in SUBSET lost
      OBVIOUS
    <3> QED
      BY <1>3, <1>5, <3>1, PassesMonotone
  <2>5. \A m \in Minor : Passes(m, hw.flaky) => dev_index <= m
    BY <1>3, <1>4, HardwareAssumption DEF Minor
  <2> QED
    BY <1>2, <2>3, <2>4, <2>5 DEF FilteredSoFar
<1>6. CASE ~Passes(fd.minor, lost)
  <2>1. data' = data /\ ~end'
    BY <1>6 DEF FilteredBody
  <2>2. ~Passes(dev_index, hw.flaky)
    BY <1>3, <1>6, PassesMonotone
  <2>3. \A m \in Minor : m <= dev_index => ~Passes(m, hw.flaky)
    BY <1>3, <1>4, <2>2, HardwareAssumption DEF Minor
  <2> QED
    BY <1>1, <1>2, <1>3, <2>1, <2>3 DEF FilteredSoFar
<1> QED
  BY <1>5, <1>6

\* bs_open_ranked_body: the card taken, if any, ranks below those behind it.
LEMMA RankedAnswers ==
  ASSUME All, Body, request = "bs_drm_open_main_display",
         NEW lost \in SUBSET hw.flaky,
         RankedBody(display_rank(fd.minor, lost))
  PROVE  RankedSoFar'
<1> DEFINE rank == display_rank(fd.minor, lost)
<1>1. /\ pc = "body" /\ pc' = "close" /\ fd \in Fd /\ fd # Null
      /\ UNCHANGED <<environment, owned, request, dev_index, fd, slots>>
  BY DEF All, Inv, Control, Body
<1>2. /\ hw' = hw
      /\ \A m, l : (display_rank(m, l))' = display_rank(m, l)
  BY <1>1, SameMachine
<1>3. /\ dev_index \in Minor /\ fd.minor = dev_index
      /\ \A m \in Minor : Behind(m) <=> m < dev_index
      /\ \A m \in Minor : Behind(m)' <=> m <= dev_index
  BY <1>1, HardwareAssumption DEF All, Types2, Inv, Control, Behind, Minor
<1>4. /\ rank \in 1 .. Skip /\ ~end'
      /\ data.rank_index \in 1 .. Skip
      /\ \A m : display_rank(m, hw.flaky) \in 1 .. Skip
  <2>1. rank \in 1 .. Skip /\ \A m : display_rank(m, hw.flaky) \in 1 .. Skip
    BY RankIs
  <2>2. data.rank_index \in 1 .. Skip
    BY DEF All, Types2
  <2>3. end' = (rank = 0)
    BY DEF RankedBody
  <2>4. rank # 0
    BY <2>1
  <2>5. ~end'
    BY <2>3, <2>4
  <2> QED
    BY <2>1, <2>2, <2>5
<1>5. /\ display_rank(dev_index, {}) <= rank
      /\ rank <= display_rank(dev_index, hw.flaky)
  <2>1. {} \in SUBSET lost
    OBVIOUS
  <2> QED
    BY <1>3, <2>1, RankMonotone
<1>6. Roomy => \A m \in Minor : m < dev_index =>
                 data.rank_index <= display_rank(m, hw.flaky)
  BY <1>1, <1>3 DEF All, Answers, RankedSoFar
<1>7. CASE data.rank_index > rank
  <2> DEFINE table == open \ {data.fd}
  <2>1. data' = [rank_index |-> rank, fd |-> DupOf(table)]
    BY <1>7 DEF RankedBody
  <2>2. data'.fd # Null => data'.fd.minor = dev_index
    BY <1>1, <1>3, <2>1, CopyType
  <2>3. rank < Skip
    BY <1>4, <1>7, HardwareAssumption
  <2>4. Roomy => data'.fd # Null
    <3>1. table \subseteq owned \cup {fd} /\ owned \cup {fd} \subseteq table
      <4>1. open = owned \cup {fd} \cup Here(data.fd)
        BY <1>1 DEF All, Inv, Accounted, Here
      <4>2. fd # data.fd /\ data.fd \notin owned
        BY <1>1, ToldApart DEF All, Inv, Provenance
      <4> QED
        BY <4>1, <4>2 DEF Here
    <3>2. table = owned \cup {fd}
      BY <3>1
    <3>3. Roomy => HasRoom(table)
      BY <1>1, <3>2, EnoughRoom DEF All
    <3> QED
      BY <1>1, <2>1, <3>3, CopyType
  <2>5. Roomy => \A m \in Minor : m <= dev_index =>
                   rank <= display_rank(m, hw.flaky)
    <3> SUFFICES ASSUME Roomy, NEW m \in Minor, m <= dev_index
                 PROVE  rank <= display_rank(m, hw.flaky)
      OBVIOUS
    <3>1. CASE m = dev_index
      BY <1>5, <3>1
    <3>2. CASE m < dev_index
      <4>1. data.rank_index <= display_rank(m, hw.flaky)
        BY <1>6, <3>2
      <4> QED
        BY <1>4, <1>7, <4>1, HardwareAssumption
    <3> QED
      BY <1>3, <3>1, <3>2, HardwareAssumption DEF Minor
  <2> HIDE DEF rank
  <2>6. data'.rank_index = rank
    BY <2>1
  <2>7. data'.fd # Null => display_rank(data'.fd.minor, {}) <= rank
    BY <1>5, <2>2
  <2> QED
    BY <1>1, <1>2, <1>3, <1>4, <2>3, <2>4, <2>5, <2>6, <2>7
    DEF RankedSoFar, Roomy
<1>8. CASE ~(data.rank_index > rank)
  <2>1. data' = data
    BY <1>8 DEF RankedBody
  <2>2. Roomy => \A m \in Minor : m <= dev_index =>
                   data.rank_index <= display_rank(m, hw.flaky)
    <3> SUFFICES ASSUME Roomy, NEW m \in Minor, m <= dev_index
                 PROVE  data.rank_index <= display_rank(m, hw.flaky)
      OBVIOUS
    <3>1. CASE m = dev_index
      <4>1. data.rank_index <= rank
        BY <1>4, <1>8, HardwareAssumption
      <4> QED
        BY <1>4, <1>5, <3>1, <4>1, HardwareAssumption
    <3>2. CASE m < dev_index
      BY <1>6, <3>2
    <3> QED
      BY <1>3, <3>1, <3>2, HardwareAssumption DEF Minor
  <2> QED
    BY <1>1, <1>2, <1>3, <1>4, <2>1, <2>2
    DEF All, Answers, RankedSoFar, Roomy
<1> QED
  BY <1>7, <1>8

LEMMA BodyAnswers ==
  ASSUME All, Body
  PROVE  Answers'
<1>1. pc' = "close" /\ request' = request
  BY DEF Body
<1>2. CASE request = "bs_drm_open_main_display"
  <2>1. PICK lost \in SUBSET hw.flaky : RankedBody(display_rank(fd.minor, lost))
    BY <1>2 DEF Body
  <2>2. RankedSoFar'
    BY <1>2, <2>1, RankedAnswers
  <2> QED
    BY <1>1, <1>2, <2>2, WhileRunning DEF Answers, FilteredSoFar
<1>3. CASE request # "bs_drm_open_main_display"
  <2>1. PICK lost \in SUBSET hw.flaky : FilteredBody(Passes(fd.minor, lost))
    BY <1>3 DEF Body, Passes
  <2>2. FilteredSoFar'
    BY <1>3, <2>1, FilteredAnswers
  <2> QED
    BY <1>1, <1>3, <2>2, WhileRunning DEF Answers, RankedSoFar
<1> QED
  BY <1>2, <1>3

LEMMA CloseCardAnswers ==
  ASSUME All, CloseCard
  PROVE  Answers'
<1>1. /\ pc = "close" /\ pc' = "enumerate" /\ dev_index \in Minor
      /\ UNCHANGED <<environment, request, data, slots>>
      /\ dev_index' = IF end THEN DRM_MAX_MINOR ELSE dev_index + 1
  BY DEF All, Inv, Control, CloseCard
<1>2. /\ hw' = hw
      /\ \A m, lost : (display_rank(m, lost))' = display_rank(m, lost)
      /\ \A m, lost : (Passes(m, lost))' = Passes(m, lost)
  BY <1>1, SameMachine
<1>3. ~end => \A m \in Minor : Behind(m)' => Behind(m)
  BY <1>1, HardwareAssumption DEF Behind, Minor
<1>4. FilteredSoFar'
  BY <1>1, <1>2, <1>3 DEF All, Answers, FilteredSoFar, Roomy
<1>5. RankedSoFar'
  BY <1>1, <1>2, <1>3 DEF All, Answers, RankedSoFar, Roomy
<1> QED
  BY <1>1, <1>4, <1>5, WhileRunning DEF Answers

\* At the end every card is behind.
LEMMA ReturnAnswers ==
  ASSUME All, Return
  PROVE  Answers'
<1>1. /\ pc = "enumerate" /\ pc' = "idle" /\ result' = data.fd
      /\ UNCHANGED <<environment, request, slots>>
      /\ \A m \in Minor : Behind(m)
  BY HardwareAssumption DEF Return, Behind, Minor
<1>2. /\ hw' = hw
      /\ \A m, lost : (display_rank(m, lost))' = display_rank(m, lost)
      /\ \A m, lost : (Passes(m, lost))' = Passes(m, lost)
  BY <1>1, SameMachine
<1>3. FilteredIsFirst'
  BY <1>1, <1>2 DEF All, Answers, FilteredSoFar, FilteredIsFirst, Returned, Roomy
<1>4. ASSUME request = "bs_drm_open_main_display"
      PROVE  /\ result' # Null =>
                  /\ data.rank_index < Skip
                  /\ display_rank(result'.minor, {}) <= data.rank_index
             /\ Roomy =>
                  /\ result' = Null => data.rank_index = Skip
                  /\ \A m \in Minor :
                       data.rank_index <= display_rank(m, hw.flaky)
  BY <1>1, <1>4 DEF All, Answers, RankedSoFar
<1>5. /\ data.rank_index \in 1 .. Skip
      /\ \A m, lost : display_rank(m, lost) \in 1 .. Skip
  BY RankIs DEF All, Types2
<1>6. RankedIsLowest'
  <2> SUFFICES ASSUME request = "bs_drm_open_main_display", Roomy,
                      NEW m \in Minor, display_rank(m, hw.flaky) < Skip
               PROVE  /\ result' # Null
                      /\ display_rank(result'.minor, {}) <= display_rank(m, hw.flaky)
    BY <1>1, <1>2 DEF RankedIsLowest, Returned, Roomy
  <2>1. result' # Null
    BY <1>4, <1>5, HardwareAssumption
  <2> QED
    BY <1>4, <1>5, <2>1, HardwareAssumption
<1>7. DisplayHasPipe'
  <2> SUFFICES ASSUME request = "bs_drm_open_main_display", result' # Null
               PROVE  PipesOn(hw, {result'.minor}, CrtcIndex) # {}
    BY <1>1, <1>2 DEF DisplayHasPipe, Returned
  <2>1. result'.minor \in Minor
    BY <1>1 DEF All, Types2, TypeOK, Fd
  <2>2. display_rank(result'.minor, {}) < Skip
    BY <1>4, <1>5, HardwareAssumption
  <2> QED
    BY <2>1, <2>2, RankedHasPipe DEF All, Types2, TypeOK
<1>8. FilteredSoFar' /\ RankedSoFar'
  BY <1>1 DEF FilteredSoFar, RankedSoFar
<1> QED
  BY <1>3, <1>6, <1>7, <1>8 DEF Answers

LEMMA StutterAnswers ==
  ASSUME All, UNCHANGED vars
  PROVE  Answers'
<1>1. UNCHANGED <<environment, request, pc, dev_index, end, data, result, slots>>
  BY DEF vars
<1>2. /\ hw' = hw
      /\ \A m, lost : (display_rank(m, lost))' = display_rank(m, lost)
      /\ \A m, lost : (Passes(m, lost))' = Passes(m, lost)
  BY <1>1, SameMachine
<1>3. \A m : Behind(m)' <=> Behind(m)
  BY <1>1 DEF Behind
<1>4. FilteredSoFar' /\ RankedSoFar'
  BY <1>1, <1>2, <1>3 DEF All, Answers, FilteredSoFar, RankedSoFar, Roomy
<1>5. FilteredIsFirst' /\ RankedIsLowest' /\ DisplayHasPipe'
  BY <1>1, <1>2
  DEF All, Answers, FilteredIsFirst, RankedIsLowest, DisplayHasPipe, Returned, Roomy
<1> QED
  BY <1>4, <1>5 DEF Answers

LEMMA AllInvariant == Spec => []All
<1>1. Init => All
  BY InitInv, TypesInit, SpareInit, AnswersInit DEF All
<1>2. All /\ [Next]_vars => All'
  <2> SUFFICES ASSUME All, [Next]_vars PROVE All'
    OBVIOUS
  <2>1. Inv' /\ Types2' /\ Spare'
    BY NextInv, TypesStep, SpareStep DEF All
  <2>2. Answers'
    BY RequestAnswers, OpenCardAnswers, BodyAnswers, CloseCardAnswers,
       ReturnAnswers, StutterAnswers DEF Next
  <2> QED
    BY <2>1, <2>2 DEF All
<1> QED
  BY <1>1, <1>2, PTL DEF Spec

\* The enumeration stays among the cards, the card looked at is open, and what
\* a request returns is a descriptor or none.
THEOREM OpenTypeCorrect == Spec => []TypeOK
<1>1. All => TypeOK
  BY DEF All, Types2
<1> QED
  BY <1>1, AllInvariant, PTL

\* With two descriptors to spare, bs_open_filtered returns the first card that
\* passes, whatever becomes unreadable meanwhile.
THEOREM TheFirstThatPasses == Spec => []FilteredIsFirst
<1>1. All => FilteredIsFirst
  BY DEF All, Answers
<1> QED
  BY <1>1, AllInvariant, PTL

\* With two descriptors to spare, bs_open_ranked returns a card no other is sure
\* to rank below: closing the best before the copy never loses the answer.
THEOREM TheLowestRank == Spec => []RankedIsLowest
<1>1. All => RankedIsLowest
  BY DEF All, Answers
<1> QED
  BY <1>1, AllInvariant, PTL

\* The card of bs_drm_open_main_display has a pipe for bs_drm_pipe_make, for
\* any limit of descriptors.
THEOREM MainDisplayHasPipe == Spec => []DisplayHasPipe
<1>1. All => DisplayHasPipe
  BY DEF All, Answers
<1> QED
  BY <1>1, AllInvariant, PTL
=============================================================================
