------------------------------ MODULE DrmPipe ------------------------------
(***************************************************************************)
(* bs_drm_pipe_plumber of bsdrm/src/drm_pipe.c and the backtracking search *)
(* bs_pipe_make of bsdrm/src/pipe.c it runs on: the plumber's setters, the *)
(* scan of the cards, the collection of their connectors, the search piece *)
(* by piece, the rounds that look for a better rank, and the hand-over and *)
(* clean-up at the end.                                                    *)
(*                                                                         *)
(* Indices count from 0, as in the code; At reads a sequence so.           *)
(***************************************************************************)
EXTENDS DrmHardware

CONSTANTS
  Null,            \* NULL, and what is not set
  RankTables,      \* the rank tables a caller may pass
  Masks,           \* the CRTC masks a caller may pass
  Pending,         \* for the refinement: no answer yet
  MaxMakes         \* bound: calls of bs_drm_pipe_plumber_make

FullMask == CrtcIndex

\* A descriptor is named by the card it was opened on and by the call of
\* bs_drm_pipe_plumber_make that opened it; call 0 is the caller itself.
Fd == [minor : Minor, call : Nat]

\* struct bs_drm_pipe, its descriptor told by the card.
PipeType ==
  [minor : Minor, connector : Connectors, encoder : Encoders, crtc : CrtcIndex]

\* A libdrm object to be freed: a connector or the resources of a card.
Object == [of : Connectors \cup Minor, call : Nat]

PlumberType ==
  [ fd : Fd \cup {Null},                   \* Null is the -1 of _init
    connector_ranks : RankTables \cup {Null},
    crtc_mask : SUBSET CrtcIndex,
    connector_ptr : BOOLEAN ]              \* whether the caller wants it

\* struct fd_connector, its res and fd told by fd.
FdConnector == [fd : Fd, connector : Connectors \cup {Null}]

\* struct pipe_internal; connector is an index of the array connectors.
PipeInternal ==
  [ connector : Nat \cup {Null},
    next_connector_index : Nat,
    connector_rank : 0 .. Skip,
    encoder_id : Encoders \cup {Null},
    next_encoder_index : Nat,
    crtc_id : CrtcIndex \cup {Null},
    next_crtc_index : Nat ]

\* Connectors and cards have different names: both name libdrm objects.  Null
\* and Pending are none of the values they stand beside.
ASSUME PlumberAssumption ==
  /\ RankTables \subseteq RankTableType
  /\ Masks \subseteq SUBSET CrtcIndex
  /\ MaxMakes \in Nat
  /\ Connectors \cap Minor = {}
  /\ Null \notin Connectors \cup Encoders \cup RankTables
                  \cup Fd \cup PipeType \cup PipeInternal
  /\ Pending \notin PipeType \cup {Null}

\* One entry as calloc leaves it.
Zeroed ==
  [ connector |-> Null, next_connector_index |-> 0, connector_rank |-> 0,
    encoder_id |-> Null, next_encoder_index |-> 0,
    crtc_id |-> Null, next_crtc_index |-> 0 ]

piece_count == 3

VARIABLES
  hw,             \* the machine; never changes
  plumber,        \* struct bs_drm_pipe_plumber, or Null
  caller,         \* descriptors the caller owns
  held,           \* connectors the caller owns
  open,           \* descriptors that are open
  allocated,      \* libdrm objects not yet freed
  makes,          \* calls of bs_drm_pipe_plumber_make so far
  pc,             \* where the call stands
  fd_index,       \* of the loop that scans or collects
  fds,            \* descriptors with resources
  connectors,     \* array of fd_connector
  ctx,            \* best_rank and first_connector_index of struct pipe_ctx
  i,              \* bs_pipe_make: the piece to call next
  pipe_stack,     \* bs_pipe_make: piece_count + 1 entries
  pipe_internal,  \* the best pipe so far; Null while success is false
  pipe,           \* *pipe of the last call that returned, or Null
  asked,          \* history: pipes that satisfy the last request, ranked
  unread          \* history: objects a read of which failed in this call

plumberVars == <<plumber, caller, held>>
kernelVars == <<hw, open, allocated>>
searchVars == <<ctx, i, pipe_stack, pipe_internal>>
listVars == <<fd_index, fds, connectors>>
historyVars == <<asked, unread>>
vars == <<kernelVars, plumberVars, makes, pc, listVars, searchVars, pipe,
          historyVars>>

At(s, index) == s[index + 1]

Idle == pc \in {"none", "idle"}

----------------------------------------------------------------------------
\* What a request means, for the properties.

MinorsFor(p) == IF p.fd = Null THEN Minor ELSE {p.fd.minor}

RankFor(p, connector) ==
  IF p.connector_ranks = Null
  THEN 0
  ELSE bs_drm_connectors_rank(p.connector_ranks, hw.connector_type[connector])

\* The pipes that satisfy the constraints of the plumber p, with their ranks.
AskedOf(p) ==
  LET suitable == { q \in PipesOn(hw, MinorsFor(p), p.crtc_mask) :
                      RankFor(p, q.connector) < Skip }
  IN  [q \in suitable |-> RankFor(p, q.connector)]

----------------------------------------------------------------------------
Init ==
  /\ hw \in Hardware
  /\ plumber = Null
  /\ caller \in SUBSET {[minor |-> m, call |-> 0] :
                          m \in {n \in Minor : hw.card[n] # "absent"}}
  /\ held = {}
  /\ open = caller
  /\ allocated = {}
  /\ makes = 0
  /\ pc = "none"
  /\ fd_index = 0 /\ fds = <<>> /\ connectors = <<>>
  /\ ctx = [best_rank |-> Skip, first_connector_index |-> 0]
  /\ i = 0
  /\ pipe_stack = [k \in 0 .. piece_count |-> Zeroed]
  /\ pipe_internal = Null
  /\ pipe = Null
  /\ asked = <<>>
  /\ unread = {}

----------------------------------------------------------------------------
\* The plumber's life and its setters.

New ==
  /\ pc = "none"
  /\ pc' = "idle"
  /\ plumber' = [ fd |-> Null, connector_ranks |-> Null,
                  crtc_mask |-> FullMask, connector_ptr |-> FALSE ]
  /\ UNCHANGED <<kernelVars, caller, held, makes, listVars, searchVars, pipe,
                 historyVars>>

Destroy ==
  /\ pc = "idle"
  /\ pc' = "none"
  /\ plumber' = Null
  /\ UNCHANGED <<kernelVars, caller, held, makes, listVars, searchVars, pipe,
                 historyVars>>

Configure(changed) ==
  /\ pc = "idle"
  /\ plumber' = changed
  /\ UNCHANGED <<kernelVars, caller, held, makes, pc, listVars, searchVars,
                 pipe, historyVars>>

SetConnectorRanks(ranks) ==
  Configure([plumber EXCEPT !.connector_ranks = ranks])
SetCrtcMask(mask) == Configure([plumber EXCEPT !.crtc_mask = mask])
SetFd(fd) == Configure([plumber EXCEPT !.fd = fd])
SetConnectorPtr(wanted) == Configure([plumber EXCEPT !.connector_ptr = wanted])

----------------------------------------------------------------------------
\* bs_drm_pipe_plumber_make up to the search.

\* Entry, when the caller chose the card.
MakeOnCard ==
  /\ pc = "idle" /\ makes < MaxMakes
  /\ plumber.fd # Null
  /\ makes' = makes + 1
  /\ asked' = AskedOf(plumber)
  /\ unread' = {}
  /\ pipe' = Null
  /\ IF hw.card[plumber.fd.minor] = "kms"
     THEN /\ fds' = <<plumber.fd>>
          /\ allocated' = allocated \cup
                            {[of |-> plumber.fd.minor, call |-> makes + 1]}
          /\ pc' = "collect"
     ELSE /\ fds' = <<>>                   \* no resources: return false
          /\ pc' = "finish"
          /\ UNCHANGED allocated
  /\ fd_index' = 0 /\ connectors' = <<>>
  /\ pipe_internal' = Null
  /\ UNCHANGED <<plumberVars, hw, open, ctx, i, pipe_stack>>

\* Entry, when it did not.
MakeOnAnyCard ==
  /\ pc = "idle" /\ makes < MaxMakes
  /\ plumber.fd = Null
  /\ makes' = makes + 1
  /\ asked' = AskedOf(plumber)
  /\ unread' = {}
  /\ pipe' = Null
  /\ pc' = "scan"
  /\ fd_index' = 0 /\ fds' = <<>> /\ connectors' = <<>>
  /\ UNCHANGED <<plumberVars, kernelVars, searchVars>>

\* One turn of the loop over /dev/dri/card%d: a card that cannot be opened, or
\* that has no resources, is passed over.
ScanCard ==
  /\ pc = "scan"
  /\ fd_index < DRM_MAX_MINOR
  /\ fd_index' = fd_index + 1
  /\ IF hw.card[fd_index] = "kms"
     THEN LET fd == [minor |-> fd_index, call |-> makes]
          IN  /\ open' = open \cup {fd}
              /\ allocated' = allocated \cup {[of |-> fd_index, call |-> makes]}
              /\ fds' = Append(fds, fd)
     ELSE UNCHANGED <<open, allocated, fds>>
  /\ UNCHANGED <<plumberVars, hw, makes, pc, connectors, searchVars, pipe,
                 historyVars>>

ScanDone ==
  /\ pc = "scan"
  /\ fd_index = DRM_MAX_MINOR
  /\ pc' = "collect"
  /\ fd_index' = 0
  /\ UNCHANGED <<kernelVars, plumberVars, makes, fds, connectors, searchVars,
                 pipe, historyVars>>

\* The array entries of one card.  A connector in lost cannot be read.
EntriesOf(fd, lost) ==
  [ n \in DOMAIN hw.connectors[fd.minor] |->
      [ fd |-> fd,
        connector |-> IF hw.connectors[fd.minor][n] \in lost
                      THEN Null ELSE hw.connectors[fd.minor][n] ] ]

\* One turn of the loop that reads the connectors of a card.
CollectConnectors ==
  /\ pc = "collect"
  /\ fd_index < Len(fds)
  /\ fd_index' = fd_index + 1
  /\ LET fd == At(fds, fd_index)
         ids == {hw.connectors[fd.minor][n] : n \in DOMAIN hw.connectors[fd.minor]}
     IN  \E lost \in SUBSET (ids \cap hw.flaky) :
           /\ connectors' = connectors \o EntriesOf(fd, lost)
           /\ allocated' = allocated \cup
                             {[of |-> c, call |-> makes] : c \in ids \ lost}
           /\ unread' = unread \cup lost
  /\ UNCHANGED <<plumberVars, hw, open, makes, pc, fds, searchVars, pipe, asked>>

\* Mutant of StartRound: one connector too many is passed over.
StartRound_SkipsOne(best_rank, first_connector_index) ==
  /\ ctx' = [ best_rank |-> best_rank,
              first_connector_index |-> first_connector_index + 1 ]
  /\ i' = 0
  /\ pipe_stack' = [k \in 0 .. piece_count |-> Zeroed]

\* The state in which bs_pipe_make starts.
StartRound(best_rank, first_connector_index) ==
  /\ ctx' = [ best_rank |-> best_rank,
              first_connector_index |-> first_connector_index ]
  /\ i' = 0
  /\ pipe_stack' = [k \in 0 .. piece_count |-> Zeroed]

CollectDone ==
  /\ pc = "collect"
  /\ fd_index = Len(fds)
  /\ pc' = IF Skip = 0 THEN "finish" ELSE "search"
  /\ StartRound(Skip, 0)
  /\ pipe_internal' = Null
  /\ UNCHANGED <<kernelVars, plumberVars, makes, listVars, pipe, historyVars>>

----------------------------------------------------------------------------
\* bs_pipe_make: what happens when a piece returns.  The piece has turned the
\* stack entry i into p.

\* Mutant of PieceFits: the piece works on the copy, so its entry never learns
\* what was tried.
PieceFits_OnCopy(p) ==
  /\ pipe_stack' = [pipe_stack EXCEPT ![i + 1] = p]
  /\ i' = i + 1
  /\ pc' = pc

PieceFits(p) ==
  /\ pipe_stack' = [pipe_stack EXCEPT ![i] = p, ![i + 1] = p]
  /\ i' = i + 1
  /\ pc' = pc

\* Mutant of PieceFails: no test for the first piece.
PieceFails_Underflow(p) ==
  /\ pipe_stack' = [pipe_stack EXCEPT ![i] = p]
  /\ i' = i - 1
  /\ pc' = pc

PieceFails(p) ==
  /\ pipe_stack' = [pipe_stack EXCEPT ![i] = p]
  /\ IF i = 0
     THEN pc' = "finish" /\ i' = i         \* the round found no pipe
     ELSE pc' = pc /\ i' = i - 1

\* A piece leaves everything else as it is.
OnlySearches ==
  UNCHANGED <<plumberVars, kernelVars, makes, listVars, ctx, pipe_internal,
              pipe, asked>>

\* pipe_piece_connector.  The connectors from the start index on that can be
\* used: read, connected, and ranked better than the best so far.
StartIndex(p) ==
  IF p.next_connector_index = 0
  THEN ctx.first_connector_index
  ELSE p.next_connector_index

\* Mutant of UsableConnector: a rank equal to the best is taken as well.
UsableConnector_Ties(index) ==
  LET connector == At(connectors, index).connector
  IN  /\ connector # Null
      /\ connector \in hw.connected
      /\ plumber.connector_ranks # Null =>
           RankFor(plumber, connector) <= ctx.best_rank

UsableConnector(index) ==
  LET connector == At(connectors, index).connector
  IN  /\ connector # Null
      /\ connector \in hw.connected
      /\ plumber.connector_ranks # Null =>
           RankFor(plumber, connector) < ctx.best_rank

ConnectorPiece ==
  /\ pc = "search" /\ i = 0
  /\ LET p == pipe_stack[i]
         start == StartIndex(p)
         usable == {n \in start .. Len(connectors) - 1 : UsableConnector(n)}
     IN  \/ /\ usable # {}
            /\ \E n \in usable :
                 /\ \A m \in usable : n <= m
                 /\ PieceFits([ p EXCEPT
                      !.connector = n,
                      !.connector_rank = RankFor(plumber, At(connectors, n).connector),
                      !.next_connector_index = n + 1 ])
         \/ /\ usable = {}
            /\ PieceFails([ p EXCEPT
                 !.next_connector_index =
                   IF start < Len(connectors) THEN Len(connectors) + 1 ELSE start + 1 ])
  /\ UNCHANGED unread
  /\ OnlySearches

\* pipe_piece_encoder: the next encoder of the connector that can be read.
\* The encoders passed over are those whose read failed.
EncoderPiece ==
  /\ pc = "search" /\ i = 1
  /\ LET p == pipe_stack[i]
         encoders == hw.encoders[At(connectors, p.connector).connector]
         passed(n) == {At(encoders, m) : m \in p.next_encoder_index .. n - 1}
     IN  \/ \E n \in p.next_encoder_index .. Len(encoders) - 1 :
              /\ passed(n) \subseteq hw.flaky
              /\ unread' = unread \cup passed(n)
              /\ PieceFits([ p EXCEPT
                   !.encoder_id = At(encoders, n),
                   !.next_encoder_index = n + 1 ])
         \/ /\ passed(Len(encoders)) \subseteq hw.flaky
            /\ unread' = unread \cup passed(Len(encoders))
            /\ PieceFails([p EXCEPT !.next_encoder_index = Len(encoders) + 1])
  /\ OnlySearches

\* pipe_piece_crtc: the first CRTC, from next_crtc_index on, that the encoder
\* reaches.  The encoder is read once more, which may fail this time.
CrtcPiece ==
  /\ pc = "search" /\ i = 2
  /\ LET p == pipe_stack[i]
         minor == At(connectors, p.connector).fd.minor
         routable == { n \in RoutableCrtcs(hw, minor, p.encoder_id, plumber.crtc_mask) :
                         n >= p.next_crtc_index }
     IN  \/ /\ p.encoder_id \in hw.flaky
            /\ unread' = unread \cup {p.encoder_id}
            /\ PieceFails(p)
         \/ /\ routable = {}
            /\ PieceFails([p EXCEPT !.next_crtc_index = hw.count_crtcs[minor]])
            /\ UNCHANGED unread
         \/ \E n \in routable :
              /\ \A m \in routable : n <= m
              /\ PieceFits([p EXCEPT !.crtc_id = n, !.next_crtc_index = n])
              /\ UNCHANGED unread
  /\ OnlySearches

\* bs_pipe_make returned true: keep the pipe and, when there are ranks, look
\* among the connectors after it for a better one.
RoundMade ==
  /\ pc = "search" /\ i = piece_count
  /\ LET made == pipe_stack[piece_count - 1]
     IN  /\ pipe_internal' = made
         /\ IF plumber.connector_ranks = Null
            THEN pc' = "finish" /\ UNCHANGED <<ctx, i, pipe_stack>>
            ELSE /\ StartRound(made.connector_rank, made.next_connector_index)
                 /\ pc' = IF made.connector_rank = 0 THEN "finish" ELSE "search"
  /\ UNCHANGED <<kernelVars, plumberVars, makes, listVars, pipe, historyVars>>

----------------------------------------------------------------------------
\* The end of bs_drm_pipe_plumber_make: the pipe and the connector are handed
\* over, everything else the call holds is freed and closed.

\* The pipe a pipe_internal stands for.
PipeOf(internal) ==
  LET fd_connector == At(connectors, internal.connector)
  IN  [ minor |-> fd_connector.fd.minor, connector |-> fd_connector.connector,
        encoder |-> internal.encoder_id, crtc |-> internal.crtc_id ]

Elements(s) == {s[n] : n \in DOMAIN s}

\* Connectors still in the array when it is freed.
FreedConnectors(handed) ==
  {[of |-> c, call |-> makes] :
     c \in {e.connector : e \in Elements(connectors)} \ {Null, handed}}

\* Mutant of ClosedFds: the caller's descriptor is closed like any other.
ClosedFds_Callers(chosen) == {fd \in Elements(fds) : fd # chosen}

ClosedFds(chosen) ==
  {fd \in Elements(fds) : fd # plumber.fd /\ fd # chosen}

Finish ==
  /\ pc = "finish"
  /\ pc' = "idle"
  /\ LET success == pipe_internal # Null
         made == PipeOf(pipe_internal)
         fd == At(connectors, pipe_internal.connector).fd
         chosen == IF success THEN fd ELSE Null
         handed == IF success /\ plumber.connector_ptr THEN made.connector ELSE Null
     IN  /\ pipe' = IF success THEN made ELSE Null
         /\ open' = open \ ClosedFds(chosen)
         /\ allocated' = allocated \ (FreedConnectors(handed)
                           \cup {[of |-> f.minor, call |-> makes] : f \in Elements(fds)})
         /\ caller' = IF success THEN caller \cup {fd} ELSE caller
         /\ held' = IF handed = Null THEN held
                    ELSE held \cup {[of |-> handed, call |-> makes]}
  /\ fds' = <<>> /\ connectors' = <<>> /\ fd_index' = 0
  /\ UNCHANGED <<hw, plumber, makes, searchVars, historyVars>>

----------------------------------------------------------------------------
\* The caller's calls, and the steps of bs_drm_pipe_plumber_make.
Call ==
  \/ New
  \/ Destroy
  \/ \E ranks \in RankTables \cup {Null} : SetConnectorRanks(ranks)
  \/ \E mask \in Masks : SetCrtcMask(mask)
  \/ \E fd \in caller \cup {Null} : SetFd(fd)
  \/ \E wanted \in BOOLEAN : SetConnectorPtr(wanted)
  \/ MakeOnCard
  \/ MakeOnAnyCard

Step ==
  \/ ScanCard
  \/ ScanDone
  \/ CollectConnectors
  \/ CollectDone
  \/ ConnectorPiece
  \/ EncoderPiece
  \/ CrtcPiece
  \/ RoundMade
  \/ Finish

Next == Call \/ Step

\* bs_drm_pipe_plumber_make is a loop that never blocks: it keeps running.
Spec == Init /\ [][Next]_vars /\ WF_vars(Step)

----------------------------------------------------------------------------
\* Every variable holds a value of its C type; the indices stay inside the
\* arrays that drm_pipe.c and pipe.c walk with them.
TypeOK ==
  /\ hw \in MachineType
  /\ plumber \in PlumberType \cup {Null}
  /\ caller \subseteq Fd
  /\ open \subseteq Fd
  /\ held \subseteq Object
  /\ allocated \subseteq Object
  /\ makes \in Nat
  /\ pc \in {"none", "idle", "scan", "collect", "search", "finish"}
  /\ fd_index \in Nat
  /\ fds \in Seq(Fd)
  /\ connectors \in Seq(FdConnector)
  /\ ctx \in [best_rank : 0 .. Skip, first_connector_index : Nat]
  /\ i \in 0 .. piece_count
  /\ pipe_stack \in [0 .. piece_count -> PipeInternal]
  /\ pipe_internal \in PipeInternal \cup {Null}
  /\ unread \subseteq Connectors \cup Encoders

\* The pipes that no failed read can have hidden from the call.
Seen == {q \in DOMAIN asked : q.connector \notin unread /\ q.encoder \notin unread}

\* When bs_drm_pipe_plumber_make has returned, its pipe satisfies every
\* constraint of the plumber and no pipe the call could see has a lower rank;
\* and it returned false only if it could see no pipe at all.  The search
\* prunes by rank and never looks at an earlier connector again, so this is
\* where a wrong start index or a too eager pruning shows.
AnswerIsBest ==
  Idle /\ makes > 0 =>
    IF pipe = Null
    THEN Seen = {}
    ELSE /\ pipe \in DOMAIN asked
         /\ \A q \in Seen : asked[pipe] <= asked[q]

\* The clean-up of drm_pipe.c:272-281 closes and frees exactly what the call
\* opened and allocated and did not hand over: between calls the open
\* descriptors and the live objects are those the caller owns, and a card the
\* caller passed in is open all the time.
OwnershipBalanced ==
  /\ caller \subseteq open
  /\ Idle => open = caller /\ allocated = held

\* The backtracking of bs_pipe_make and the rounds of drm_pipe.c:243-258 end:
\* a call of bs_drm_pipe_plumber_make returns.
MakeReturns == ~Idle ~> Idle

\* The search keeps the promise of BestPipe: one answer per request, out of
\* the allowed ones.
Promise ==
  INSTANCE BestPipe WITH
    Pipes <- PipeType,
    NoPipe <- Null,
    rank <- asked,
    missed <- DOMAIN asked \ Seen,
    answer <- IF Idle THEN pipe ELSE Pending

KeepsPromise == Promise!Spec
=============================================================================
