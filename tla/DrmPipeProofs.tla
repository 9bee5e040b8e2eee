--------------------------- MODULE DrmPipeProofs ---------------------------
(***************************************************************************)
(* Proofs about bs_drm_pipe_plumber_make, for any card, request and rank   *)
(* tables, in four parts: that it remains within its structures and that   *)
(* the pipe it returns is usable and complete; that it releases what it    *)
(* does not hand over; that no pipe ranks better than its answer; and that *)
(* its rounds and its backtracking end.                                    *)
(***************************************************************************)
EXTENDS DrmPipe, TLAPS, WellFoundedInduction

----------------------------------------------------------------------------
\* A nonempty set of natural numbers has a least element.
LEMMA LeastExists ==
  ASSUME NEW T, T \subseteq Nat, T # {}
  PROVE  \E n \in T : \A m \in T : n <= m
<1> DEFINE less == OpToRel(<, Nat)
<1>1. IsWellFoundedOn(less, Nat)
  BY NatLessThanWellFounded
<1>2. \A n, m \in Nat : m < n => <<m, n>> \in less
  BY DEF OpToRel
<1> HIDE DEF less
<1>3. \E n \in T : \A m \in T : ~ (<<m, n>> \in less)
  BY <1>1, WFMin
<1>4. PICK n \in T : \A m \in T : ~ (<<m, n>> \in less)
  BY <1>3
<1>5. ASSUME NEW m \in T PROVE n <= m
  <2>1. n \in Nat /\ m \in Nat
    OBVIOUS
  <2>2. ~ (m < n)
    BY <1>2, <1>4, <2>1
  <2> QED
    BY <2>1, <2>2
<1> QED
  BY <1>5

\* bs_drm_connectors_rank (drm_connectors.c:44) returns a rank of the table, or
\* bs_rank_skip: never more than bs_rank_skip.
LEMMA RankInRange ==
  ASSUME NEW ranks \in RankTableType, NEW type \in Types
  PROVE  bs_drm_connectors_rank(ranks, type) \in 0 .. Skip
<1> DEFINE matching == MatchingEntries(ranks, type)
<1>1. CASE matching = {}
  BY <1>1, HardwareAssumption DEF bs_drm_connectors_rank
<1>2. CASE matching # {}
  <2>1. matching \subseteq Nat
    BY DEF MatchingEntries, RankTableType
  <2>2. \E n \in matching : \A m \in matching : n <= m
    BY <1>2, <2>1, LeastExists
  <2>3. PICK n \in matching : bs_drm_connectors_rank(ranks, type) = ranks[n][2]
    BY <1>2, <2>2 DEF bs_drm_connectors_rank
  <2>4. ranks[n] \in (Types \cup {AnyType}) \X (0 .. Skip)
    BY DEF MatchingEntries, RankTableType
  <2> QED
    BY <2>3, <2>4
<1> QED
  BY <1>1, <1>2

----------------------------------------------------------------------------
(***************************************************************************)
(* The shape of the search.  While bs_pipe_make runs, the entries of its   *)
(* stack up to the current piece agree on the connector, and from the CRTC *)
(* piece on, on the encoder: this is what the memcpy of pipe.c:18 is for,  *)
(* and why the pieces may follow the pointers an earlier piece has set.    *)
(***************************************************************************)
ValidIndex(n) ==
  /\ n \in Nat
  /\ n < Len(connectors)
  /\ At(connectors, n).connector \in Connectors

StackShape ==
  pc = "search" =>
    /\ i >= 1 => /\ ValidIndex(pipe_stack[0].connector)
                 /\ pipe_stack[1].connector = pipe_stack[0].connector
    /\ i >= 2 => /\ pipe_stack[1].encoder_id \in Encoders
                 /\ pipe_stack[2].encoder_id = pipe_stack[1].encoder_id
                 /\ pipe_stack[2].connector = pipe_stack[0].connector

BestShape ==
  pc \in {"search", "finish"} /\ pipe_internal # Null =>
    ValidIndex(pipe_internal.connector)

Structure ==
  /\ TypeOK
  /\ pc # "none" => plumber \in PlumberType
  /\ StackShape
  /\ BestShape

USE HardwareAssumption, PlumberAssumption DEF piece_count, At

\* A type fact each piece needs: an array element has a descriptor of a card.
LEMMA ElementTypes ==
  ASSUME TypeOK, NEW n \in Nat, n < Len(connectors)
  PROVE  /\ n + 1 \in DOMAIN connectors
         /\ At(connectors, n) \in FdConnector
BY DEF TypeOK

\* The stack as the memset and calloc before a round leave it.
LEMMA FreshStack == [k \in 0 .. piece_count |-> Zeroed] \in [0 .. piece_count -> PipeInternal]
<1>1. Zeroed \in PipeInternal
  BY DEF Zeroed, PipeInternal
<1> QED
  BY <1>1

LEMMA StructureInit == Init => Structure
BY DEF Init, Structure, TypeOK, StackShape, BestShape, Fd, Object, Zeroed,
       PipeInternal, Minor

\* The steps in which the caller acts.
LEMMA StructureCall == Structure /\ Call => Structure'
<1> SUFFICES ASSUME Structure, Call PROVE Structure'
  OBVIOUS
<1> USE DEF Structure, StackShape, BestShape, kernelVars, listVars, searchVars,
            historyVars, plumberVars
<1>1. CASE New
  BY <1>1 DEF New, TypeOK, PlumberType, FullMask
<1>2. CASE Destroy
  BY <1>2 DEF Destroy, TypeOK
<1>3. ASSUME NEW ranks \in RankTables \cup {Null}, SetConnectorRanks(ranks)
      PROVE  Structure'
  BY <1>3 DEF SetConnectorRanks, Configure, TypeOK, PlumberType
<1>4. ASSUME NEW mask \in Masks, SetCrtcMask(mask) PROVE Structure'
  BY <1>4 DEF SetCrtcMask, Configure, TypeOK, PlumberType
<1>5. ASSUME NEW fd \in caller \cup {Null}, SetFd(fd) PROVE Structure'
  BY <1>5 DEF SetFd, Configure, TypeOK, PlumberType
<1>6. ASSUME NEW wanted \in BOOLEAN, SetConnectorPtr(wanted) PROVE Structure'
  BY <1>6 DEF SetConnectorPtr, Configure, TypeOK, PlumberType
<1>7. CASE MakeOnCard
  <2>1. plumber \in PlumberType /\ plumber.fd \in Fd
    BY <1>7 DEF MakeOnCard, PlumberType
  <2>2. [of |-> plumber.fd.minor, call |-> makes + 1] \in Object
    BY <2>1, SMTT(30) DEF TypeOK, Fd, Object
  <2>3. fds' \in Seq(Fd)
    <3>1. <<plumber.fd>> \in Seq(Fd) /\ <<>> \in Seq(Fd)
      BY <2>1
    <3>2. fds' = <<plumber.fd>> \/ fds' = <<>>
      BY <1>7 DEF MakeOnCard
    <3> QED
      BY <3>1, <3>2
  <2>4. allocated' \subseteq Object
    BY <1>7, <2>2 DEF MakeOnCard, TypeOK
  <2>5. TypeOK'
    BY <1>7, <2>3, <2>4 DEF MakeOnCard, TypeOK
  <2> QED
    BY <1>7, <2>1, <2>5 DEF MakeOnCard
<1>8. CASE MakeOnAnyCard
  BY <1>8 DEF MakeOnAnyCard, TypeOK
<1> QED
  BY <1>1, <1>2, <1>3, <1>4, <1>5, <1>6, <1>7, <1>8 DEF Call

\* The steps of bs_drm_pipe_plumber_make outside the pieces.
LEMMA StructureMake ==
  Structure /\ (ScanCard \/ ScanDone \/ CollectConnectors \/ CollectDone \/ RoundMade)
    => Structure'
<1> SUFFICES ASSUME Structure,
                    ScanCard \/ ScanDone \/ CollectConnectors \/ CollectDone
                      \/ RoundMade
             PROVE  Structure'
  OBVIOUS
<1> USE DEF Structure, StackShape, BestShape, kernelVars, listVars, searchVars,
            historyVars, plumberVars
<1>1. CASE ScanCard
  <2>1. fd_index \in Minor /\ makes \in Nat
    BY <1>1 DEF ScanCard, TypeOK, Minor
  <2>2. /\ [minor |-> fd_index, call |-> makes] \in Fd
        /\ [of |-> fd_index, call |-> makes] \in Object
    BY <2>1 DEF Fd, Object
  <2>3. open' \subseteq Fd /\ allocated' \subseteq Object
    BY <1>1, <2>2 DEF ScanCard, TypeOK
  <2>4. fds' \in Seq(Fd)
    <3>1. fds \in Seq(Fd)
      BY DEF TypeOK
    <3>2. Append(fds, [minor |-> fd_index, call |-> makes]) \in Seq(Fd)
      BY <2>2, <3>1
    <3>3. \/ fds' = Append(fds, [minor |-> fd_index, call |-> makes])
          \/ fds' = fds
      BY <1>1 DEF ScanCard
    <3> QED
      BY <3>1, <3>2, <3>3
  <2>5. /\ fd_index' \in Nat /\ pc' = "scan" /\ pc = "scan"
        /\ UNCHANGED <<hw, plumber, caller, held, makes, connectors, ctx, i,
                       pipe_stack, pipe_internal, asked, unread>>
    BY <1>1, <2>1 DEF ScanCard, Minor
  <2> HIDE DEF TypeOK
  <2>6. TypeOK'
    BY <2>3, <2>4, <2>5 DEF TypeOK
  <2> QED
    BY <2>5, <2>6
<1>2. CASE ScanDone
  BY <1>2 DEF ScanDone, TypeOK
<1>3. CASE CollectConnectors
  <2> DEFINE fd == At(fds, fd_index)
             ids == {hw.connectors[fd.minor][n] : n \in DOMAIN hw.connectors[fd.minor]}
  <2>1. fd \in Fd /\ fd.minor \in Minor
    <3>1. fd_index \in Nat /\ fds \in Seq(Fd) /\ fd_index < Len(fds)
      BY <1>3 DEF CollectConnectors, TypeOK
    <3>2. Len(fds) \in Nat
      BY <3>1
    <3>3. fd_index + 1 \in 1 .. Len(fds)
      BY <3>1, <3>2
    <3>4. fd \in Fd
      BY <3>1, <3>3
    <3> QED
      BY <3>4 DEF Fd
  <2>2. hw.connectors[fd.minor] \in Seq(Connectors) /\ ids \subseteq Connectors
    BY <2>1 DEF TypeOK, MachineType
  <2>3. PICK lost \in SUBSET (ids \cap hw.flaky) :
           /\ connectors' = connectors \o EntriesOf(fd, lost)
           /\ allocated' = allocated \cup
                             {[of |-> c, call |-> makes] : c \in ids \ lost}
           /\ unread' = unread \cup lost
    BY <1>3 DEF CollectConnectors
  <2>4. EntriesOf(fd, lost) \in Seq(FdConnector)
    <3> DEFINE ns == DOMAIN hw.connectors[fd.minor]
    <3>1. PICK len \in Nat : ns = 1 .. len
      BY <2>2
    <3>2. \A n \in ns : hw.connectors[fd.minor][n] \in Connectors
      BY <2>2
    <3>3. EntriesOf(fd, lost) \in [1 .. len -> FdConnector]
      BY <2>1, <3>1, <3>2 DEF EntriesOf, FdConnector
    <3> QED
      BY <3>3
  <2>5. connectors' \in Seq(FdConnector)
    BY <2>3, <2>4 DEF TypeOK
  <2>6. allocated' \subseteq Object
    BY <2>2, <2>3 DEF TypeOK, Object
  <2>7. unread' \subseteq Connectors \cup Encoders
    BY <2>2, <2>3 DEF TypeOK
  <2>8. /\ fd_index' = fd_index + 1 /\ pc' = "collect" /\ pc = "collect"
        /\ UNCHANGED <<hw, plumber, caller, held, open, makes, fds, ctx, i,
                       pipe_stack, pipe_internal>>
    BY <1>3 DEF CollectConnectors
  <2> HIDE DEF fd, ids
  <2>9. TypeOK'
    BY <2>5, <2>6, <2>7, <2>8 DEF TypeOK
  <2> QED
    BY <2>8, <2>9
<1>4. CASE CollectDone
  <2>1. /\ ctx' = [best_rank |-> Skip, first_connector_index |-> 0]
        /\ i' = 0
        /\ pipe_stack' = [k \in 0 .. piece_count |-> Zeroed]
        /\ pc' \in {"search", "finish"}
        /\ pipe_internal' = Null
        /\ plumber \in PlumberType
        /\ UNCHANGED <<hw, plumber, caller, held, open, allocated, makes,
                       fd_index, fds, connectors, unread>>
    BY <1>4 DEF CollectDone, StartRound
  <2>2. /\ ctx' \in [best_rank : 0 .. Skip, first_connector_index : Nat]
        /\ i' \in 0 .. piece_count
        /\ pipe_stack' \in [0 .. piece_count -> PipeInternal]
    BY <2>1, FreshStack
  <2>3. TypeOK'
    BY <2>1, <2>2 DEF TypeOK
  <2> QED
    BY <2>1, <2>3
<1>5. CASE RoundMade
  <2>1. pipe_stack[2] \in PipeInternal /\ ValidIndex(pipe_stack[2].connector)
    BY <1>5 DEF RoundMade, TypeOK
  <2>2. ValidIndex(pipe_internal.connector)' /\ pipe_internal' \in PipeInternal
    BY <1>5, <2>1 DEF RoundMade, ValidIndex
  <2>3. /\ ctx' \in [best_rank : 0 .. Skip, first_connector_index : Nat]
        /\ i' \in 0 .. piece_count
        /\ pipe_stack' \in [0 .. piece_count -> PipeInternal]
    <3>1. pipe_stack[2].connector_rank \in 0 .. Skip
      BY <2>1 DEF PipeInternal
    <3>2. pipe_stack[2].next_connector_index \in Nat
      BY <2>1 DEF PipeInternal
    <3>3. CASE plumber.connector_ranks = Null
      BY <1>5, <3>3 DEF RoundMade, TypeOK
    <3>4. CASE plumber.connector_ranks # Null
      <4>1. /\ ctx' = [ best_rank |-> pipe_stack[2].connector_rank,
                        first_connector_index |-> pipe_stack[2].next_connector_index ]
            /\ i' = 0
            /\ pipe_stack' = [k \in 0 .. piece_count |-> Zeroed]
        BY <1>5, <3>4 DEF RoundMade, StartRound
      <4> QED
        BY <3>1, <3>2, <4>1, FreshStack
    <3> QED
      BY <3>3, <3>4
  <2>4. /\ pc' \in {"search", "finish"} /\ pc = "search"
        /\ pc' = "search" => i' = 0
        /\ UNCHANGED <<hw, plumber, caller, held, open, allocated, makes,
                       fd_index, fds, connectors, unread>>
    BY <1>5 DEF RoundMade, StartRound
  <2>5. TypeOK'
    BY <2>2, <2>3, <2>4 DEF TypeOK
  <2> QED
    BY <2>2, <2>4, <2>5
<1> QED
  BY <1>1, <1>2, <1>3, <1>4, <1>5

\* What the pieces write in their stack entry keeps its type.
LEMMA EntryUpdates ==
  ASSUME NEW x \in PipeInternal, NEW n \in Nat
  PROVE  /\ [x EXCEPT !.next_connector_index = n] \in PipeInternal
         /\ [x EXCEPT !.next_encoder_index = n] \in PipeInternal
         /\ [x EXCEPT !.next_crtc_index = n] \in PipeInternal
         /\ \A m \in Nat, r \in 0 .. Skip :
              [ x EXCEPT !.connector = n, !.connector_rank = r,
                         !.next_connector_index = m ] \in PipeInternal
         /\ \A e \in Encoders :
              [x EXCEPT !.encoder_id = e, !.next_encoder_index = n] \in PipeInternal
         /\ \A c \in CrtcIndex :
              [x EXCEPT !.crtc_id = c, !.next_crtc_index = n] \in PipeInternal
<1>1. /\ [x EXCEPT !.next_connector_index = n] \in PipeInternal
      /\ [x EXCEPT !.next_encoder_index = n] \in PipeInternal
      /\ [x EXCEPT !.next_crtc_index = n] \in PipeInternal
  BY DEF PipeInternal
<1>2. \A m \in Nat, r \in 0 .. Skip :
        [ x EXCEPT !.connector = n, !.connector_rank = r,
                   !.next_connector_index = m ] \in PipeInternal
  BY DEF PipeInternal
<1>3. \A e \in Encoders :
        [x EXCEPT !.encoder_id = e, !.next_encoder_index = n] \in PipeInternal
  BY DEF PipeInternal
<1>4. \A c \in CrtcIndex :
        [x EXCEPT !.crtc_id = c, !.next_crtc_index = n] \in PipeInternal
  BY DEF PipeInternal
<1> QED
  BY <1>1, <1>2, <1>3, <1>4

\* What a piece leaves in place, whatever it decides (pipe.c:12-33).
LEMMA PieceType ==
  ASSUME TypeOK, pc = "search", i < piece_count, OnlySearches,
         NEW p \in PipeInternal, unread' \subseteq Connectors \cup Encoders,
         PieceFits(p) \/ PieceFails(p)
  PROVE  TypeOK'
<1>1. i \in 0 .. 2 /\ pipe_stack \in [0 .. 3 -> PipeInternal]
  BY DEF TypeOK
<1>2. i' \in 0 .. 3 /\ pc' \in {"search", "finish"}
  BY <1>1 DEF PieceFits, PieceFails
<1>3. pipe_stack' \in [0 .. 3 -> PipeInternal]
  BY <1>1 DEF PieceFits, PieceFails
<1> QED
  BY <1>2, <1>3 DEF TypeOK, OnlySearches, plumberVars, kernelVars, listVars

\* The best pipe found so far is not touched by a piece.
LEMMA PieceBest ==
  ASSUME BestShape, pc = "search", OnlySearches,
         NEW p, PieceFits(p) \/ PieceFails(p)
  PROVE  BestShape' /\ (plumber' = plumber)
BY DEF BestShape, OnlySearches, plumberVars, kernelVars, listVars, ValidIndex,
       PieceFits, PieceFails

LEMMA StructureConnectorPiece == Structure /\ ConnectorPiece => Structure'
<1> SUFFICES ASSUME Structure, ConnectorPiece PROVE Structure'
  OBVIOUS
<1> DEFINE p == pipe_stack[i]
           start == StartIndex(p)
           usable == {n \in start .. Len(connectors) - 1 : UsableConnector(n)}
           fitted(n) == [ p EXCEPT
                      !.connector = n,
                      !.connector_rank = RankFor(plumber, At(connectors, n).connector),
                      !.next_connector_index = n + 1 ]
           failed == [ p EXCEPT
                 !.next_connector_index =
                   IF start < Len(connectors) THEN Len(connectors) + 1 ELSE start + 1 ]
<1>1. /\ pc = "search" /\ i = 0 /\ OnlySearches /\ unread' = unread
      /\ TypeOK /\ BestShape /\ plumber \in PlumberType
  BY DEF ConnectorPiece, Structure
<1>2. /\ p \in PipeInternal /\ pipe_stack \in [0 .. 3 -> PipeInternal]
      /\ Len(connectors) \in Nat /\ unread \subseteq Connectors \cup Encoders
      /\ ctx.first_connector_index \in Nat /\ hw \in MachineType
  BY <1>1 DEF TypeOK
<1>3. start \in Nat
  BY <1>2 DEF StartIndex, PipeInternal
<1>4. (\E n \in usable : PieceFits(fitted(n))) \/ PieceFails(failed)
  BY <1>1 DEF ConnectorPiece
<1>5. ASSUME NEW n \in usable, PieceFits(fitted(n))
      PROVE  Structure'
  <2>1. n \in Nat /\ n < Len(connectors) /\ UsableConnector(n)
    BY <1>2, <1>3, <1>5
  <2>2. At(connectors, n) \in FdConnector
    BY <1>1, <2>1, ElementTypes
  <2>3. ValidIndex(n)
    BY <2>1, <2>2 DEF UsableConnector, ValidIndex, FdConnector
  <2> DEFINE connector == At(connectors, n).connector
  <2>4. hw.connector_type[connector] \in Types
    BY <1>2, <2>3 DEF ValidIndex, MachineType
  <2>5. RankFor(plumber, connector) \in 0 .. Skip
    <3>1. CASE plumber.connector_ranks = Null
      BY <3>1 DEF RankFor
    <3>2. CASE plumber.connector_ranks # Null
      <4>1. plumber.connector_ranks \in RankTableType
        BY <1>1, <3>2 DEF PlumberType
      <4> HIDE DEF connector
      <4> QED
        BY <2>4, <3>2, <4>1, RankInRange DEF RankFor
    <3> QED
      BY <3>1, <3>2
  <2>6. fitted(n) \in PipeInternal /\ fitted(n).connector = n
    <3> HIDE DEF p, connector
    <3>1. n + 1 \in Nat
      BY <2>1
    <3>2. fitted(n) \in PipeInternal
      BY <1>2, <2>1, <2>5, <3>1, EntryUpdates DEF connector
    <3>3. fitted(n).connector = n
      BY <1>2 DEF PipeInternal
    <3> QED
      BY <3>2, <3>3
  <2> HIDE DEF fitted, connector
  <2>7. TypeOK' /\ BestShape' /\ plumber' = plumber
    BY <1>1, <1>2, <1>5, <2>6, PieceType, PieceBest
  <2>8. i' = 1 /\ pipe_stack'[0].connector = n /\ pipe_stack'[1].connector = n
    BY <1>1, <1>2, <1>5, <2>6 DEF PieceFits
  <2>9. ValidIndex(n)'
    BY <1>1, <2>3 DEF ValidIndex, OnlySearches, listVars
  <2>10. StackShape'
    BY <2>8, <2>9 DEF StackShape
  <2> QED
    BY <1>1, <2>7, <2>10 DEF Structure
<1>6. CASE PieceFails(failed)
  <2>1. failed \in PipeInternal
    <3> DEFINE next == IF start < Len(connectors) THEN Len(connectors) + 1 ELSE start + 1
    <3>1. next \in Nat
      BY <1>2, <1>3
    <3> HIDE DEF p, next
    <3>2. [p EXCEPT !.next_connector_index = next] \in PipeInternal
      BY <1>2, <3>1, EntryUpdates
    <3> QED
      BY <3>2 DEF next
  <2> HIDE DEF failed
  <2>2. TypeOK' /\ BestShape' /\ plumber' = plumber
    BY <1>1, <1>2, <1>6, <2>1, PieceType, PieceBest
  <2>3. pc' = "finish"
    BY <1>1, <1>6 DEF PieceFails
  <2> QED
    BY <1>1, <2>2, <2>3 DEF Structure, StackShape
<1> QED
  BY <1>4, <1>5, <1>6

\* The connector a search entry points to, and its encoders.
LEMMA SearchEntry ==
  ASSUME Structure, pc = "search", i \in {1, 2}
  PROVE  /\ pipe_stack[i] \in PipeInternal
         /\ ValidIndex(pipe_stack[i].connector)
         /\ hw.encoders[At(connectors, pipe_stack[i].connector).connector] \in Seq(Encoders)
         /\ At(connectors, pipe_stack[i].connector).fd.minor \in Minor
<1>1. pipe_stack[i] \in PipeInternal /\ hw \in MachineType
  BY DEF Structure, TypeOK
<1>2. ValidIndex(pipe_stack[i].connector)
  BY DEF Structure, StackShape
<1>3. At(connectors, pipe_stack[i].connector) \in FdConnector
  BY <1>2, ElementTypes DEF Structure, ValidIndex
<1>4. hw.encoders[At(connectors, pipe_stack[i].connector).connector] \in Seq(Encoders)
  BY <1>1, <1>2 DEF ValidIndex, MachineType
<1> QED
  BY <1>1, <1>2, <1>3, <1>4 DEF FdConnector, Fd

LEMMA StructureEncoderPiece == Structure /\ EncoderPiece => Structure'
<1> SUFFICES ASSUME Structure, EncoderPiece PROVE Structure'
  OBVIOUS
<1> DEFINE p == pipe_stack[i]
           encoders == hw.encoders[At(connectors, p.connector).connector]
           passed(n) == {At(encoders, m) : m \in p.next_encoder_index .. n - 1}
           fitted(n) == [ p EXCEPT !.encoder_id = At(encoders, n),
                                   !.next_encoder_index = n + 1 ]
           failed == [p EXCEPT !.next_encoder_index = Len(encoders) + 1]
<1>1. /\ pc = "search" /\ i = 1 /\ OnlySearches
      /\ TypeOK /\ BestShape /\ plumber \in PlumberType
  BY DEF EncoderPiece, Structure
<1>2. /\ p \in PipeInternal /\ pipe_stack \in [0 .. 3 -> PipeInternal]
      /\ ValidIndex(p.connector) /\ encoders \in Seq(Encoders)
      /\ pipe_stack[1].connector = pipe_stack[0].connector
      /\ unread \subseteq Connectors \cup Encoders
  BY <1>1, SearchEntry DEF TypeOK, Structure, StackShape
<1>3. Len(encoders) \in Nat /\ p.next_encoder_index \in Nat
  <2> HIDE DEF p, encoders
  <2>1. Len(encoders) \in Nat
    BY <1>2
  <2>2. p.next_encoder_index \in Nat
    BY <1>2 DEF PipeInternal
  <2> QED
    BY <2>1, <2>2
<1>4. ASSUME NEW n \in 0 .. Len(encoders) PROVE passed(n) \subseteq Encoders
  <2> HIDE DEF p, encoders
  <2> QED
    BY <1>2, <1>3
<1>5. \/ \E n \in p.next_encoder_index .. Len(encoders) - 1 :
           unread' = unread \cup passed(n) /\ PieceFits(fitted(n))
      \/ unread' = unread \cup passed(Len(encoders)) /\ PieceFails(failed)
  BY <1>1 DEF EncoderPiece
<1>6. ASSUME NEW n \in p.next_encoder_index .. Len(encoders) - 1,
             unread' = unread \cup passed(n), PieceFits(fitted(n))
      PROVE  Structure'
  <2>1. n \in Nat /\ n + 1 \in 1 .. Len(encoders)
    <3> HIDE DEF p, encoders
    <3> QED
      BY <1>3
  <2>2. At(encoders, n) \in Encoders
    <3> HIDE DEF encoders
    <3> QED
      BY <1>2, <2>1
  <2>3. fitted(n) \in PipeInternal
    <3>1. n + 1 \in Nat
      BY <2>1
    <3> HIDE DEF p, encoders
    <3> QED
      BY <1>2, <3>1, <2>2, EntryUpdates
  <2>4. fitted(n).connector = p.connector /\ fitted(n).encoder_id = At(encoders, n)
    <3> HIDE DEF p, encoders
    <3> QED
      BY <1>2 DEF PipeInternal
  <2>5. unread' \subseteq Connectors \cup Encoders
    <3>1. passed(n) \subseteq Encoders
      <4>1. n \in 0 .. Len(encoders)
        <5> HIDE DEF p, encoders, passed, fitted
        <5> QED
          BY <1>3, <1>6
      <4> QED
        BY <1>4, <4>1
    <3> HIDE DEF passed
    <3> QED
      BY <1>2, <1>6, <3>1
  <2> HIDE DEF fitted, encoders, passed
  <2>6. TypeOK' /\ BestShape' /\ plumber' = plumber
    BY <1>1, <1>6, <2>3, <2>5, PieceType, PieceBest
  <2>7. /\ i' = 2 /\ pipe_stack'[0] = pipe_stack[0]
        /\ pipe_stack'[1] = fitted(n) /\ pipe_stack'[2] = fitted(n)
    BY <1>1, <1>2, <1>6 DEF PieceFits
  <2>8. ValidIndex(p.connector)'
    BY <1>1, <1>2, <2>4, <2>7 DEF ValidIndex, OnlySearches, listVars
  <2>9. StackShape'
    BY <1>1, <1>2, <2>2, <2>4, <2>7, <2>8 DEF StackShape
  <2> QED
    BY <1>1, <2>6, <2>9 DEF Structure
<1>7. CASE unread' = unread \cup passed(Len(encoders)) /\ PieceFails(failed)
  <2>1. failed \in PipeInternal
    <3> HIDE DEF p, encoders
    <3>1. Len(encoders) + 1 \in Nat
      BY <1>3
    <3> QED
      BY <1>2, <3>1, EntryUpdates
  <2>2. unread' \subseteq Connectors \cup Encoders
    <3>1. passed(Len(encoders)) \subseteq Encoders
      <4>1. Len(encoders) \in 0 .. Len(encoders)
        BY <1>3
      <4> QED
        BY <1>4, <4>1
    <3> HIDE DEF passed
    <3> QED
      BY <1>2, <1>7, <3>1
  <2> HIDE DEF failed, passed, encoders
  <2>3. TypeOK' /\ BestShape' /\ plumber' = plumber
    BY <1>1, <1>7, <2>1, <2>2, PieceType, PieceBest
  <2>4. i' = 0
    BY <1>1, <1>7 DEF PieceFails
  <2> QED
    BY <1>1, <2>3, <2>4 DEF Structure, StackShape
<1> QED
  BY <1>5, <1>6, <1>7

LEMMA StructureCrtcPiece == Structure /\ CrtcPiece => Structure'
<1> SUFFICES ASSUME Structure, CrtcPiece PROVE Structure'
  OBVIOUS
<1> DEFINE p == pipe_stack[i]
           minor == At(connectors, p.connector).fd.minor
           fitted(n) == [p EXCEPT !.crtc_id = n, !.next_crtc_index = n]
           failed == [p EXCEPT !.next_crtc_index = hw.count_crtcs[minor]]
<1>1. /\ pc = "search" /\ i = 2 /\ OnlySearches
      /\ TypeOK /\ BestShape /\ plumber \in PlumberType
  BY DEF CrtcPiece, Structure
<1>2. /\ p \in PipeInternal /\ pipe_stack \in [0 .. 3 -> PipeInternal]
      /\ ValidIndex(p.connector) /\ minor \in Minor
      /\ p.encoder_id \in Encoders
      /\ pipe_stack[1].connector = pipe_stack[0].connector
      /\ pipe_stack[1].encoder_id = p.encoder_id
      /\ p.connector = pipe_stack[0].connector
      /\ unread \subseteq Connectors \cup Encoders
  BY <1>1, SearchEntry DEF TypeOK, Structure, StackShape
<1>3. hw.count_crtcs[minor] \in Nat
  BY <1>1, <1>2 DEF TypeOK, MachineType
<1>4. unread' \subseteq Connectors \cup Encoders
  BY <1>1, <1>2 DEF CrtcPiece
<1>5. \/ PieceFails(p) \/ PieceFails(failed)
      \/ \E n \in CrtcIndex : n \in Nat /\ PieceFits(fitted(n))
  <2> DEFINE routable == { n \in RoutableCrtcs(hw, minor, p.encoder_id, plumber.crtc_mask) :
                             n >= p.next_crtc_index }
  <2>1. \/ PieceFails(p) \/ PieceFails(failed)
        \/ \E n \in routable : PieceFits(fitted(n))
    BY <1>1 DEF CrtcPiece
  <2>2. hw.possible_crtcs[p.encoder_id] \subseteq CrtcIndex
    BY <1>1, <1>2 DEF TypeOK, MachineType
  <2>3. CrtcIndex \subseteq Nat
    BY DEF CrtcIndex
  <2> HIDE DEF p, minor
  <2>4. routable \subseteq CrtcIndex
    BY <2>2 DEF RoutableCrtcs
  <2> HIDE DEF routable, fitted, failed
  <2> QED
    BY <2>1, <2>3, <2>4
<1>6. ASSUME NEW x \in {p, failed}, PieceFails(x)
      PROVE  Structure'
  <2>1. x \in PipeInternal
    <3> DEFINE count == hw.count_crtcs[minor]
    <3>1. count \in Nat
      BY <1>3
    <3> HIDE DEF p, count
    <3>2. [p EXCEPT !.next_crtc_index = count] \in PipeInternal
      BY <1>2, <3>1, EntryUpdates
    <3>3. failed \in PipeInternal
      BY <3>2 DEF count
    <3> QED
      BY <1>2, <1>6, <3>3
  <2>2. TypeOK' /\ BestShape' /\ plumber' = plumber
    BY <1>1, <1>4, <1>6, <2>1, PieceType, PieceBest
  <2>3. i' = 1 /\ pipe_stack'[0] = pipe_stack[0] /\ pipe_stack'[1] = pipe_stack[1]
    BY <1>1, <1>2, <1>6 DEF PieceFails
  <2>4. ValidIndex(pipe_stack[0].connector)'
    BY <1>1, <1>2, <2>3 DEF ValidIndex, OnlySearches, listVars
  <2>5. StackShape'
    BY <1>2, <2>3, <2>4 DEF StackShape
  <2> QED
    BY <1>1, <2>2, <2>5 DEF Structure
<1>7. ASSUME NEW n \in CrtcIndex, n \in Nat, PieceFits(fitted(n))
      PROVE  Structure'
  <2>1. fitted(n) \in PipeInternal /\ fitted(n).connector = p.connector
        /\ fitted(n).encoder_id = p.encoder_id
    <3> HIDE DEF p
    <3>1. fitted(n) \in PipeInternal
      BY <1>2, <1>7, EntryUpdates
    <3> QED
      BY <1>2, <3>1 DEF PipeInternal
  <2> HIDE DEF fitted
  <2>2. TypeOK' /\ BestShape' /\ plumber' = plumber
    BY <1>1, <1>4, <1>7, <2>1, PieceType, PieceBest
  <2>3. /\ i' = 3 /\ pipe_stack'[0] = pipe_stack[0] /\ pipe_stack'[1] = pipe_stack[1]
        /\ pipe_stack'[2] = fitted(n)
    BY <1>1, <1>2, <1>7 DEF PieceFits
  <2>4. ValidIndex(pipe_stack[0].connector)'
    BY <1>1, <1>2, <2>3 DEF ValidIndex, OnlySearches, listVars
  <2>5. StackShape'
    BY <1>1, <1>2, <2>1, <2>3, <2>4 DEF StackShape
  <2> QED
    BY <1>1, <2>2, <2>5 DEF Structure
<1> QED
  BY <1>5, <1>6, <1>7

LEMMA StructureFinish == Structure /\ Finish => Structure'
<1> SUFFICES ASSUME Structure, Finish PROVE Structure'
  OBVIOUS
<1> DEFINE made == At(connectors, pipe_internal.connector)
<1>1. /\ pc = "finish" /\ pc' = "idle" /\ fds' = <<>> /\ connectors' = <<>>
      /\ fd_index' = 0 /\ open' \subseteq open /\ allocated' \subseteq allocated
      /\ UNCHANGED <<hw, plumber, makes, ctx, i, pipe_stack, pipe_internal, unread>>
  BY DEF Finish, searchVars, historyVars
<1>2. /\ pipe_internal # Null => caller' = caller \cup {made.fd}
      /\ pipe_internal = Null => caller' = caller
      /\ \/ held' = held
         \/ /\ pipe_internal # Null
            /\ held' = held \cup {[of |-> made.connector, call |-> makes]}
  BY DEF Finish, PipeOf
<1>3. TypeOK /\ plumber \in PlumberType /\ makes \in Nat
  BY <1>1 DEF Structure, TypeOK
<1>4. pipe_internal # Null => made.fd \in Fd /\ made.connector \in Connectors
  <2>1. pipe_internal # Null => ValidIndex(pipe_internal.connector)
    BY <1>1 DEF Structure, BestShape
  <2>2. pipe_internal # Null => made \in FdConnector
    BY <1>3, <2>1, ElementTypes DEF ValidIndex
  <2> QED
    BY <2>1, <2>2 DEF FdConnector, ValidIndex
<1> HIDE DEF made
<1>5. caller' \subseteq Fd /\ held' \subseteq Object
  BY <1>2, <1>3, <1>4 DEF TypeOK, Object
<1>6. TypeOK'
  BY <1>1, <1>3, <1>5 DEF TypeOK
<1> QED
  BY <1>1, <1>3, <1>6 DEF Structure, StackShape, BestShape

LEMMA StructureStep == Structure /\ [Next]_vars => Structure'
<1>1. Structure /\ UNCHANGED vars => Structure'
  BY DEF Structure, TypeOK, StackShape, BestShape, ValidIndex, vars, kernelVars,
         plumberVars, listVars, searchVars, historyVars
<1> QED
  BY <1>1, StructureCall, StructureMake, StructureConnectorPiece,
     StructureEncoderPiece, StructureCrtcPiece, StructureFinish DEF Next, Step

LEMMA StructureAlways == Spec => []Structure
BY StructureInit, StructureStep, PTL DEF Spec

\* For every machine, every rank table and every sequence of the caller's
\* calls, the indices of the plumber and of its search stay inside the arrays
\* they walk and every field keeps its type.
THEOREM TypeCorrect == Spec => []TypeOK
<1>1. Structure => TypeOK
  BY DEF Structure
<1> QED
  BY <1>1, StructureAlways, PTL

----------------------------------------------------------------------------
(***************************************************************************)
(* Proof that bs_drm_pipe_plumber_make closes and frees exactly what it    *)
(* opened and allocated and did not hand over.                             *)
(***************************************************************************)

\* The elements of the sequences the call builds.
LEMMA ElementsEmpty == Elements(<<>>) = {}
BY DEF Elements

LEMMA ElementsOne == ASSUME NEW x PROVE Elements(<<x>>) = {x}
BY DEF Elements

LEMMA ElementsAppend ==
  ASSUME NEW S, NEW s \in Seq(S), NEW x \in S
  PROVE  Elements(Append(s, x)) = Elements(s) \cup {x}
<1>1. /\ Len(s) \in Nat /\ DOMAIN s = 1 .. Len(s)
      /\ DOMAIN Append(s, x) = 1 .. Len(s) + 1
      /\ \A n \in 1 .. Len(s) : Append(s, x)[n] = s[n]
      /\ Append(s, x)[Len(s) + 1] = x
  OBVIOUS
<1>2. 1 .. Len(s) + 1 = (1 .. Len(s)) \cup {Len(s) + 1}
  BY <1>1
<1> QED
  BY <1>1, <1>2 DEF Elements

LEMMA ElementsConcat ==
  ASSUME NEW S, NEW s \in Seq(S), NEW t \in Seq(S)
  PROVE  Elements(s \o t) = Elements(s) \cup Elements(t)
<1>1. /\ Len(s) \in Nat /\ DOMAIN s = 1 .. Len(s)
      /\ Len(t) \in Nat /\ DOMAIN t = 1 .. Len(t)
      /\ DOMAIN (s \o t) = 1 .. Len(s) + Len(t)
      /\ \A n \in 1 .. Len(s) : (s \o t)[n] = s[n]
      /\ \A n \in 1 .. Len(t) : (s \o t)[Len(s) + n] = t[n]
  OBVIOUS
<1>2. ASSUME NEW n \in 1 .. Len(s) + Len(t)
      PROVE  \/ n \in 1 .. Len(s)
             \/ n - Len(s) \in 1 .. Len(t) /\ n = Len(s) + (n - Len(s))
  BY <1>1
<1>3. ASSUME NEW n \in 1 .. Len(s) + Len(t)
      PROVE  (s \o t)[n] \in Elements(s) \cup Elements(t)
  BY <1>1, <1>2 DEF Elements
<1>4. ASSUME NEW n \in 1 .. Len(s) PROVE n \in 1 .. Len(s) + Len(t)
  BY <1>1
<1>5. ASSUME NEW n \in 1 .. Len(t) PROVE Len(s) + n \in 1 .. Len(s) + Len(t)
  BY <1>1
<1>6. Elements(s) \cup Elements(t) \subseteq Elements(s \o t)
  BY <1>1, <1>4, <1>5 DEF Elements
<1>7. Elements(s \o t) \subseteq Elements(s) \cup Elements(t)
  BY <1>1, <1>3 DEF Elements
<1> QED
  BY <1>6, <1>7

----------------------------------------------------------------------------
(***************************************************************************)
(* The inductive invariant.  During a call the open descriptors are the    *)
(* caller's and those in the array fds, and the live objects are the       *)
(* caller's, the resources of those cards and the connectors in the array. *)
(* What the call adds carries the number of the call, and what the caller  *)
(* owns an earlier one, so that the clean-up can tell them apart.          *)
(***************************************************************************)
Resources == {[of |-> f.minor, call |-> makes] : f \in Elements(fds)}

CallerOwns ==
  /\ pc # "none" => plumber.fd \in caller \cup {Null}
  /\ caller \subseteq open
  /\ Idle => /\ open = caller /\ allocated = held
             /\ \A fd \in caller : fd.call <= makes
             /\ \A object \in held : object.call <= makes

CallOwns ==
  ~Idle =>
    /\ open = caller \cup Elements(fds)
    /\ allocated = held \cup Resources \cup FreedConnectors(Null)
    /\ \A fd \in caller : fd.call < makes
    /\ \A object \in held : object.call < makes
    /\ pc = "scan" => plumber.fd = Null
    /\ plumber.fd # Null => Elements(fds) \subseteq {plumber.fd}
    /\ plumber.fd = Null => \A fd \in Elements(fds) : fd.call = makes
    /\ \A e \in Elements(connectors) : e.fd \in Elements(fds)

Ownership == CallerOwns /\ CallOwns

LEMMA OwnershipInit == Init => Ownership
BY DEF Init, Ownership, CallerOwns, CallOwns, Idle

LEMMA OwnershipCall == Structure /\ Ownership /\ Call => Ownership'
<1> SUFFICES ASSUME Structure, Ownership, Call PROVE Ownership'
  OBVIOUS
<1> USE DEF Ownership, CallerOwns, CallOwns, Idle, kernelVars, listVars,
            searchVars, historyVars, plumberVars
<1>1. CASE New
  BY <1>1 DEF New
<1>2. CASE Destroy
  BY <1>2 DEF Destroy
<1>3. ASSUME NEW ranks \in RankTables \cup {Null}, SetConnectorRanks(ranks)
      PROVE  Ownership'
  <2>1. plumber' \in PlumberType /\ plumber'.fd = plumber.fd
    BY <1>3 DEF SetConnectorRanks, Configure, Structure, PlumberType
  <2> QED
    BY <1>3, <2>1 DEF SetConnectorRanks, Configure
<1>4. ASSUME NEW mask \in Masks, SetCrtcMask(mask) PROVE Ownership'
  <2>1. plumber' \in PlumberType /\ plumber'.fd = plumber.fd
    BY <1>4 DEF SetCrtcMask, Configure, Structure, PlumberType
  <2> QED
    BY <1>4, <2>1 DEF SetCrtcMask, Configure
<1>5. ASSUME NEW fd \in caller \cup {Null}, SetFd(fd) PROVE Ownership'
  <2>1. plumber'.fd = fd
    BY <1>5 DEF SetFd, Configure, Structure, PlumberType
  <2> QED
    BY <1>5, <2>1 DEF SetFd, Configure
<1>6. ASSUME NEW wanted \in BOOLEAN, SetConnectorPtr(wanted) PROVE Ownership'
  <2>1. plumber' \in PlumberType /\ plumber'.fd = plumber.fd
    BY <1>6 DEF SetConnectorPtr, Configure, Structure, PlumberType
  <2> QED
    BY <1>6, <2>1 DEF SetConnectorPtr, Configure
<1>7. ASSUME MakeOnCard \/ MakeOnAnyCard PROVE Ownership'
  <2>1. /\ pc = "idle" /\ pc' \in {"collect", "scan", "finish"}
        /\ makes' = makes + 1 /\ connectors' = <<>>
        /\ UNCHANGED <<plumber, caller, held, open>>
        /\ plumber \in PlumberType
    BY <1>7 DEF MakeOnCard, MakeOnAnyCard, Structure
  <2>2. /\ plumber.fd = Null => fds' = <<>> /\ allocated' = allocated
        /\ \/ fds' = <<>> /\ allocated' = allocated
           \/ /\ fds' = <<plumber.fd>>
              /\ allocated' = allocated \cup
                   {[of |-> plumber.fd.minor, call |-> makes']}
    BY <1>7, <2>1 DEF MakeOnCard, MakeOnAnyCard
  <2>9. pc' = "scan" => plumber.fd = Null
    BY <1>7 DEF MakeOnCard, MakeOnAnyCard
  <2>3. \/ Elements(fds)' = {}
        \/ plumber.fd # Null /\ Elements(fds)' = {plumber.fd}
    BY <2>2, ElementsEmpty, ElementsOne
  <2>4. allocated' = held \cup Resources'
    BY <2>1, <2>2, ElementsEmpty, ElementsOne DEF Resources
  <2>5. Elements(connectors)' = {} /\ FreedConnectors(Null)' = {}
    BY <2>1, ElementsEmpty DEF FreedConnectors
  <2>6. makes \in Nat /\ caller \subseteq Fd /\ held \subseteq Object
    BY DEF Structure, TypeOK
  <2>7. /\ \A fd \in caller : fd.call < makes'
        /\ \A object \in held : object.call < makes'
    BY <2>1, <2>6 DEF Fd, Object
  <2>8. plumber.fd \in caller \cup {Null}
    BY <2>1
  <2> QED
    BY <2>1, <2>3, <2>4, <2>5, <2>7, <2>8, <2>9
<1> QED
  BY <1>1, <1>2, <1>3, <1>4, <1>5, <1>6, <1>7 DEF Call

\* The steps that open cards and read connectors.
LEMMA OwnershipScan == Structure /\ Ownership /\ ScanCard => Ownership'
<1> SUFFICES ASSUME Structure, Ownership, ScanCard PROVE Ownership'
  OBVIOUS
<1> USE DEF Ownership, CallerOwns, CallOwns, Idle
<1> DEFINE fd == [minor |-> fd_index, call |-> makes]
<1>1. /\ pc = "scan" /\ pc' = "scan"
      /\ UNCHANGED <<plumber, caller, held, makes, connectors>>
  BY DEF ScanCard, plumberVars
<1>2. \/ UNCHANGED <<open, allocated, fds>>
      \/ /\ open' = open \cup {fd}
         /\ allocated' = allocated \cup {[of |-> fd.minor, call |-> makes]}
         /\ fds' = Append(fds, fd)
  BY DEF ScanCard
<1>3. fd \in Fd /\ fds \in Seq(Fd) /\ fd.call = makes
  BY DEF ScanCard, Structure, TypeOK, Fd, Minor
<1> HIDE DEF fd
<1>4. CASE UNCHANGED <<open, allocated, fds>>
  BY <1>1, <1>4 DEF Resources, FreedConnectors, Elements
<1>5. CASE fds' = Append(fds, fd) /\ open' = open \cup {fd}
             /\ allocated' = allocated \cup {[of |-> fd.minor, call |-> makes]}
  <2>1. Elements(fds)' = Elements(fds) \cup {fd}
    BY <1>3, <1>5, ElementsAppend
  <2>2. Resources' = Resources \cup {[of |-> fd.minor, call |-> makes]}
    BY <1>1, <2>1 DEF Resources
  <2>3. FreedConnectors(Null)' = FreedConnectors(Null)
        /\ Elements(connectors)' = Elements(connectors)
    BY <1>1 DEF FreedConnectors, Elements
  <2>4. plumber.fd = Null
    BY <1>1
  <2> QED
    BY <1>1, <1>3, <1>5, <2>1, <2>2, <2>3, <2>4
<1> QED
  BY <1>2, <1>4, <1>5

LEMMA OwnershipCollect == Structure /\ Ownership /\ CollectConnectors => Ownership'
<1> SUFFICES ASSUME Structure, Ownership, CollectConnectors PROVE Ownership'
  OBVIOUS
<1> USE DEF Ownership, CallerOwns, CallOwns, Idle
<1> DEFINE fd == At(fds, fd_index)
           listed == hw.connectors[fd.minor]
           ids == {listed[n] : n \in DOMAIN listed}
<1>1. /\ pc = "collect" /\ pc' = "collect"
      /\ UNCHANGED <<plumber, caller, held, open, makes, fds>>
  BY DEF CollectConnectors, plumberVars
<1>2. PICK lost \in SUBSET (ids \cap hw.flaky) :
        /\ connectors' = connectors \o EntriesOf(fd, lost)
        /\ allocated' = allocated \cup
                          {[of |-> c, call |-> makes] : c \in ids \ lost}
  BY DEF CollectConnectors
<1>3. fd \in Elements(fds) /\ fd \in Fd /\ connectors \in Seq(FdConnector)
  <2>1. fd_index \in Nat /\ fds \in Seq(Fd) /\ fd_index < Len(fds)
    BY DEF CollectConnectors, Structure, TypeOK
  <2>2. fd_index + 1 \in DOMAIN fds
    BY <2>1
  <2> QED
    BY <2>1, <2>2 DEF Elements, Structure, TypeOK
<1>4. listed \in Seq(Connectors)
  BY <1>3 DEF Structure, TypeOK, MachineType, Fd
<1> HIDE DEF fd
<1>5. EntriesOf(fd, lost) \in Seq(FdConnector)
  <2> HIDE DEF listed
  <2>1. PICK len \in Nat : DOMAIN listed = 1 .. len
    BY <1>4
  <2>2. \A n \in DOMAIN listed : listed[n] \in Connectors
    BY <1>4
  <2>3. EntriesOf(fd, lost) =
          [ n \in DOMAIN listed |->
              [fd |-> fd, connector |-> IF listed[n] \in lost THEN Null ELSE listed[n]] ]
    BY DEF EntriesOf, listed
  <2>4. EntriesOf(fd, lost) \in [1 .. len -> FdConnector]
    BY <1>3, <2>1, <2>2, <2>3 DEF FdConnector
  <2> QED
    BY <2>4
<1> DEFINE Entry(c) == [fd |-> fd, connector |-> IF c \in lost THEN Null ELSE c]
<1>6. Elements(EntriesOf(fd, lost)) = {Entry(c) : c \in ids}
  <2>1. EntriesOf(fd, lost) = [n \in DOMAIN listed |-> Entry(listed[n])]
    BY DEF EntriesOf
  <2> HIDE DEF listed, Entry
  <2> QED
    BY <2>1 DEF Elements
<1>7. ids \subseteq Connectors
  BY <1>4
<1>8. Elements(connectors)' = Elements(connectors) \cup Elements(EntriesOf(fd, lost))
  BY <1>2, <1>3, <1>5, ElementsConcat
<1> HIDE DEF ids, listed
<1>9. FreedConnectors(Null)' =
        FreedConnectors(Null) \cup {[of |-> c, call |-> makes] : c \in ids \ lost}
  <2>1. {e.connector : e \in Elements(connectors)'} \ {Null} =
          ({e.connector : e \in Elements(connectors)} \ {Null}) \cup (ids \ lost)
    <3>1. \A c \in ids : Entry(c).connector = IF c \in lost THEN Null ELSE c
      OBVIOUS
    <3> HIDE DEF Entry
    <3>2. Null \notin ids /\ lost \subseteq ids
      BY <1>7
    <3>3. Elements(connectors)' = Elements(connectors) \cup {Entry(c) : c \in ids}
      BY <1>6, <1>8
    <3> QED
      BY <3>1, <3>2, <3>3
  <2> QED
    BY <1>1, <2>1 DEF FreedConnectors
<1>10. \A e \in Elements(connectors)' : e.fd \in Elements(fds)
  BY <1>1, <1>3, <1>6, <1>8
<1> HIDE DEF Entry
<1>11. Elements(fds)' = Elements(fds) /\ Resources' = Resources
  BY <1>1 DEF Resources, Elements
<1> QED
  BY <1>1, <1>2, <1>9, <1>10, <1>11

\* The steps that leave what is open and live alone.
LEMMA OwnershipSearch ==
  /\ Structure /\ Ownership
  /\ \/ ScanDone \/ CollectDone \/ ConnectorPiece \/ EncoderPiece \/ CrtcPiece
     \/ RoundMade \/ UNCHANGED vars
  => Ownership'
<1> SUFFICES ASSUME Structure, Ownership,
                    \/ ScanDone \/ CollectDone \/ ConnectorPiece \/ EncoderPiece
                    \/ CrtcPiece \/ RoundMade \/ UNCHANGED vars
             PROVE  Ownership'
  OBVIOUS
<1> USE DEF Ownership, CallerOwns, CallOwns, Idle
<1>1. /\ UNCHANGED <<plumber, caller, held, open, allocated, makes, fds, connectors>>
      /\ \/ pc' = pc
         \/ /\ pc \in {"scan", "collect", "search"}
            /\ pc' \in {"collect", "search", "finish"}
  BY DEF ScanDone, CollectDone, ConnectorPiece, EncoderPiece, CrtcPiece, RoundMade,
         vars, PieceFits, PieceFails, OnlySearches, kernelVars, plumberVars, listVars
<1>2. /\ Elements(fds)' = Elements(fds) /\ Elements(connectors)' = Elements(connectors)
      /\ Resources' = Resources /\ FreedConnectors(Null)' = FreedConnectors(Null)
  BY <1>1 DEF Elements, Resources, FreedConnectors
<1> QED
  BY <1>1, <1>2

LEMMA OwnershipFinish == Structure /\ Ownership /\ Finish => Ownership'
<1> SUFFICES ASSUME Structure, Ownership, Finish PROVE Ownership'
  OBVIOUS
<1> USE DEF Ownership, CallerOwns, CallOwns, Idle
<1> DEFINE made == At(connectors, pipe_internal.connector)
           success == pipe_internal # Null
           chosen == IF success THEN made.fd ELSE Null
           handed == IF success /\ plumber.connector_ptr THEN made.connector ELSE Null
<1>1. /\ pc = "finish" /\ pc' = "idle" /\ UNCHANGED <<plumber, makes>>
      /\ open' = open \ ClosedFds(chosen)
      /\ allocated' = allocated \ (FreedConnectors(handed) \cup Resources)
      /\ caller' = IF success THEN caller \cup {made.fd} ELSE caller
      /\ held' = IF handed = Null THEN held
                 ELSE held \cup {[of |-> handed, call |-> makes]}
  BY DEF Finish, PipeOf, Resources
<1>2. /\ caller \subseteq Fd /\ held \subseteq Object /\ makes \in Nat
      /\ fds \in Seq(Fd) /\ connectors \in Seq(FdConnector)
  BY DEF Structure, TypeOK
<1>3. success => made \in Elements(connectors) /\ made.connector \in Connectors
  <2>1. success => ValidIndex(pipe_internal.connector)
    BY <1>1 DEF Structure, BestShape
  <2>2. success => pipe_internal.connector + 1 \in DOMAIN connectors
    BY <2>1, ElementTypes DEF ValidIndex, Structure
  <2> QED
    BY <2>1, <2>2 DEF ValidIndex, Elements
<1> HIDE DEF made
<1>4. success => made.fd \in Elements(fds)
  BY <1>1, <1>3
<1>5. Elements(fds) \subseteq Fd
  BY <1>2 DEF Elements
<1>6. open' = caller'
  <2>1. CASE plumber.fd = Null
    <3>1. Elements(fds) \cap caller = {}
      BY <1>1, <1>2, <1>5, <2>1 DEF Fd
    <3>2. ClosedFds(chosen) = Elements(fds) \ {chosen}
      BY <1>5, <2>1 DEF ClosedFds
    <3> QED
      BY <1>1, <1>4, <1>5, <3>1, <3>2
  <2>2. CASE plumber.fd # Null
    <3>1. ClosedFds(chosen) = {} /\ plumber.fd \in caller
      BY <1>1, <2>2 DEF ClosedFds
    <3> QED
      BY <1>1, <1>4, <2>2, <3>1
  <2> QED
    BY <2>1, <2>2
<1>7. allocated' = held'
  <2> DEFINE live == {e.connector : e \in Elements(connectors)} \ {Null}
             Named(cs) == {[of |-> c, call |-> makes] : c \in cs}
  <2>1. FreedConnectors(Null) = Named(live) /\ FreedConnectors(handed) = Named(live \ {handed})
    BY DEF FreedConnectors
  <2>2. handed # Null => handed \in live /\ handed \in Connectors
    BY <1>3
  <2>3. \A object \in Resources : object.of \in Minor
    BY <1>5 DEF Resources, Fd
  <2>4. held \cap (Resources \cup Named(live)) = {}
    <3>1. \A object \in Resources \cup Named(live) : object.call = makes
      BY DEF Resources
    <3>2. \A object \in held : object.call # makes
      BY <1>1, <1>2 DEF Object
    <3> QED
      BY <3>1, <3>2
  <2>5. allocated = held \cup Resources \cup Named(live)
    BY <1>1, <2>1
  <2>6. CASE handed = Null
    <3>1. live \ {handed} = live
      BY <2>6
    <3>2. allocated' = allocated \ (Named(live) \cup Resources) /\ held' = held
      BY <1>1, <2>1, <2>6, <3>1
    <3> HIDE DEF live, Named
    <3> QED
      BY <2>4, <2>5, <3>2
  <2>7. CASE handed # Null
    <3>1. Named(live) = Named(live \ {handed}) \cup Named({handed})
      BY <2>2, <2>7
    <3>2. Named({handed}) \cap (Named(live \ {handed}) \cup Resources) = {}
      BY <2>2, <2>3, <2>7
    <3>3. /\ allocated' = allocated \ (Named(live \ {handed}) \cup Resources)
          /\ held' = held \cup Named({handed})
      BY <1>1, <2>1, <2>7
    <3> HIDE DEF live, Named, handed
    <3> QED
      BY <2>4, <2>5, <3>1, <3>2, <3>3
  <2> QED
    BY <2>6, <2>7
<1>8. \A fd \in caller' : fd.call <= makes
  <2>1. \A fd \in caller \cup Elements(fds) : fd \in Fd /\ fd.call <= makes
    BY <1>1, <1>2, <1>5 DEF Fd
  <2> QED
    BY <1>1, <1>4, <2>1
<1>9. \A object \in held' : object.call <= makes
  <2>1. \A object \in held : object.call <= makes
    BY <1>1, <1>2 DEF Object
  <2> QED
    BY <1>1, <1>2, <2>1
<1>10. plumber'.fd \in caller' \cup {Null}
  BY <1>1
<1> QED
  BY <1>1, <1>6, <1>7, <1>8, <1>9, <1>10

LEMMA OwnershipStep == Structure /\ Ownership /\ [Next]_vars => Ownership'
BY OwnershipCall, OwnershipScan, OwnershipCollect, OwnershipSearch, OwnershipFinish
   DEF Next, Step

\* For every machine, rank table and sequence of the caller's calls,
\* bs_drm_pipe_plumber_make (drm_pipe.c:182-284) closes and frees exactly what
\* it opened and allocated and did not hand over, on success and on failure,
\* and never the card the caller chose.
THEOREM OwnershipIsBalanced == Spec => []OwnershipBalanced
<1>1. Spec => []Ownership
  BY OwnershipInit, OwnershipStep, StructureAlways, PTL DEF Spec
<1>2. Ownership => OwnershipBalanced
  BY DEF Ownership, CallerOwns, OwnershipBalanced, Idle
<1> QED
  BY <1>1, <1>2, PTL

----------------------------------------------------------------------------
(***************************************************************************)
(* Proof that bs_drm_pipe_plumber_make answers with a pipe of the lowest   *)
(* rank, or with false when it can see no pipe, and that with this it      *)
(* keeps the promise of BestPipe.                                          *)
(***************************************************************************)

(***************************************************************************)
(* The inductive invariant, in the order of the call.  What was asked is   *)
(* the question of this call.  The arrays hold every connector of every    *)
(* card of the request, but for those that could not be read, and nothing  *)
(* else.                                                                   *)
(***************************************************************************)
Question == ~Idle => asked = AskedOf(plumber)

Listed(minor, connector) ==
  \E k \in DOMAIN hw.connectors[minor] : hw.connectors[minor][k] = connector

CardsTrue ==
  \A fd \in Elements(fds) :
    fd.minor \in MinorsFor(plumber) /\ hw.card[fd.minor] = "kms"

\* Every card of minors that the request speaks of has been opened.
CardsFound(minors) ==
  \A m \in minors \cap MinorsFor(plumber) :
    hw.card[m] = "kms" => \E fd \in Elements(fds) : fd.minor = m

EntriesTrue ==
  \A e \in Elements(connectors) :
    e.connector # Null => /\ e.fd.minor \in MinorsFor(plumber)
                          /\ hw.card[e.fd.minor] = "kms"
                          /\ Listed(e.fd.minor, e.connector)

Gathered(minor, connector) ==
  \/ connector \in unread
  \/ \E e \in Elements(connectors) : e.fd.minor = minor /\ e.connector = connector

GatheredFrom(minor) ==
  \A connector \in Connectors :
    Listed(minor, connector) => Gathered(minor, connector)

Lists ==
  /\ pc = "scan" =>
       /\ plumber.fd = Null
       /\ fd_index <= DRM_MAX_MINOR
       /\ connectors = <<>>
       /\ CardsTrue /\ CardsFound(0 .. fd_index - 1)
  /\ pc = "collect" =>
       /\ fd_index <= Len(fds)
       /\ CardsTrue /\ CardsFound(Minor)
       /\ EntriesTrue
       /\ \A n \in 1 .. fd_index : GatheredFrom(fds[n].minor)
  /\ pc \in {"search", "finish"} =>
       /\ EntriesTrue
       /\ \A q \in DOMAIN asked : Gathered(q.minor, q.connector)

(***************************************************************************)
(* The search never goes back to an array entry it is done with: no pipe   *)
(* that can be seen there is better than the best so far.  This holds of   *)
(* every entry before the one the round looks at, in this and in the       *)
(* earlier rounds, and is what the start index of a round rests on.        *)
(***************************************************************************)
EntryOf(n, q) ==
  /\ At(connectors, n).connector = q.connector
  /\ At(connectors, n).fd.minor = q.minor

DoneWith(n) ==
  n < Len(connectors) => \A q \in Seen : EntryOf(n, q) => ctx.best_rank <= asked[q]

DoneBefore(n) == \A m \in Nat : m < n => DoneWith(m)

EncodersAt(n) == hw.encoders[At(connectors, n).connector]

\* The first count encoders of the entry n lead to no pipe that can be seen.
EncodersTried(n, count) ==
  \A m \in 1 .. count :
    m <= Len(EncodersAt(n)) =>
      \A q \in Seen : EntryOf(n, q) => q.encoder # EncodersAt(n)[m]

BestSoFar ==
  pc = "search" =>
    /\ Skip > 0
    /\ DoneBefore(ctx.first_connector_index)
    /\ IF pipe_internal = Null
       THEN ctx.best_rank = Skip
       ELSE /\ PipeOf(pipe_internal) \in DOMAIN asked
            /\ asked[PipeOf(pipe_internal)] = ctx.best_rank

\* The stack entry x carries the choice of the array entry n.
Chosen(x, n) ==
  /\ x.connector = n
  /\ x.next_connector_index = n + 1
  /\ x.connector_rank = RankFor(plumber, At(connectors, n).connector)

\* The stack entry x carries the choice of an encoder of the array entry n,
\* and those before it have been tried.
ChosenEncoder(x, n) ==
  /\ x.next_encoder_index \in 1 .. Len(EncodersAt(n))
  /\ x.encoder_id = EncodersAt(n)[x.next_encoder_index]
  /\ EncodersTried(n, x.next_encoder_index - 1)

StackTells ==
  LET n == pipe_stack[0].connector
  IN  /\ pipe_stack[0].next_encoder_index = 0
      /\ pipe_stack[0].next_crtc_index = 0
      /\ i = 0 => DoneBefore(StartIndex(pipe_stack[0]))
      /\ i >= 1 => /\ DoneBefore(n) /\ UsableConnector(n)
                   /\ Chosen(pipe_stack[0], n) /\ Chosen(pipe_stack[1], n)
                   /\ pipe_stack[1].next_crtc_index = 0
      /\ i = 1 => EncodersTried(n, pipe_stack[1].next_encoder_index)
      /\ i >= 2 => Chosen(pipe_stack[2], n) /\ ChosenEncoder(pipe_stack[1], n)
      /\ i = 2 => pipe_stack[2].next_crtc_index = 0
      /\ i = 3 => pipe_stack[2].crtc_id \in
                    RoutableCrtcs(hw, At(connectors, n).fd.minor,
                                  pipe_stack[2].encoder_id, plumber.crtc_mask)

Tried == pc = "search" => StackTells

IsBest(p) == p \in DOMAIN asked /\ \A q \in Seen : asked[p] <= asked[q]

Decided ==
  pc = "finish" =>
    IF pipe_internal = Null THEN Seen = {} ELSE IsBest(PipeOf(pipe_internal))

Answered == pipe \in PipeType \cup {Null} /\ AnswerIsBest

Search == Question /\ Lists /\ BestSoFar /\ Tried /\ Decided /\ Answered

----------------------------------------------------------------------------
\* A failed read can only hide pipes.
LEMMA SeenShrinks ==
  ASSUME asked' = asked, unread \subseteq unread'
  PROVE  Seen' \subseteq Seen
BY DEF Seen

\* A connector has a rank.
LEMMA RankOfConnector ==
  ASSUME Structure, plumber \in PlumberType, NEW c \in Connectors
  PROVE  RankFor(plumber, c) \in 0 .. Skip
<1>1. hw.connector_type[c] \in Types
  BY DEF Structure, TypeOK, MachineType
<1>2. CASE plumber.connector_ranks = Null
  BY <1>2 DEF RankFor
<1>3. CASE plumber.connector_ranks # Null
  <2>1. plumber.connector_ranks \in RankTableType
    BY <1>3 DEF PlumberType
  <2> QED
    BY <1>1, <1>3, <2>1, RankInRange DEF RankFor
<1> QED
  BY <1>2, <1>3

\* What a pipe of the question is.
LEMMA AskedPipe ==
  ASSUME Structure, plumber \in PlumberType, asked = AskedOf(plumber),
         NEW q \in DOMAIN asked
  PROVE  /\ q \in PipeType
         /\ q.minor \in MinorsFor(plumber)
         /\ hw.card[q.minor] = "kms"
         /\ Listed(q.minor, q.connector)
         /\ q.connector \in hw.connected
         /\ \E k \in DOMAIN hw.encoders[q.connector] :
              hw.encoders[q.connector][k] = q.encoder
         /\ q.crtc \in RoutableCrtcs(hw, q.minor, q.encoder, plumber.crtc_mask)
         /\ asked[q] = RankFor(plumber, q.connector)
         /\ asked[q] \in 0 .. Skip - 1
<1> DEFINE suitable == { p \in PipesOn(hw, MinorsFor(plumber), plumber.crtc_mask) :
                           RankFor(plumber, p.connector) < Skip }
<1>1. asked = [p \in suitable |-> RankFor(plumber, p.connector)]
  BY DEF AskedOf
<1>2. /\ q \in PipesOn(hw, MinorsFor(plumber), plumber.crtc_mask)
      /\ RankFor(plumber, q.connector) < Skip
      /\ asked[q] = RankFor(plumber, q.connector)
  BY <1>1
<1>3. /\ q \in [ minor : MinorsFor(plumber), connector : Connectors,
                 encoder : Encoders, crtc : CrtcIndex ]
      /\ hw.card[q.minor] = "kms"
      /\ Listed(q.minor, q.connector)
      /\ q.connector \in hw.connected
      /\ \E k \in DOMAIN hw.encoders[q.connector] :
           hw.encoders[q.connector][k] = q.encoder
      /\ q.crtc \in RoutableCrtcs(hw, q.minor, q.encoder, plumber.crtc_mask)
  BY <1>2 DEF PipesOn, Listed
<1>4. MinorsFor(plumber) \subseteq Minor
  BY DEF MinorsFor, PlumberType, Fd
<1>5. q \in PipeType
  BY <1>3, <1>4 DEF PipeType
<1>6. asked[q] \in 0 .. Skip - 1
  BY <1>2, <1>3, RankOfConnector
<1> QED
  BY <1>2, <1>3, <1>5, <1>6

\* Which pipes are in the question.
LEMMA PipeAsked ==
  ASSUME asked = AskedOf(plumber),
         NEW q \in PipeType,
         q.minor \in MinorsFor(plumber),
         hw.card[q.minor] = "kms",
         Listed(q.minor, q.connector),
         q.connector \in hw.connected,
         \E k \in DOMAIN hw.encoders[q.connector] :
              hw.encoders[q.connector][k] = q.encoder,
         q.crtc \in RoutableCrtcs(hw, q.minor, q.encoder, plumber.crtc_mask),
         RankFor(plumber, q.connector) < Skip
  PROVE  q \in DOMAIN asked /\ asked[q] = RankFor(plumber, q.connector)
<1> DEFINE suitable == { p \in PipesOn(hw, MinorsFor(plumber), plumber.crtc_mask) :
                           RankFor(plumber, p.connector) < Skip }
<1>1. asked = [p \in suitable |-> RankFor(plumber, p.connector)]
  BY DEF AskedOf
<1>2. q \in [ minor : MinorsFor(plumber), connector : Connectors,
              encoder : Encoders, crtc : CrtcIndex ]
  BY DEF PipeType
<1>3. q \in PipesOn(hw, MinorsFor(plumber), plumber.crtc_mask)
  BY <1>2 DEF PipesOn, Listed
<1> QED
  BY <1>1, <1>3

LEMMA SearchInit == Init => Search
BY DEF Init, Search, Question, Lists, BestSoFar, Tried, Decided, Answered,
       AnswerIsBest, Idle

----------------------------------------------------------------------------
\* The caller's calls: the answer of the last call stands until the next.
LEMMA SearchCall == Structure /\ Search /\ Call => Search'
<1> SUFFICES ASSUME Structure, Search, Call PROVE Search'
  OBVIOUS
<1> USE DEF kernelVars, listVars, searchVars, historyVars, plumberVars
<1>1. ASSUME UNCHANGED <<makes, pipe, asked, unread>>, Idle, Idle', pc' # "scan",
             pc' # "collect", pc' # "search", pc' # "finish"
      PROVE  Search'
  <2>1. Answered'
    BY <1>1 DEF Search, Answered, AnswerIsBest, Seen
  <2> QED
    BY <1>1, <2>1 DEF Search, Question, Lists, BestSoFar, Tried, Decided
<1>2. CASE New \/ Destroy
  BY <1>1, <1>2 DEF New, Destroy, Idle
<1>3. ASSUME NEW changed, Configure(changed) PROVE Search'
  BY <1>1, <1>3 DEF Configure, Idle
<1>4. CASE MakeOnCard
  <2>1. /\ pc = "idle" /\ pc' \in {"collect", "finish"} /\ plumber' = plumber
        /\ hw' = hw /\ asked' = AskedOf(plumber) /\ unread' = {} /\ pipe' = Null
        /\ connectors' = <<>> /\ fd_index' = 0 /\ pipe_internal' = Null
        /\ plumber \in PlumberType /\ plumber.fd \in Fd
        /\ MinorsFor(plumber) = {plumber.fd.minor}
    BY <1>4 DEF MakeOnCard, Structure, PlumberType, MinorsFor
  <2>2. Question' /\ Answered'
    BY <2>1 DEF Question, Answered, AnswerIsBest, Idle, AskedOf, RankFor
  <2>3. Structure'
    BY <1>4, StructureCall
  <2>4. EntriesTrue' /\ Elements(fds)' = {fds'[n] : n \in DOMAIN fds'}
    BY <2>1, ElementsEmpty DEF EntriesTrue, Elements
  <2>5. CASE hw.card[plumber.fd.minor] = "kms"
    <3>1. fds' = <<plumber.fd>> /\ pc' = "collect"
      BY <1>4, <2>5 DEF MakeOnCard
    <3>2. Elements(fds)' = {plumber.fd}
      BY <3>1, ElementsOne
    <3>3. CardsTrue' /\ CardsFound(Minor)'
      BY <2>1, <2>5, <3>2 DEF CardsTrue, CardsFound, MinorsFor
    <3>4. fd_index' = 0 /\ 0 <= Len(fds')
      BY <2>1, <3>1
    <3>5. Lists'
      BY <2>4, <3>1, <3>3, <3>4 DEF Lists
    <3> QED
      BY <2>2, <3>1, <3>5 DEF Search, BestSoFar, Tried, Decided
  <2>6. CASE hw.card[plumber.fd.minor] # "kms"
    <3>1. pc' = "finish"
      BY <1>4, <2>6 DEF MakeOnCard
    <3>2. (DOMAIN asked)' = {}
      <4> DEFINE suitable == { p \in PipesOn(hw, MinorsFor(plumber), plumber.crtc_mask) :
                                 RankFor(plumber, p.connector) < Skip }
      <4>1. suitable = {}
        BY <2>1, <2>6 DEF PipesOn
      <4> QED
        BY <2>1, <4>1 DEF AskedOf
    <3>3. Lists' /\ Decided'
      BY <2>1, <2>4, <3>1, <3>2 DEF Lists, Decided, Seen
    <3> QED
      BY <2>2, <3>1, <3>3 DEF Search, BestSoFar, Tried
  <2> QED
    BY <2>5, <2>6
<1>5. CASE MakeOnAnyCard
  <2>1. /\ pc' = "scan" /\ plumber' = plumber /\ plumber.fd = Null /\ hw' = hw
        /\ asked' = AskedOf(plumber) /\ pipe' = Null
        /\ fds' = <<>> /\ connectors' = <<>> /\ fd_index' = 0
    BY <1>5 DEF MakeOnAnyCard
  <2>2. Question' /\ Answered'
    BY <2>1 DEF Question, Answered, AnswerIsBest, Idle, AskedOf, RankFor
  <2>3. 0 .. fd_index' - 1 = {}
    BY <2>1
  <2>4. CardsTrue' /\ CardsFound(0 .. fd_index - 1)'
    BY <2>1, <2>3, ElementsEmpty DEF CardsTrue, CardsFound
  <2>5. Lists'
    BY <2>1, <2>4 DEF Lists
  <2> QED
    BY <2>1, <2>2, <2>5 DEF Search, BestSoFar, Tried, Decided
<1> QED
  BY <1>2, <1>3, <1>4, <1>5
     DEF Call, SetConnectorRanks, SetCrtcMask, SetFd, SetConnectorPtr

----------------------------------------------------------------------------
\* The loops that fill the arrays keep to the request, and pass nothing over.
LEMMA SearchScan == Structure /\ Search /\ ScanCard => Search'
<1> SUFFICES ASSUME Structure, Search, ScanCard PROVE Search'
  OBVIOUS
<1>1. /\ pc = "scan" /\ pc' = "scan" /\ fd_index < DRM_MAX_MINOR
      /\ fd_index' = fd_index + 1
      /\ UNCHANGED <<hw, plumber, connectors, makes, pipe, asked, unread>>
  BY DEF ScanCard, plumberVars, searchVars, historyVars
<1>2. /\ connectors = <<>> /\ CardsTrue /\ CardsFound(0 .. fd_index - 1)
      /\ fd_index \in Minor /\ makes \in Nat /\ fds \in Seq(Fd)
      /\ plumber.fd = Null /\ MinorsFor(plumber) = Minor
  BY <1>1 DEF Search, Lists, Structure, TypeOK, Minor, MinorsFor
<1>3. Question' /\ Answered'
  BY <1>1 DEF Search, Question, Answered, AnswerIsBest, Idle, AskedOf, RankFor, Seen
<1>4. \A m \in 0 .. (fd_index + 1) - 1 : m \in 0 .. fd_index - 1 \/ m = fd_index
  BY <1>2 DEF Minor
<1>5. CardsTrue' /\ CardsFound(0 .. fd_index - 1)'
  <2>1. CASE hw.card[fd_index] # "kms"
    <3>1. fds' = fds
      BY <2>1 DEF ScanCard
    <3> QED
      BY <1>1, <1>2, <1>4, <2>1, <3>1 DEF CardsTrue, CardsFound
  <2>2. CASE hw.card[fd_index] = "kms"
    <3> DEFINE fd == [minor |-> fd_index, call |-> makes]
    <3>1. fds' = Append(fds, fd) /\ fd \in Fd /\ fd.minor = fd_index
      BY <1>2, <2>2 DEF ScanCard, Fd
    <3> HIDE DEF fd
    <3>2. Elements(fds') = Elements(fds) \cup {fd}
      BY <1>2, <3>1, ElementsAppend
    <3>3. Elements(fds)' = Elements(fds')
      BY DEF Elements
    <3> QED
      BY <1>1, <1>2, <1>4, <2>2, <3>1, <3>2, <3>3 DEF CardsTrue, CardsFound
  <2> QED
    BY <2>1, <2>2
<1>6. fd_index' <= DRM_MAX_MINOR
  BY <1>1, <1>2 DEF Minor
<1>7. Lists'
  BY <1>1, <1>2, <1>5, <1>6 DEF Lists
<1> QED
  BY <1>1, <1>3, <1>7 DEF Search, BestSoFar, Tried, Decided

LEMMA SearchScanDone == Structure /\ Search /\ ScanDone => Search'
<1> SUFFICES ASSUME Structure, Search, ScanDone PROVE Search'
  OBVIOUS
<1>1. /\ pc = "scan" /\ pc' = "collect" /\ fd_index = DRM_MAX_MINOR /\ fd_index' = 0
      /\ UNCHANGED <<hw, plumber, fds, connectors, makes, pipe, asked, unread>>
  BY DEF ScanDone, kernelVars, plumberVars, searchVars, historyVars
<1>2. /\ connectors = <<>> /\ CardsTrue /\ CardsFound(Minor) /\ fds \in Seq(Fd)
  BY <1>1 DEF Search, Lists, Structure, TypeOK, Minor
<1>3. Question' /\ Answered'
  BY <1>1 DEF Search, Question, Answered, AnswerIsBest, Idle, AskedOf, RankFor, Seen
<1>4. CardsTrue' /\ CardsFound(Minor)' /\ EntriesTrue'
  BY <1>1, <1>2, ElementsEmpty DEF CardsTrue, CardsFound, EntriesTrue, Elements
<1>5. fd_index' <= Len(fds') /\ 1 .. fd_index' = {}
  BY <1>1, <1>2
<1>6. Lists'
  BY <1>1, <1>4, <1>5 DEF Lists
<1> QED
  BY <1>1, <1>3, <1>6 DEF Search, BestSoFar, Tried, Decided

LEMMA SearchCollect == Structure /\ Search /\ CollectConnectors => Search'
<1> SUFFICES ASSUME Structure, Search, CollectConnectors PROVE Search'
  OBVIOUS
<1> DEFINE fd == fds[fd_index + 1]
           listed == {hw.connectors[fd.minor][k] : k \in DOMAIN hw.connectors[fd.minor]}
<1>1. /\ pc = "collect" /\ pc' = "collect" /\ fd_index < Len(fds)
      /\ fd_index' = fd_index + 1
      /\ UNCHANGED <<hw, plumber, fds, makes, pipe, asked>>
  BY DEF CollectConnectors, plumberVars, searchVars
<1>2. /\ fd_index \in Nat /\ fds \in Seq(Fd) /\ Len(fds) \in Nat
      /\ connectors \in Seq(FdConnector)
      /\ CardsTrue /\ CardsFound(Minor) /\ EntriesTrue
      /\ \A n \in 1 .. fd_index : GatheredFrom(fds[n].minor)
  BY <1>1 DEF Search, Lists, Structure, TypeOK
<1>3. /\ fd_index + 1 \in 1 .. Len(fds) /\ fd \in Fd /\ fd.minor \in Minor
      /\ fd \in Elements(fds)
  <2>1. fd_index + 1 \in 1 .. Len(fds)
    BY <1>1, <1>2
  <2>2. fd \in Fd /\ fd_index + 1 \in DOMAIN fds
    BY <1>2, <2>1
  <2> QED
    BY <2>1, <2>2 DEF Elements, Fd
<1>4. hw.connectors[fd.minor] \in Seq(Connectors)
  BY <1>3 DEF Structure, TypeOK, MachineType
<1>5. PICK lost \in SUBSET listed :
        /\ connectors' = connectors \o EntriesOf(fd, lost)
        /\ unread' = unread \cup lost
  BY DEF CollectConnectors
<1> DEFINE entry(k) == [ fd |-> fd,
                         connector |-> IF hw.connectors[fd.minor][k] \in lost
                                       THEN Null ELSE hw.connectors[fd.minor][k] ]
           added == {entry(k) : k \in DOMAIN hw.connectors[fd.minor]}
<1>6. Elements(connectors)' = Elements(connectors) \cup added
  <2>1. PICK len \in Nat : DOMAIN hw.connectors[fd.minor] = 1 .. len
    BY <1>4
  <2>2. \A k \in 1 .. len : hw.connectors[fd.minor][k] \in Connectors
    BY <1>4, <2>1
  <2>3. EntriesOf(fd, lost) = [k \in 1 .. len |-> entry(k)]
    BY <2>1 DEF EntriesOf
  <2>4. \A k \in 1 .. len : entry(k) \in FdConnector
    BY <1>3, <2>2 DEF FdConnector
  <2> HIDE DEF entry
  <2>5. EntriesOf(fd, lost) \in Seq(FdConnector)
    BY <2>3, <2>4
  <2>6. Elements(EntriesOf(fd, lost)) = added
    BY <2>1, <2>3 DEF Elements
  <2>7. Elements(connectors)' = Elements(connectors \o EntriesOf(fd, lost))
    BY <1>5 DEF Elements
  <2> QED
    BY <1>2, <2>5, <2>6, <2>7, ElementsConcat
<1>7. Question' /\ Answered'
  <2>1. pipe \in PipeType \cup {Null}
    BY DEF Search, Answered
  <2> QED
    BY <1>1, <2>1 DEF Search, Question, Answered, AnswerIsBest, Idle, AskedOf, RankFor
<1>8. CardsTrue' /\ CardsFound(Minor)'
  BY <1>1, <1>2 DEF CardsTrue, CardsFound, Elements
<1>9. EntriesTrue'
  <2>1. fd.minor \in MinorsFor(plumber) /\ hw.card[fd.minor] = "kms"
    BY <1>2, <1>3 DEF CardsTrue
  <2>2. ASSUME NEW e \in added, e.connector # Null
        PROVE  /\ e.fd.minor \in MinorsFor(plumber)
               /\ hw.card[e.fd.minor] = "kms"
               /\ Listed(e.fd.minor, e.connector)
    BY <2>1, <2>2 DEF Listed
  <2> HIDE DEF added
  <2>3. \A e \in Elements(connectors)' : e \in Elements(connectors) \/ e \in added
    BY <1>6
  <2> QED
    BY <1>1, <1>2, <2>2, <2>3 DEF EntriesTrue, Listed
<1>10. ASSUME NEW n \in 1 .. fd_index + 1 PROVE GatheredFrom(fds[n].minor)'
  <2>1. Elements(connectors) \subseteq Elements(connectors)' /\ unread \subseteq unread'
    BY <1>5, <1>6
  <2>2. CASE n \in 1 .. fd_index
    <3>1. GatheredFrom(fds[n].minor)
      BY <1>2, <2>2
    <3> QED
      BY <1>1, <2>1, <3>1 DEF GatheredFrom, Gathered, Listed
  <2>3. CASE n = fd_index + 1
    <3>1. ASSUME NEW c \in Connectors, Listed(fd.minor, c), c \notin lost
          PROVE  \E e \in added : e.fd.minor = fd.minor /\ e.connector = c
      <4>1. PICK k \in DOMAIN hw.connectors[fd.minor] : hw.connectors[fd.minor][k] = c
        BY <3>1 DEF Listed
      <4>2. entry(k) \in added /\ entry(k).fd.minor = fd.minor /\ entry(k).connector = c
        BY <3>1, <4>1
      <4> QED
        BY <4>2
    <3> HIDE DEF added
    <3>2. \A c \in Connectors : Listed(fd.minor, c) =>
            \/ c \in unread'
            \/ \E e \in Elements(connectors)' : e.fd.minor = fd.minor /\ e.connector = c
      BY <1>5, <1>6, <3>1
    <3> QED
      BY <1>1, <2>3, <3>2 DEF GatheredFrom, Gathered, Listed
  <2> QED
    BY <1>2, <2>2, <2>3
<1>11. Lists'
  <2>1. fd_index' <= Len(fds')
    BY <1>1, <1>2
  <2>2. \A n \in 1 .. fd_index' : GatheredFrom(fds[n].minor)'
    BY <1>1, <1>10
  <2> QED
    BY <1>1, <1>8, <1>9, <2>1, <2>2 DEF Lists
<1> QED
  BY <1>1, <1>7, <1>11 DEF Search, BestSoFar, Tried, Decided

\* All the entries are there when the search starts.
LEMMA AllGathered ==
  ASSUME Structure, Search, pc = "collect", fd_index = Len(fds)
  PROVE  \A q \in DOMAIN asked : Gathered(q.minor, q.connector)
<1>1. /\ fds \in Seq(Fd) /\ plumber \in PlumberType /\ asked = AskedOf(plumber)
      /\ CardsFound(Minor)
      /\ \A n \in 1 .. Len(fds) : GatheredFrom(fds[n].minor)
  BY DEF Search, Question, Idle, Lists, Structure, TypeOK
<1>2. ASSUME NEW q \in DOMAIN asked PROVE Gathered(q.minor, q.connector)
  <2>1. /\ q.minor \in Minor \cap MinorsFor(plumber) /\ hw.card[q.minor] = "kms"
        /\ q.connector \in Connectors /\ Listed(q.minor, q.connector)
    BY <1>1, AskedPipe DEF PipeType
  <2>2. PICK fd \in Elements(fds) : fd.minor = q.minor
    BY <1>1, <2>1 DEF CardsFound
  <2>3. PICK n \in 1 .. Len(fds) : fds[n] = fd
    BY <1>1, <2>2 DEF Elements
  <2> QED
    BY <1>1, <2>1, <2>2, <2>3 DEF GatheredFrom
<1> QED
  BY <1>2

\* The stack of a new round, and the start index it begins at.
LEMMA RoundStarts ==
  ASSUME NEW rank, NEW first \in Nat, StartRound(rank, first)
  PROVE  /\ i' = 0
         /\ pipe_stack'[0].next_encoder_index = 0
         /\ pipe_stack'[0].next_crtc_index = 0
         /\ ctx'.best_rank = rank /\ ctx'.first_connector_index = first
         /\ StartIndex(pipe_stack[0])' = first
BY DEF StartRound, StartIndex, Zeroed

LEMMA SearchCollectDone == Structure /\ Search /\ CollectDone => Search'
<1> SUFFICES ASSUME Structure, Search, CollectDone PROVE Search'
  OBVIOUS
<1>1. /\ pc = "collect" /\ fd_index = Len(fds) /\ StartRound(Skip, 0)
      /\ pc' = (IF Skip = 0 THEN "finish" ELSE "search") /\ pipe_internal' = Null
      /\ UNCHANGED <<hw, plumber, fds, connectors, makes, pipe, asked, unread>>
  BY DEF CollectDone, kernelVars, plumberVars, listVars, historyVars
<1>2. plumber \in PlumberType /\ asked = AskedOf(plumber)
  BY <1>1 DEF Search, Question, Idle, Structure
<1>3. Question' /\ Answered'
  BY <1>1 DEF Search, Question, Answered, AnswerIsBest, Idle, AskedOf, RankFor, Seen
<1>4. Lists'
  <2>1. EntriesTrue' /\ \A q \in DOMAIN asked : Gathered(q.minor, q.connector)'
    BY <1>1, AllGathered DEF Search, Lists, EntriesTrue, Elements, Listed, Gathered
  <2>2. pc' \in {"search", "finish"}
    BY <1>1
  <2> QED
    BY <1>1, <2>1, <2>2 DEF Lists
<1>5. CASE Skip = 0
  <2>1. DOMAIN asked = {}
    <3>1. ASSUME NEW q \in DOMAIN asked PROVE FALSE
      <4>1. asked[q] \in 0 .. Skip - 1
        BY <1>2, AskedPipe
      <4> QED
        BY <1>5, <4>1
    <3> QED
      BY <3>1
  <2>2. Decided'
    BY <1>1, <2>1 DEF Decided, Seen
  <2> QED
    BY <1>1, <1>3, <1>4, <1>5, <2>2 DEF Search, BestSoFar, Tried
<1>6. CASE Skip # 0
  <2>1. /\ i' = 0
        /\ pipe_stack'[0].next_encoder_index = 0
        /\ pipe_stack'[0].next_crtc_index = 0
        /\ ctx'.best_rank = Skip /\ ctx'.first_connector_index = 0
        /\ StartIndex(pipe_stack[0])' = 0
    BY <1>1, RoundStarts
  <2>2. BestSoFar'
    BY <1>1, <1>6, <2>1 DEF BestSoFar, DoneBefore
  <2>3. StackTells'
    BY <2>1 DEF StackTells, DoneBefore
  <2> QED
    BY <1>1, <1>3, <1>4, <1>6, <2>2, <2>3 DEF Search, Tried, Decided
<1> QED
  BY <1>5, <1>6

----------------------------------------------------------------------------
\* A connector that can be used has a rank below bs_rank_skip, and below the
\* best so far when there are ranks.
LEMMA UsableRank ==
  ASSUME Structure, Search, pc = "search", NEW n, ValidIndex(n), UsableConnector(n)
  PROVE  LET rank == RankFor(plumber, At(connectors, n).connector)
         IN  /\ rank \in 0 .. Skip - 1
             /\ plumber.connector_ranks = Null => rank = 0
             /\ plumber.connector_ranks # Null => rank < ctx.best_rank
<1> DEFINE rank == RankFor(plumber, At(connectors, n).connector)
<1>1. plumber \in PlumberType /\ Skip > 0 /\ ctx.best_rank \in 0 .. Skip
  BY DEF Structure, TypeOK, Search, BestSoFar
<1>2. rank \in 0 .. Skip
  BY <1>1, RankOfConnector DEF ValidIndex
<1>3. plumber.connector_ranks = Null => rank = 0
  BY DEF RankFor
<1>4. plumber.connector_ranks # Null => rank < ctx.best_rank
  BY DEF UsableConnector
<1> HIDE DEF rank
<1>5. rank \in 0 .. Skip - 1
  BY <1>1, <1>2, <1>3, <1>4
<1> QED
  BY <1>3, <1>4, <1>5 DEF rank

\* The array entry of a connector the search may look at.
LEMMA EntryFacts ==
  ASSUME Structure, Search, pc = "search", NEW n, ValidIndex(n)
  PROVE  LET e == At(connectors, n)
         IN  /\ e \in FdConnector /\ e.fd.minor \in Minor
             /\ e.fd.minor \in MinorsFor(plumber)
             /\ hw.card[e.fd.minor] = "kms"
             /\ Listed(e.fd.minor, e.connector)
             /\ hw.encoders[e.connector] \in Seq(Encoders)
<1> DEFINE e == At(connectors, n)
<1>1. /\ n \in Nat /\ n < Len(connectors) /\ e.connector \in Connectors
      /\ e.connector # Null
  BY DEF ValidIndex
<1>2. n + 1 \in DOMAIN connectors /\ e \in FdConnector
  BY <1>1, ElementTypes DEF Structure
<1>3. e \in Elements(connectors)
  BY <1>2 DEF Elements
<1>4. EntriesTrue
  BY DEF Search, Lists
<1>5. hw.encoders[e.connector] \in Seq(Encoders)
  BY <1>1 DEF Structure, TypeOK, MachineType
<1> HIDE DEF e
<1>6. e.fd.minor \in Minor
  BY <1>2 DEF FdConnector, Fd
<1>7. /\ e.fd.minor \in MinorsFor(plumber)
      /\ hw.card[e.fd.minor] = "kms"
      /\ Listed(e.fd.minor, e.connector)
  BY <1>1, <1>3, <1>4 DEF EntriesTrue
<1> QED
  BY <1>2, <1>5, <1>6, <1>7 DEF e

\* The pipe the pieces have put together satisfies the request.
LEMMA MadePipe ==
  ASSUME Structure, Search, pc = "search", i = 3
  PROVE  LET made == pipe_stack[2]
         IN  /\ PipeOf(made) \in DOMAIN asked
             /\ asked[PipeOf(made)] = made.connector_rank
<1> DEFINE made == pipe_stack[2]
           n == pipe_stack[0].connector
           e == At(connectors, n)
           p == [ minor |-> e.fd.minor, connector |-> e.connector,
                  encoder |-> made.encoder_id, crtc |-> made.crtc_id ]
<1>1. /\ ValidIndex(n) /\ UsableConnector(n) /\ Chosen(made, n)
      /\ ChosenEncoder(pipe_stack[1], n)
      /\ made.encoder_id = pipe_stack[1].encoder_id
      /\ made.encoder_id \in Encoders
      /\ made.crtc_id \in RoutableCrtcs(hw, e.fd.minor, made.encoder_id, plumber.crtc_mask)
      /\ asked = AskedOf(plumber)
  BY DEF Search, Question, Idle, Tried, StackTells, Structure, StackShape
<1>2. /\ e \in FdConnector /\ e.fd.minor \in Minor
      /\ e.fd.minor \in MinorsFor(plumber)
      /\ hw.card[e.fd.minor] = "kms"
      /\ Listed(e.fd.minor, e.connector)
      /\ hw.encoders[e.connector] \in Seq(Encoders)
  BY <1>1, EntryFacts
<1>3. e.connector \in Connectors /\ e.connector \in hw.connected
  BY <1>1 DEF ValidIndex, UsableConnector
<1>4. PipeOf(made) = p
  BY <1>1 DEF PipeOf, Chosen
<1>5. made.crtc_id \in CrtcIndex
  <2>1. hw.possible_crtcs[made.encoder_id] \subseteq CrtcIndex
    BY <1>1 DEF Structure, TypeOK, MachineType
  <2> QED
    BY <1>1, <2>1 DEF RoutableCrtcs
<1>6. \E k \in DOMAIN hw.encoders[e.connector] :
        hw.encoders[e.connector][k] = made.encoder_id
  <2>1. /\ pipe_stack[1].next_encoder_index \in 1 .. Len(hw.encoders[e.connector])
        /\ made.encoder_id = hw.encoders[e.connector][pipe_stack[1].next_encoder_index]
    BY <1>1 DEF ChosenEncoder, EncodersAt
  <2> HIDE DEF e, made
  <2>2. DOMAIN hw.encoders[e.connector] = 1 .. Len(hw.encoders[e.connector])
    BY <1>2
  <2> QED
    BY <2>1, <2>2
<1>7. /\ RankFor(plumber, e.connector) \in 0 .. Skip - 1
      /\ made.connector_rank = RankFor(plumber, e.connector)
  BY <1>1, UsableRank DEF Chosen
<1> HIDE DEF e, made
<1>8. /\ p \in PipeType /\ p.minor = e.fd.minor /\ p.connector = e.connector
      /\ p.encoder = made.encoder_id /\ p.crtc = made.crtc_id
  BY <1>1, <1>2, <1>3, <1>5 DEF PipeType
<1>9. RankFor(plumber, e.connector) < Skip
  BY <1>7
<1> HIDE DEF p
<1>10. p \in DOMAIN asked /\ asked[p] = RankFor(plumber, p.connector)
  BY <1>1, <1>2, <1>3, <1>6, <1>8, <1>9, PipeAsked
<1> QED
  BY <1>4, <1>7, <1>8, <1>10 DEF made

\* What a step of the search leaves alone.
LEMMA SearchFrame ==
  ASSUME Search, pc = "search", pc' \in {"search", "finish"},
         UNCHANGED <<hw, plumber, connectors, asked, pipe>>,
         unread \subseteq unread'
  PROVE  Question' /\ Lists' /\ Answered'
<1>1. Question'
  BY DEF Search, Question, Idle, AskedOf, RankFor
<1>2. EntriesTrue'
  BY DEF Search, Lists, EntriesTrue, Elements, Listed
<1>3. ASSUME NEW q \in DOMAIN asked PROVE Gathered(q.minor, q.connector)'
  BY DEF Search, Lists, Gathered, Elements
<1>4. Answered'
  BY DEF Search, Answered, AnswerIsBest, Idle
<1> QED
  BY <1>1, <1>2, <1>3, <1>4 DEF Lists

\* A round that made a pipe: the next one looks behind it, for less.
LEMMA SearchRoundMade == Structure /\ Search /\ RoundMade => Search'
<1> SUFFICES ASSUME Structure, Search, RoundMade PROVE Search'
  OBVIOUS
<1> DEFINE made == pipe_stack[2]
           n == pipe_stack[0].connector
           rank == made.connector_rank
<1>1. /\ pc = "search" /\ i = 3 /\ pipe_internal' = made
      /\ pc' \in {"search", "finish"}
      /\ UNCHANGED <<hw, plumber, makes, connectors, pipe, asked, unread>>
  BY DEF RoundMade, kernelVars, plumberVars, listVars, historyVars, StartRound
<1>2. /\ ValidIndex(n) /\ UsableConnector(n) /\ Chosen(made, n) /\ DoneBefore(n)
      /\ asked = AskedOf(plumber) /\ plumber \in PlumberType /\ Skip > 0
      /\ ctx.best_rank \in 0 .. Skip
  BY <1>1 DEF Search, Question, Idle, Tried, StackTells, BestSoFar, Structure,
              StackShape, TypeOK
<1>3. made.next_connector_index = n + 1 /\ n \in Nat
      /\ rank = RankFor(plumber, At(connectors, n).connector)
  BY <1>2 DEF Chosen, ValidIndex
<1>4. /\ rank \in 0 .. Skip - 1
      /\ plumber.connector_ranks = Null => rank = 0
      /\ plumber.connector_ranks # Null => rank < ctx.best_rank
  BY <1>1, <1>2, <1>3, UsableRank
<1>5. PipeOf(made) \in DOMAIN asked /\ asked[PipeOf(made)] = rank
  BY <1>1, MadePipe
<1>6. PipeOf(pipe_internal)' = PipeOf(made)
  BY <1>1 DEF PipeOf
<1>7. pipe_internal' # Null
  <2>1. made \in PipeInternal
    BY DEF Structure, TypeOK
  <2> QED
    BY <1>1, <1>2, <2>1
<1>8. Question' /\ Lists' /\ Answered'
  BY <1>1, SearchFrame
<1>9. Seen' = Seen
  BY <1>1 DEF Seen
<1> HIDE DEF made, rank
<1>10. CASE pc' = "finish"
  <2>1. rank = 0
    BY <1>4, <1>10 DEF RoundMade, rank, made
  <2>2. ASSUME NEW q \in Seen PROVE asked[PipeOf(made)] <= asked[q]
    <3>1. asked[q] \in 0 .. Skip - 1
      BY <1>2, AskedPipe DEF Seen
    <3> QED
      BY <1>5, <2>1, <3>1
  <2>3. IsBest(PipeOf(pipe_internal))'
    BY <1>1, <1>5, <1>6, <1>9, <2>2 DEF IsBest
  <2> QED
    BY <1>7, <1>8, <1>10, <2>3 DEF Search, BestSoFar, Tried, Decided
<1>11. CASE pc' = "search"
  <2>1. plumber.connector_ranks # Null /\ StartRound(rank, n + 1)
    BY <1>3, <1>11 DEF RoundMade, rank, made
  <2>2. /\ i' = 0
        /\ pipe_stack'[0].next_encoder_index = 0
        /\ pipe_stack'[0].next_crtc_index = 0
        /\ ctx'.best_rank = rank /\ ctx'.first_connector_index = n + 1
        /\ StartIndex(pipe_stack[0])' = n + 1
    BY <1>3, <2>1, RoundStarts
  <2>3. ASSUME NEW m \in Nat, m < n + 1 PROVE DoneWith(m)'
    <3> SUFFICES ASSUME m < Len(connectors), NEW q \in Seen, EntryOf(m, q)
                 PROVE  rank <= asked[q]
      BY <1>1, <1>9, <2>2 DEF DoneWith, EntryOf
    <3>1. /\ asked[q] \in 0 .. Skip - 1
          /\ asked[q] = RankFor(plumber, q.connector)
      BY <1>2, AskedPipe DEF Seen
    <3>2. CASE m = n
      BY <1>3, <3>1, <3>2 DEF EntryOf
    <3>3. CASE m < n
      <4>1. ctx.best_rank <= asked[q]
        BY <1>2, <3>3 DEF DoneBefore, DoneWith
      <4> QED
        BY <1>2, <1>4, <2>1, <3>1, <4>1
    <3> QED
      BY <1>3, <2>3, <3>2, <3>3
  <2>4. (DoneBefore(ctx.first_connector_index))' /\ (DoneBefore(StartIndex(pipe_stack[0])))'
    BY <2>2, <2>3 DEF DoneBefore
  <2>5. BestSoFar'
    BY <1>1, <1>2, <1>5, <1>6, <1>7, <2>2, <2>4 DEF BestSoFar
  <2>6. StackTells'
    BY <2>2, <2>4 DEF StackTells
  <2> QED
    BY <1>8, <1>11, <2>5, <2>6 DEF Search, Tried, Decided
<1> QED
  BY <1>1, <1>10, <1>11

----------------------------------------------------------------------------
\* Entries that are done with stay so: the array is fixed, the best rank is the
\* round's, and pipes only go out of sight.
LEMMA DoneStays ==
  ASSUME UNCHANGED <<connectors, asked, ctx>>, unread \subseteq unread',
         NEW m, DoneBefore(m)
  PROVE  DoneBefore(m)'
<1>1. Seen' \subseteq Seen
  BY SeenShrinks
<1> QED
  BY <1>1 DEF DoneBefore, DoneWith, EntryOf

LEMMA TriedStays ==
  ASSUME UNCHANGED <<hw, connectors, asked>>, unread \subseteq unread',
         NEW n, NEW count, EncodersTried(n, count)
  PROVE  EncodersTried(n, count)'
<1>1. Seen' \subseteq Seen
  BY SeenShrinks
<1> QED
  BY <1>1 DEF EncodersTried, EncodersAt, EntryOf

\* What every piece keeps.
LEMMA PieceKeeps ==
  ASSUME Search, pc = "search", OnlySearches, unread \subseteq unread',
         NEW p, PieceFits(p) \/ PieceFails(p)
  PROVE  /\ Question' /\ Lists' /\ Answered' /\ BestSoFar'
         /\ UNCHANGED <<hw, plumber, connectors, asked, ctx, pipe_internal>>
<1>1. /\ pc' \in {"search", "finish"}
      /\ UNCHANGED <<hw, plumber, connectors, asked, pipe, ctx, pipe_internal>>
  BY DEF OnlySearches, plumberVars, kernelVars, listVars, PieceFits, PieceFails
<1>2. Question' /\ Lists' /\ Answered'
  BY <1>1, SearchFrame
<1>3. DoneBefore(ctx.first_connector_index)'
  <2>1. DoneBefore(ctx.first_connector_index)
    BY DEF Search, BestSoFar
  <2> QED
    BY <1>1, <2>1, SeenShrinks DEF DoneBefore, DoneWith, EntryOf
<1>4. BestSoFar'
  BY <1>1, <1>3 DEF Search, BestSoFar, PipeOf
<1> QED
  BY <1>1, <1>2, <1>4

\* A connector that is passed over leads to no better pipe.
LEMMA PassedOver ==
  ASSUME Structure, Search, pc = "search", NEW m \in Nat, ~UsableConnector(m)
  PROVE  DoneWith(m)
<1> SUFFICES ASSUME m < Len(connectors), NEW q \in Seen, EntryOf(m, q)
             PROVE  ctx.best_rank <= asked[q]
  BY DEF DoneWith
<1>1. /\ asked = AskedOf(plumber) /\ plumber \in PlumberType
      /\ ctx.best_rank \in 0 .. Skip
  BY DEF Search, Question, Idle, Structure, TypeOK
<1>2. /\ q.connector \in Connectors /\ q.connector \in hw.connected
      /\ asked[q] = RankFor(plumber, q.connector) /\ asked[q] \in 0 .. Skip - 1
  BY <1>1, AskedPipe DEF Seen, PipeType
<1>3. At(connectors, m).connector = q.connector
  BY DEF EntryOf
<1>4. ~ (RankFor(plumber, q.connector) < ctx.best_rank)
  BY <1>2, <1>3 DEF UsableConnector
<1> QED
  BY <1>1, <1>2, <1>4

\* Every pipe that can be seen starts at an entry of the array.
LEMMA SeenHasEntry ==
  ASSUME Structure, Search, pc = "search", NEW q \in Seen
  PROVE  \E m \in Nat : m < Len(connectors) /\ EntryOf(m, q)
<1>1. /\ q \in DOMAIN asked /\ q.connector \notin unread
      /\ Gathered(q.minor, q.connector) /\ connectors \in Seq(FdConnector)
  BY DEF Seen, Search, Lists, Structure, TypeOK
<1>2. PICK e \in Elements(connectors) : e.fd.minor = q.minor /\ e.connector = q.connector
  BY <1>1 DEF Gathered
<1>3. PICK k \in 1 .. Len(connectors) : connectors[k] = e
  BY <1>1, <1>2 DEF Elements
<1>4. k - 1 \in Nat /\ k - 1 < Len(connectors) /\ (k - 1) + 1 = k
  BY <1>1, <1>3
<1>5. EntryOf(k - 1, q)
  BY <1>2, <1>3, <1>4 DEF EntryOf
<1> QED
  BY <1>4, <1>5

\* When every entry is done with, the best pipe so far is the answer.
LEMMA SearchExhausted ==
  ASSUME Structure, Search, pc = "search", \A m \in Nat : DoneWith(m)
  PROVE  IF pipe_internal = Null THEN Seen = {} ELSE IsBest(PipeOf(pipe_internal))
<1>1. asked = AskedOf(plumber) /\ plumber \in PlumberType
  BY DEF Search, Question, Idle, Structure
<1>2. ASSUME NEW q \in Seen PROVE ctx.best_rank <= asked[q] /\ asked[q] \in 0 .. Skip - 1
  BY <1>1, SeenHasEntry, AskedPipe DEF DoneWith, Seen
<1>3. CASE pipe_internal = Null
  <2>1. ctx.best_rank = Skip
    BY <1>3 DEF Search, BestSoFar
  <2> QED
    BY <1>2, <1>3, <2>1
<1>4. CASE pipe_internal # Null
  BY <1>2, <1>4 DEF Search, BestSoFar, IsBest
<1> QED
  BY <1>3, <1>4

LEMMA SearchConnectorPiece == Structure /\ Search /\ ConnectorPiece => Search'
<1> SUFFICES ASSUME Structure, Search, ConnectorPiece PROVE Search'
  OBVIOUS
<1> DEFINE p == pipe_stack[0]
           start == StartIndex(p)
           usable == {m \in start .. Len(connectors) - 1 : UsableConnector(m)}
           fitted(n) == [ p EXCEPT
                      !.connector = n,
                      !.connector_rank = RankFor(plumber, At(connectors, n).connector),
                      !.next_connector_index = n + 1 ]
<1>1. /\ pc = "search" /\ i = 0 /\ OnlySearches /\ unread' = unread
      /\ p \in PipeInternal /\ pipe_stack \in [0 .. 3 -> PipeInternal]
      /\ Len(connectors) \in Nat /\ ctx.first_connector_index \in Nat
  <2>1. pc = "search" /\ i = 0 /\ OnlySearches /\ unread' = unread
    BY DEF ConnectorPiece
  <2>2. /\ pipe_stack \in [0 .. 3 -> PipeInternal] /\ connectors \in Seq(FdConnector)
        /\ ctx.first_connector_index \in Nat
    BY DEF Structure, TypeOK
  <2> QED
    BY <2>1, <2>2
<1>2. start \in Nat /\ DoneBefore(start)
      /\ p.next_encoder_index = 0 /\ p.next_crtc_index = 0
  BY <1>1 DEF StartIndex, PipeInternal, Search, Tried, StackTells
<1>3. \/ \E n \in usable : (\A m \in usable : n <= m) /\ PieceFits(fitted(n))
      \/ usable = {} /\ \E x : PieceFails(x)
  BY <1>1 DEF ConnectorPiece
<1> HIDE DEF start, p
<1>4. ASSUME NEW n \in usable, \A m \in usable : n <= m, PieceFits(fitted(n))
      PROVE  Search'
  <2>1. n \in Nat /\ n >= start /\ n < Len(connectors) /\ UsableConnector(n)
    BY <1>1, <1>2, <1>4
  <2>2. /\ Question' /\ Lists' /\ Answered' /\ BestSoFar'
        /\ UNCHANGED <<hw, plumber, connectors, asked, ctx, pipe_internal>>
    BY <1>1, <1>4, PieceKeeps
  <2>3. ASSUME NEW m \in Nat, m < n PROVE DoneWith(m)
    <3>1. CASE m < start
      BY <1>2, <3>1 DEF DoneBefore
    <3>2. CASE m >= start
      <4>1. m \in start .. Len(connectors) - 1
        BY <1>1, <1>2, <2>1, <2>3, <3>2
      <4>2. m \notin usable
        BY <1>4, <2>1, <2>3
      <4> QED
        BY <1>1, <4>1, <4>2, PassedOver
    <3> QED
      BY <1>2, <3>1, <3>2
  <2>4. DoneBefore(n)'
    BY <1>1, <2>2, <2>3, DoneStays DEF DoneBefore
  <2>5. /\ fitted(n).connector = n
        /\ fitted(n).next_connector_index = n + 1
        /\ fitted(n).connector_rank = RankFor(plumber, At(connectors, n).connector)
        /\ fitted(n).next_encoder_index = 0
        /\ fitted(n).next_crtc_index = 0
    BY <1>1, <1>2 DEF PipeInternal
  <2> HIDE DEF fitted, usable
  <2>6. /\ i' = 1 /\ pc' = "search"
        /\ pipe_stack'[0] = fitted(n) /\ pipe_stack'[1] = fitted(n)
    BY <1>1, <1>4 DEF PieceFits
  <2>7. UsableConnector(n)' /\ RankFor(plumber, At(connectors, n).connector)'
                                = RankFor(plumber, At(connectors, n).connector)
    BY <2>1, <2>2 DEF UsableConnector, RankFor
  <2>8. Chosen(pipe_stack[0], n)' /\ Chosen(pipe_stack[1], n)'
    BY <2>5, <2>6, <2>7 DEF Chosen
  <2>9. EncodersTried(n, 0)'
    BY DEF EncodersTried
  <2>10. StackTells'
    BY <2>4, <2>5, <2>6, <2>7, <2>8, <2>9 DEF StackTells
  <2> QED
    BY <2>2, <2>6, <2>10 DEF Search, Tried, Decided
<1>5. ASSUME usable = {}, NEW x, PieceFails(x)
      PROVE  Search'
  <2>1. /\ Question' /\ Lists' /\ Answered' /\ BestSoFar'
        /\ UNCHANGED <<hw, plumber, connectors, asked, ctx, pipe_internal>>
        /\ pc' = "finish"
    BY <1>1, <1>5, PieceKeeps DEF PieceFails
  <2>2. ASSUME NEW m \in Nat PROVE DoneWith(m)
    <3>1. CASE m < start
      BY <1>2, <3>1 DEF DoneBefore
    <3>2. CASE m >= Len(connectors)
      BY <1>1, <3>2 DEF DoneWith
    <3>3. CASE m >= start /\ m < Len(connectors)
      <4>1. m \in start .. Len(connectors) - 1
        BY <1>1, <1>2, <3>3
      <4> QED
        BY <1>1, <1>5, <4>1, PassedOver
    <3> QED
      BY <1>1, <1>2, <3>1, <3>2, <3>3
  <2>3. IF pipe_internal = Null THEN Seen = {} ELSE IsBest(PipeOf(pipe_internal))
    BY <1>1, <2>2, SearchExhausted
  <2>4. Decided'
    BY <1>1, <2>1, <2>3 DEF Decided, IsBest, PipeOf, Seen
  <2> QED
    BY <2>1, <2>4 DEF Search, Tried
<1> QED
  BY <1>3, <1>4, <1>5

----------------------------------------------------------------------------
\* The entry the pieces work on, while the connector piece has chosen it.
LEMMA CurrentEntry ==
  ASSUME Structure, Search, pc = "search", i \in {1, 2}
  PROVE  LET n == pipe_stack[0].connector
         IN  /\ n \in Nat /\ n < Len(connectors) /\ ValidIndex(n)
             /\ DoneBefore(n) /\ UsableConnector(n)
             /\ Chosen(pipe_stack[0], n) /\ Chosen(pipe_stack[1], n)
             /\ pipe_stack[0].next_encoder_index = 0
             /\ pipe_stack[0].next_crtc_index = 0
             /\ pipe_stack[1].next_crtc_index = 0
             /\ EncodersAt(n) \in Seq(Encoders)
             /\ Len(EncodersAt(n)) \in Nat
             /\ asked = AskedOf(plumber) /\ plumber \in PlumberType
             /\ \A k \in 0 .. 2 : pipe_stack[k] \in PipeInternal
             /\ pipe_stack \in [0 .. 3 -> PipeInternal]
<1> DEFINE n == pipe_stack[0].connector
<1>1. /\ ValidIndex(n) /\ DoneBefore(n) /\ UsableConnector(n)
      /\ Chosen(pipe_stack[0], n) /\ Chosen(pipe_stack[1], n)
      /\ pipe_stack[0].next_encoder_index = 0
      /\ pipe_stack[0].next_crtc_index = 0
      /\ pipe_stack[1].next_crtc_index = 0
  BY DEF Search, Tried, StackTells, Structure, StackShape
<1>2. asked = AskedOf(plumber) /\ plumber \in PlumberType
  BY DEF Search, Question, Idle, Structure
<1>3. pipe_stack \in [0 .. 3 -> PipeInternal]
  BY DEF Structure, TypeOK
<1>4. EncodersAt(n) \in Seq(Encoders)
  BY <1>1, EntryFacts DEF EncodersAt
<1> HIDE DEF n
<1>5. Len(EncodersAt(n)) \in Nat
  BY <1>4
<1> QED
  BY <1>1, <1>2, <1>3, <1>4, <1>5 DEF n, ValidIndex

\* What stays true of the chosen entry when a later piece runs.
LEMMA ChoiceStays ==
  ASSUME UNCHANGED <<hw, plumber, connectors, asked, ctx>>, unread \subseteq unread',
         NEW n, DoneBefore(n), UsableConnector(n)
  PROVE  /\ DoneBefore(n)' /\ UsableConnector(n)'
         /\ EncodersAt(n)' = EncodersAt(n)
         /\ At(connectors, n)' = At(connectors, n)
         /\ \A x : Chosen(x, n) => Chosen(x, n)'
<1>1. UsableConnector(n)'
  BY DEF UsableConnector, RankFor
<1>2. \A x : Chosen(x, n) => Chosen(x, n)'
  BY DEF Chosen, RankFor
<1> QED
  BY <1>1, <1>2, DoneStays DEF EncodersAt

LEMMA SearchEncoderPiece == Structure /\ Search /\ EncoderPiece => Search'
<1> SUFFICES ASSUME Structure, Search, EncoderPiece PROVE Search'
  OBVIOUS
<1> PICK n : n = pipe_stack[0].connector
  OBVIOUS
<1> PICK next : next = pipe_stack[1].next_encoder_index
  OBVIOUS
<1> DEFINE p == pipe_stack[i]
           encoders == hw.encoders[At(connectors, p.connector).connector]
           passed(k) == {encoders[m + 1] : m \in p.next_encoder_index .. k - 1}
           fitted(k) == [ p EXCEPT !.encoder_id = encoders[k + 1],
                                   !.next_encoder_index = k + 1 ]
           failed == [p EXCEPT !.next_encoder_index = Len(encoders) + 1]
<1>1. /\ pc = "search" /\ i = 1 /\ OnlySearches /\ unread \subseteq unread'
      /\ p = pipe_stack[1] /\ p.connector = n /\ next = p.next_encoder_index
      /\ EncodersAt(n) = encoders
      /\ EncodersTried(n, next)
  <2>1. pc = "search" /\ i = 1 /\ OnlySearches /\ unread \subseteq unread'
    BY DEF EncoderPiece
  <2>2. p.connector = n
    BY <2>1 DEF Structure, StackShape
  <2>3. EncodersTried(n, next)
    BY <2>1 DEF Search, Tried, StackTells
  <2> QED
    BY <2>1, <2>2, <2>3 DEF EncodersAt
<1>2. /\ n \in Nat /\ n < Len(connectors) /\ ValidIndex(n)
      /\ DoneBefore(n) /\ UsableConnector(n)
      /\ Chosen(pipe_stack[0], n) /\ Chosen(p, n)
      /\ pipe_stack[0].next_encoder_index = 0
      /\ pipe_stack[0].next_crtc_index = 0
      /\ p.next_crtc_index = 0
      /\ encoders \in Seq(Encoders) /\ Len(encoders) \in Nat
      /\ asked = AskedOf(plumber) /\ plumber \in PlumberType
      /\ p \in PipeInternal
      /\ pipe_stack \in [0 .. 3 -> PipeInternal]
  BY <1>1, CurrentEntry
<1>3. \/ \E k \in p.next_encoder_index .. Len(encoders) - 1 :
           unread' = unread \cup passed(k) /\ PieceFits(fitted(k))
      \/ unread' = unread \cup passed(Len(encoders)) /\ PieceFails(failed)
  BY <1>1 DEF EncoderPiece
<1>4. next \in Nat
  BY <1>1, <1>2 DEF PipeInternal
\* The encoders before k have been tried, or cannot be read.
<1>5. ASSUME NEW k \in next .. Len(encoders), unread' = unread \cup passed(k),
             OnlySearches
      PROVE  EncodersTried(n, k)'
  <2>1. /\ UNCHANGED <<hw, connectors, asked>> /\ Seen' \subseteq Seen
        /\ EncodersAt(n)' = encoders
    BY <1>1, <1>5, SeenShrinks DEF OnlySearches, kernelVars, listVars, EncodersAt
  <2>2. ASSUME NEW m \in 1 .. k, m <= Len(encoders), NEW q \in Seen',
               EntryOf(n, q)
        PROVE  q.encoder # encoders[m]
    <3>1. CASE m <= next
      <4>1. m \in 1 .. next
        BY <1>4, <3>1
      <4> HIDE DEF encoders, p
      <4> QED
        BY <1>1, <2>1, <2>2, <4>1 DEF EncodersTried, encoders
    <3>2. CASE m > next
      <4>1. m - 1 \in p.next_encoder_index .. k - 1 /\ (m - 1) + 1 = m
        BY <1>1, <1>2, <1>4, <3>2
      <4>2. encoders[(m - 1) + 1] \in passed(k)
        BY <4>1
      <4> HIDE DEF passed, encoders
      <4>3. encoders[m] \in unread'
        BY <1>5, <4>1, <4>2
      <4> QED
        BY <2>2, <4>3 DEF Seen
    <3> QED
      BY <1>4, <3>1, <3>2
  <2> HIDE DEF encoders
  <2> QED
    BY <2>1, <2>2 DEF EncodersTried, EntryOf
<1>6. ASSUME NEW k \in next .. Len(encoders) - 1,
             unread' = unread \cup passed(k), PieceFits(fitted(k))
      PROVE  Search'
  <2>1. /\ Question' /\ Lists' /\ Answered' /\ BestSoFar'
        /\ UNCHANGED <<hw, plumber, connectors, asked, ctx, pipe_internal>>
    BY <1>1, <1>6, PieceKeeps
  <2>2. k \in next .. Len(encoders) /\ k + 1 \in 1 .. Len(encoders) /\ (k + 1) - 1 = k
    <3> HIDE DEF encoders
    <3> QED
      BY <1>2, <1>4, <1>6, SMTT(30)
  <2>3. EncodersTried(n, k)'
    BY <1>1, <1>5, <1>6, <2>2
  <2>4. /\ DoneBefore(n)' /\ UsableConnector(n)'
        /\ EncodersAt(n)' = encoders
        /\ \A x : Chosen(x, n) => Chosen(x, n)'
    BY <1>1, <1>2, <2>1, ChoiceStays
  <2> HIDE DEF p, encoders
  <2>5. /\ fitted(k).connector = p.connector
        /\ fitted(k).next_connector_index = p.next_connector_index
        /\ fitted(k).connector_rank = p.connector_rank
        /\ fitted(k).encoder_id = encoders[k + 1]
        /\ fitted(k).next_encoder_index = k + 1
        /\ fitted(k).next_crtc_index = 0
    BY <1>2 DEF PipeInternal
  <2>6. Chosen(fitted(k), n)
    BY <1>2, <2>5 DEF Chosen
  <2> HIDE DEF fitted
  <2> PICK y : y = fitted(k)
    OBVIOUS
  <2>7. /\ i' = 2 /\ pc' = "search" /\ pipe_stack'[0] = pipe_stack[0]
        /\ pipe_stack'[1] = y /\ pipe_stack'[2] = y
    BY <1>1, <1>2, <1>6, SMTT(30) DEF PieceFits
  <2>8. ChosenEncoder(y, n)'
    BY <1>1, <2>2, <2>3, <2>4, <2>5 DEF ChosenEncoder
  <2>9. Chosen(y, n)'
    BY <2>4, <2>6
  <2>10. /\ Chosen(pipe_stack[0], n)' /\ Chosen(pipe_stack[1], n)'
        /\ Chosen(pipe_stack[2], n)' /\ ChosenEncoder(pipe_stack[1], n)'
        /\ (pipe_stack[0].connector)' = n
    BY <1>2, <2>4, <2>7, <2>8, <2>9 DEF Chosen, ChosenEncoder
  <2>11. StackTells'
    BY <1>2, <2>4, <2>5, <2>7, <2>10 DEF StackTells
  <2> QED
    BY <2>1, <2>7, <2>11 DEF Search, Tried, Decided
<1>7. CASE unread' = unread \cup passed(Len(encoders)) /\ PieceFails(failed)
  <2>1. /\ Question' /\ Lists' /\ Answered' /\ BestSoFar'
        /\ UNCHANGED <<hw, plumber, connectors, asked, ctx, pipe_internal>>
    BY <1>1, <1>7, PieceKeeps
  <2>2. /\ i' = 0 /\ pc' = "search" /\ pipe_stack'[0] = pipe_stack[0]
    <3>1. i = 1 /\ pc = "search" /\ pipe_stack \in [0 .. 3 -> PipeInternal]
      BY <1>1, <1>2
    <3> HIDE DEF failed
    <3>2. PieceFails(failed)
      BY <1>7
    <3> QED
      BY <3>1, <3>2 DEF PieceFails
  <2> PICK len : len = Len(encoders)
    OBVIOUS
  <2>3. EncodersTried(n, len)'
    <3>1. CASE len \in next .. Len(encoders)
      BY <1>1, <1>5, <1>7, <3>1
    <3>2. CASE next > len
      <4>1. EncodersTried(n, next)'
        BY <1>1, <2>1, TriedStays
      <4>2. \A m \in 1 .. len : m \in 1 .. next
        BY <1>2, <1>4, <3>2
      <4> QED
        BY <4>1, <4>2 DEF EncodersTried
    <3> QED
      BY <1>2, <1>4, <3>1, <3>2, SMTT(30)
  <2>4. DoneWith(n)'
    <3> SUFFICES ASSUME NEW q \in Seen', EntryOf(n, q) PROVE FALSE
      BY <2>1 DEF DoneWith, EntryOf
    <3>1. q \in DOMAIN asked
      BY <2>1 DEF Seen
    <3>2. PICK k \in DOMAIN hw.encoders[q.connector] : hw.encoders[q.connector][k] = q.encoder
      BY <1>2, <3>1, AskedPipe
    <3>3. hw.encoders[q.connector] = encoders
      BY <1>1 DEF EntryOf
    <3> HIDE DEF encoders
    <3>4. k \in 1 .. Len(encoders) /\ k <= Len(encoders) /\ encoders[k] = q.encoder
      BY <1>2, <3>2, <3>3
    <3> QED
      BY <1>1, <2>1, <2>3, <3>4 DEF EncodersTried, EncodersAt, EntryOf
  <2>5. DoneBefore(n + 1)'
    <3>1. DoneBefore(n)'
      BY <1>1, <1>2, <2>1, DoneStays
    <3>2. \A m \in Nat : m < n + 1 => m < n \/ m = n
      BY <1>2
    <3> QED
      BY <2>4, <3>1, <3>2 DEF DoneBefore
  <2>6. StartIndex(pipe_stack[0])' = n + 1
    BY <1>2, <2>2 DEF StartIndex, Chosen
  <2>7. StackTells'
    BY <1>2, <2>2, <2>5, <2>6 DEF StackTells
  <2> QED
    BY <2>1, <2>2, <2>7 DEF Search, Tried, Decided
<1> QED
  BY <1>1, <1>3, <1>6, <1>7

LEMMA SearchCrtcPiece == Structure /\ Search /\ CrtcPiece => Search'
<1> SUFFICES ASSUME Structure, Search, CrtcPiece PROVE Search'
  OBVIOUS
<1> PICK n : n = pipe_stack[0].connector
  OBVIOUS
<1> PICK next : next = pipe_stack[1].next_encoder_index
  OBVIOUS
<1> DEFINE p == pipe_stack[i]
           minor == At(connectors, p.connector).fd.minor
           routable == { c \in RoutableCrtcs(hw, minor, p.encoder_id, plumber.crtc_mask) :
                           c >= p.next_crtc_index }
           fitted(c) == [p EXCEPT !.crtc_id = c, !.next_crtc_index = c]
<1>1. pc = "search" /\ i = 2 /\ OnlySearches /\ unread \subseteq unread'
  BY DEF CrtcPiece
<1>2. /\ n \in Nat /\ n < Len(connectors) /\ ValidIndex(n)
      /\ DoneBefore(n) /\ UsableConnector(n)
      /\ Chosen(pipe_stack[0], n) /\ Chosen(pipe_stack[1], n)
      /\ pipe_stack[0].next_encoder_index = 0
      /\ pipe_stack[0].next_crtc_index = 0
      /\ pipe_stack[1].next_crtc_index = 0
      /\ EncodersAt(n) \in Seq(Encoders) /\ Len(EncodersAt(n)) \in Nat
      /\ asked = AskedOf(plumber) /\ plumber \in PlumberType
      /\ pipe_stack[2] \in PipeInternal
      /\ pipe_stack \in [0 .. 3 -> PipeInternal]
  BY <1>1, CurrentEntry
<1>3. /\ p = pipe_stack[2] /\ Chosen(p, n) /\ p.connector = n
      /\ ChosenEncoder(pipe_stack[1], n) /\ p.encoder_id = pipe_stack[1].encoder_id
      /\ p.next_crtc_index = 0
  BY <1>1 DEF Search, Tried, StackTells, Chosen, Structure, StackShape
<1>4. /\ next \in 1 .. Len(EncodersAt(n)) /\ EncodersTried(n, next - 1)
      /\ p.encoder_id = EncodersAt(n)[next]
  BY <1>3 DEF ChosenEncoder
<1>5. \/ p.encoder_id \in unread' /\ PieceFails(p)
      \/ routable = {} /\ \E x : PieceFails(x)
      \/ \E c \in routable : PieceFits(fitted(c))
  <2>1. \/ unread' = unread \cup {p.encoder_id} /\ PieceFails(p)
        \/ routable = {} /\ \E x : PieceFails(x)
        \/ \E c \in routable : PieceFits(fitted(c))
    BY <1>1 DEF CrtcPiece
  <2> HIDE DEF p, routable, fitted
  <2> QED
    BY <2>1
<1>6. ASSUME NEW x, PieceFails(x), p.encoder_id \in unread' \/ routable = {}
      PROVE  Search'
  <2>1. /\ Question' /\ Lists' /\ Answered' /\ BestSoFar'
        /\ UNCHANGED <<hw, plumber, connectors, asked, ctx, pipe_internal>>
    BY <1>1, <1>6, PieceKeeps
  <2>2. /\ i' = 1 /\ pc' = "search" /\ pipe_stack'[0] = pipe_stack[0]
        /\ pipe_stack'[1] = pipe_stack[1]
    BY <1>1, <1>2, <1>6 DEF PieceFails
  <2>3. /\ DoneBefore(n)' /\ UsableConnector(n)'
        /\ EncodersAt(n)' = EncodersAt(n)
        /\ \A y : Chosen(y, n) => Chosen(y, n)'
    BY <1>1, <1>2, <2>1, ChoiceStays
  <2>4. ASSUME NEW q \in Seen', EntryOf(n, q) PROVE q.encoder # p.encoder_id
    <3>1. CASE p.encoder_id \in unread'
      BY <2>4, <3>1 DEF Seen
    <3>2. CASE routable = {}
      <4>1. q \in DOMAIN asked
        BY <2>1 DEF Seen
      <4>2. q.crtc \in RoutableCrtcs(hw, q.minor, q.encoder, plumber.crtc_mask)
            /\ q.crtc \in Nat
        BY <1>2, <4>1, AskedPipe DEF PipeType, CrtcIndex
      <4>3. minor = q.minor
        BY <1>3, <2>4 DEF EntryOf
      <4> HIDE DEF p, minor
      <4>4. q.crtc \notin RoutableCrtcs(hw, q.minor, p.encoder_id, plumber.crtc_mask)
        BY <1>3, <3>2, <4>2, <4>3
      <4> QED
        BY <4>2, <4>4
    <3> QED
      BY <1>6, <3>1, <3>2
  <2>5. EncodersTried(n, next)'
    <3>1. EncodersTried(n, next - 1)'
      BY <1>1, <1>4, <2>1, TriedStays
    <3>2. \A m \in 1 .. next : m \in 1 .. next - 1 \/ m = next
      BY <1>2, <1>4
    <3> HIDE DEF p
    <3> QED
      BY <1>4, <2>1, <2>3, <2>4, <3>1, <3>2 DEF EncodersTried, EntryOf
  <2>6. Chosen(pipe_stack[0], n)' /\ Chosen(pipe_stack[1], n)'
    BY <1>2, <2>2, <2>3 DEF Chosen
  <2>7. /\ (pipe_stack[0].connector)' = n
        /\ (pipe_stack[1].next_encoder_index)' = next
    BY <2>2
  <2>8. StackTells'
    BY <1>2, <2>2, <2>3, <2>5, <2>6, <2>7 DEF StackTells
  <2> QED
    BY <2>1, <2>2, <2>8 DEF Search, Tried, Decided
<1>7. ASSUME NEW c \in routable, PieceFits(fitted(c))
      PROVE  Search'
  <2>1. /\ Question' /\ Lists' /\ Answered' /\ BestSoFar'
        /\ UNCHANGED <<hw, plumber, connectors, asked, ctx, pipe_internal>>
    BY <1>1, <1>7, PieceKeeps
  <2>2. /\ DoneBefore(n)' /\ UsableConnector(n)'
        /\ EncodersAt(n)' = EncodersAt(n) /\ At(connectors, n)' = At(connectors, n)
        /\ \A y : Chosen(y, n) => Chosen(y, n)'
    BY <1>1, <1>2, <2>1, ChoiceStays
  <2>3. c \in RoutableCrtcs(hw, At(connectors, n).fd.minor, p.encoder_id, plumber.crtc_mask)
    BY <1>3, <1>7
  <2> HIDE DEF p
  <2>4. /\ fitted(c).connector = p.connector
        /\ fitted(c).next_connector_index = p.next_connector_index
        /\ fitted(c).connector_rank = p.connector_rank
        /\ fitted(c).encoder_id = p.encoder_id
        /\ fitted(c).crtc_id = c
    BY <1>2, <1>3 DEF PipeInternal
  <2>5. Chosen(fitted(c), n)
    BY <1>3, <2>4 DEF Chosen
  <2> HIDE DEF fitted
  <2> PICK y : y = fitted(c)
    OBVIOUS
  <2>6. /\ i' = 3 /\ pc' = "search" /\ pipe_stack'[0] = pipe_stack[0]
        /\ pipe_stack'[1] = pipe_stack[1] /\ pipe_stack'[2] = y
    BY <1>1, <1>2, <1>7 DEF PieceFits
  <2>7. Chosen(y, n)'
    BY <2>2, <2>5
  <2>8. /\ Chosen(pipe_stack[0], n)' /\ Chosen(pipe_stack[1], n)'
        /\ Chosen(pipe_stack[2], n)'
    BY <1>2, <2>2, <2>6, <2>7 DEF Chosen
  <2>9. ChosenEncoder(pipe_stack[1], n)'
    <3>1. EncodersTried(n, next - 1)'
      BY <1>1, <1>4, <2>1, TriedStays
    <3> QED
      BY <1>3, <1>4, <2>2, <2>6, <3>1 DEF ChosenEncoder
  <2>10. (pipe_stack[2].crtc_id)' \in
            RoutableCrtcs(hw, At(connectors, n).fd.minor,
                          pipe_stack[2].encoder_id, plumber.crtc_mask)'
    BY <2>1, <2>2, <2>3, <2>4, <2>6 DEF RoutableCrtcs
  <2>11. StackTells'
    BY <1>2, <2>2, <2>6, <2>8, <2>9, <2>10 DEF StackTells
  <2> QED
    BY <2>1, <2>6, <2>11 DEF Search, Tried, Decided
<1> QED
  BY <1>5, <1>6, <1>7

----------------------------------------------------------------------------
\* The call returns what it has decided.
LEMMA FinishAnswers ==
  ASSUME Structure, Search, Finish
  PROVE  /\ pc = "finish" /\ pc' = "idle"
         /\ UNCHANGED <<asked, unread>>
         /\ IF pipe_internal = Null
            THEN pipe' = Null /\ Seen = {}
            ELSE pipe' \in PipeType /\ pipe' # Null /\ IsBest(pipe')
<1>1. /\ pc = "finish" /\ pc' = "idle" /\ UNCHANGED <<asked, unread>>
      /\ pipe' = IF pipe_internal # Null THEN PipeOf(pipe_internal) ELSE Null
  BY DEF Finish, historyVars
<1>2. /\ asked = AskedOf(plumber) /\ plumber \in PlumberType
      /\ IF pipe_internal = Null THEN Seen = {} ELSE IsBest(PipeOf(pipe_internal))
  BY <1>1 DEF Search, Question, Idle, Decided, Structure
<1> QED
  BY <1>1, <1>2, AskedPipe DEF IsBest

LEMMA SearchFinish == Structure /\ Search /\ Finish => Search'
<1> SUFFICES ASSUME Structure, Search, Finish PROVE Search'
  OBVIOUS
<1>1. /\ pc' = "idle" /\ UNCHANGED <<asked, unread>>
      /\ IF pipe_internal = Null
         THEN pipe' = Null /\ Seen = {}
         ELSE pipe' \in PipeType /\ pipe' # Null /\ IsBest(pipe')
  BY FinishAnswers
<1>2. Seen' = Seen
  BY <1>1 DEF Seen
<1>3. Answered'
  BY <1>1, <1>2 DEF Answered, AnswerIsBest, IsBest
<1> QED
  BY <1>1, <1>3 DEF Search, Question, Idle, Lists, BestSoFar, Tried, Decided

LEMMA SearchStep == Structure /\ Search /\ [Next]_vars => Search'
<1>1. ASSUME Search, UNCHANGED vars PROVE Search'
  <2>1. UNCHANGED <<hw, plumber, pc, fd_index, fds, connectors, makes, ctx, i,
                    pipe_stack, pipe_internal, pipe, asked, unread>>
    BY <1>1 DEF vars, kernelVars, plumberVars, listVars, searchVars, historyVars
  <2>2. Question' /\ Answered'
    BY <1>1, <2>1 DEF Search, Question, Answered, AnswerIsBest, Idle, AskedOf,
                      RankFor, Seen
  <2>3. Lists'
    BY <1>1, <2>1 DEF Search, Lists, CardsTrue, CardsFound, EntriesTrue, Elements,
                      Listed, Gathered, GatheredFrom
  <2>4. BestSoFar' /\ Decided'
    BY <1>1, <2>1 DEF Search, BestSoFar, Decided, DoneBefore, DoneWith, EntryOf,
                      IsBest, PipeOf, Seen
  <2>5. Tried'
    BY <1>1, <2>1, ZenonT(60) DEF Search, Tried, StackTells, DoneBefore, DoneWith, EntryOf, Seen,
                      StartIndex, UsableConnector, RankFor, Chosen, ChosenEncoder,
                      EncodersTried, EncodersAt
  <2> QED
    BY <2>2, <2>3, <2>4, <2>5 DEF Search
<1> QED
  BY <1>1, SearchCall, SearchScan, SearchScanDone, SearchCollect, SearchCollectDone,
     SearchConnectorPiece, SearchEncoderPiece, SearchCrtcPiece, SearchRoundMade,
     SearchFinish DEF Next, Step

LEMMA SearchAlways == Spec => [](Structure /\ Search)
<1>1. Init => Structure /\ Search
  BY StructureInit, SearchInit
<1>2. Structure /\ Search /\ [Next]_vars => (Structure /\ Search)'
  BY StructureStep, SearchStep
<1> QED
  BY <1>1, <1>2, PTL DEF Spec

\* For every machine, every rank table and CRTC mask, every sequence of calls
\* and whichever reads fail: when bs_drm_pipe_plumber_make has returned, its pipe
\* satisfies the request and none that could be seen has a lower rank, and it
\* returned false only if none could be seen.
THEOREM TheAnswerIsBest == Spec => []AnswerIsBest
<1>1. Structure /\ Search => AnswerIsBest
  BY DEF Search, Answered
<1> QED
  BY <1>1, SearchAlways, PTL

----------------------------------------------------------------------------
(***************************************************************************)
(* The refinement.  A call of bs_drm_pipe_plumber_make asks, its failed    *)
(* reads miss pipes, and its last step returns; everything else is         *)
(* invisible to BestPipe.                                                  *)
(***************************************************************************)
Missed == DOMAIN asked \ Seen
Answer == IF Idle THEN pipe ELSE Pending

\* Missed pipes stay missed, and no answer is given, inside a call.
LEMMA InsideCall ==
  ASSUME Structure, Search, ~Idle, ~Idle', asked' = asked, unread \subseteq unread'
  PROVE  [Promise!Next]_(Promise!vars)
<1>1. Missed \subseteq Missed' /\ Missed' \subseteq PipeType
  <2>1. DOMAIN asked \subseteq PipeType
    BY AskedPipe DEF Search, Question, Structure, Idle
  <2> QED
    BY <2>1, SeenShrinks DEF Missed
<1>2. Answer = Pending /\ Answer' = Pending
  BY DEF Answer
<1> QED
  BY <1>1, <1>2 DEF Promise!Next, Promise!Miss, Promise!Idle, Promise!vars, Missed,
                    Answer

\* Between calls nothing that BestPipe knows changes.
LEMMA OutsideCall ==
  ASSUME UNCHANGED <<asked, unread, pipe>>, Idle, Idle'
  PROVE  [Promise!Next]_(Promise!vars)
BY DEF Promise!vars, Seen

LEMMA CallAsks ==
  ASSUME Structure, Search, Structure', MakeOnCard \/ MakeOnAnyCard
  PROVE  Promise!Ask
<1>1. /\ pc = "idle" /\ pc' \in {"scan", "collect", "finish"} /\ plumber' = plumber
      /\ hw' = hw /\ plumber \in PlumberType
      /\ asked' = AskedOf(plumber) /\ unread' = {}
  BY DEF MakeOnCard, MakeOnAnyCard, Structure, plumberVars, kernelVars
<1>2. Answer # Pending /\ Answer' = Pending
  BY <1>1 DEF Answer, Idle, Search, Answered
<1>3. Missed' = {}
  BY <1>1 DEF Missed, Seen
<1> DEFINE suitable == { q \in PipesOn(hw, MinorsFor(plumber), plumber.crtc_mask) :
                           RankFor(plumber, q.connector) < Skip }
<1>4. asked' = [q \in suitable |-> RankFor(plumber, q.connector)]
  BY <1>1 DEF AskedOf
<1>5. suitable \subseteq PipeType
  BY <1>1 DEF PipesOn, PipeType, MinorsFor, PlumberType, Fd
<1>6. \A q \in suitable : RankFor(plumber, q.connector) \in Nat
  BY <1>1, <1>5, RankOfConnector DEF PipeType
<1> HIDE DEF suitable
<1>7. DOMAIN asked' \subseteq PipeType /\ asked' \in [DOMAIN asked' -> Nat]
  BY <1>4, <1>5, <1>6
<1> QED
  BY <1>2, <1>3, <1>7 DEF Promise!Ask, Promise!Idle, Missed, Answer

LEMMA FinishReturns ==
  ASSUME Structure, Search, Finish
  PROVE  Promise!Return
<1>1. /\ pc = "finish" /\ pc' = "idle" /\ UNCHANGED <<asked, unread>>
      /\ IF pipe_internal = Null
         THEN pipe' = Null /\ Seen = {}
         ELSE pipe' \in PipeType /\ pipe' # Null /\ IsBest(pipe')
  BY FinishAnswers
<1>2. Answer = Pending /\ Answer' = pipe' /\ Missed' = Missed
  BY <1>1 DEF Answer, Missed, Idle, Seen
<1>3. DOMAIN asked \ Missed = Seen
  BY DEF Missed, Seen
<1>4. pipe' \in Promise!Allowed
  BY <1>1, <1>3 DEF Promise!Allowed, IsBest, Missed
<1> QED
  BY <1>1, <1>2, <1>4 DEF Promise!Return, Promise!Idle, Missed, Answer

LEMMA PromiseInit == Init => Promise!Init
BY DEF Init, Promise!Init, Idle, Seen

LEMMA PromiseStep ==
  Structure /\ Search /\ [Next]_vars => [Promise!Next]_(Promise!vars)
<1> SUFFICES ASSUME Structure, Search, [Next]_vars
             PROVE  [Promise!Next]_(Promise!vars)
  OBVIOUS
<1> USE DEF kernelVars, listVars, searchVars, historyVars, plumberVars
<1>1. CASE New \/ Destroy
  BY <1>1, OutsideCall DEF New, Destroy, Idle
<1>2. ASSUME NEW changed, Configure(changed) PROVE [Promise!Next]_(Promise!vars)
  BY <1>2, OutsideCall DEF Configure, Idle
<1>3. CASE MakeOnCard \/ MakeOnAnyCard
  BY <1>3, StructureStep, CallAsks DEF Promise!Next, Next, Call
<1>4. CASE ScanCard \/ ScanDone \/ CollectDone \/ RoundMade
  BY <1>4, InsideCall DEF ScanCard, ScanDone, CollectDone, RoundMade, StartRound, Idle
<1>5. CASE CollectConnectors
  BY <1>5, InsideCall DEF CollectConnectors, Idle
<1>6. CASE ConnectorPiece \/ EncoderPiece \/ CrtcPiece
  <2>1. /\ pc = "search" /\ OnlySearches /\ unread \subseteq unread'
        /\ \E p : PieceFits(p) \/ PieceFails(p)
    BY <1>6 DEF ConnectorPiece, EncoderPiece, CrtcPiece
  <2> QED
    BY <2>1, InsideCall DEF OnlySearches, PieceFits, PieceFails, Idle
<1>7. CASE Finish
  BY <1>7, FinishReturns DEF Promise!Next
<1>8. CASE UNCHANGED vars
  <2>1. UNCHANGED <<asked, unread, pipe, pc>>
    BY <1>8 DEF vars
  <2> QED
    BY <2>1 DEF Promise!vars, Seen, Idle
<1> QED
  BY <1>1, <1>2, <1>3, <1>4, <1>5, <1>6, <1>7, <1>8
     DEF Next, Call, Step, SetConnectorRanks, SetCrtcMask, SetFd, SetConnectorPtr

\* For every machine and every sequence of calls the plumber does what BestPipe
\* says and no more: one answer for each request, out of the allowed ones.
THEOREM ThePromiseIsKept == Spec => KeepsPromise
BY SearchAlways, PromiseInit, PromiseStep, PTL DEF Spec, KeepsPromise, Promise!Spec

----------------------------------------------------------------------------
(***************************************************************************)
(* Why a call returns.  What is left of it is three numbers, the earlier   *)
(* of which count more: the part of the call; the cards or array entries   *)
(* that part has before it; and, while an entry is looked at, its encoders *)
(* and the pieces to call for them.  A round that starts anew with a better *)
(* rank begins behind the entry it found, which is why the rounds end.     *)
(***************************************************************************)
Phase ==
  CASE pc = "scan" -> 4
    [] pc = "collect" -> 3
    [] pc = "search" -> 2
    [] pc = "finish" -> 1
    [] OTHER -> 0

EntriesLeft ==
  CASE pc = "scan" -> DRM_MAX_MINOR - fd_index
    [] pc = "collect" -> Len(fds) - fd_index
    [] pc = "search" -> Len(connectors) - StartIndex(pipe_stack[0])
    [] OTHER -> 0

EncodersLeft ==
  Len(EncodersAt(pipe_stack[0].connector)) - pipe_stack[1].next_encoder_index

PiecesLeft ==
  IF pc # "search" \/ i = 0 THEN 0
  ELSE 2 * EncodersLeft + (IF i = 2 THEN 3 ELSE 2)

Left == <<Phase, <<EntriesLeft, PiecesLeft>>>>

\* The order of what is left, the first number first.
LessThan == OpToRel(<, Nat)
PairOrder == LexPairOrdering(LessThan, LessThan, Nat, Nat)
Order == LexPairOrdering(LessThan, PairOrder, Nat, Nat \X Nat)

\* The start index of a round is never behind the array, and while an entry is
\* looked at no more encoders have been tried than it has.
WithinArrays ==
  pc = "search" =>
    /\ StartIndex(pipe_stack[0]) <= Len(connectors)
    /\ i # 0 => pipe_stack[1].next_encoder_index
                  <= Len(EncodersAt(pipe_stack[0].connector))

\* Nothing gets less for ever.
LEMMA OrderIsWellFounded == IsWellFoundedOn(Order, Nat \X (Nat \X Nat))
<1>1. IsWellFoundedOn(LessThan, Nat)
  BY NatLessThanWellFounded DEF LessThan
<1>2. IsWellFoundedOn(PairOrder, Nat \X Nat)
  BY <1>1, WFLexPairOrdering DEF PairOrder
<1> QED
  BY <1>1, <1>2, WFLexPairOrdering DEF Order

\* What comes before what.
LEMMA OrderIs ==
  ASSUME NEW a \in Nat, NEW b \in Nat, NEW c \in Nat,
         NEW d \in Nat, NEW e \in Nat, NEW f \in Nat,
         a < d \/ (a = d /\ b < e) \/ (a = d /\ b = e /\ c < f)
  PROVE  << <<a, <<b, c>>>>, <<d, <<e, f>>>> >> \in Order
<1>1. \A m, n \in Nat : m < n => <<m, n>> \in LessThan
  BY DEF LessThan, OpToRel
<1>2. b < e \/ (b = e /\ c < f) => << <<b, c>>, <<e, f>> >> \in PairOrder
  BY <1>1 DEF PairOrder, LexPairOrdering
<1> QED
  BY <1>1, <1>2 DEF Order, LexPairOrdering

\* The numbers, by the part of the call.
Numbers ==
  /\ pc = "scan" => Phase = 4 /\ EntriesLeft = DRM_MAX_MINOR - fd_index
  /\ pc = "collect" => Phase = 3 /\ EntriesLeft = Len(fds) - fd_index
  /\ pc = "search" =>
       Phase = 2 /\ EntriesLeft = Len(connectors) - StartIndex(pipe_stack[0])
  /\ pc = "finish" => Phase = 1 /\ EntriesLeft = 0
  /\ pc \in {"none", "idle"} => Phase = 0 /\ EntriesLeft = 0
  /\ pc # "search" \/ i = 0 => PiecesLeft = 0
  /\ pc = "search" /\ i = 2 => PiecesLeft = 2 * EncodersLeft + 3
  /\ pc = "search" /\ i \in {1, 3} => PiecesLeft = 2 * EncodersLeft + 2

LEMMA NumbersAre == Numbers
<1>1. /\ pc # "search" \/ i = 0 => PiecesLeft = 0
      /\ pc = "search" /\ i = 2 => PiecesLeft = 2 * EncodersLeft + 3
      /\ pc = "search" /\ i \in {1, 3} => PiecesLeft = 2 * EncodersLeft + 2
  BY DEF PiecesLeft
<1>2. /\ pc = "scan" => Phase = 4 /\ EntriesLeft = DRM_MAX_MINOR - fd_index
      /\ pc = "collect" => Phase = 3 /\ EntriesLeft = Len(fds) - fd_index
      /\ pc = "search" =>
           Phase = 2 /\ EntriesLeft = Len(connectors) - StartIndex(pipe_stack[0])
      /\ pc = "finish" => Phase = 1 /\ EntriesLeft = 0
      /\ pc \in {"none", "idle"} => Phase = 0 /\ EntriesLeft = 0
  BY DEF Phase, EntriesLeft
<1> QED
  BY <1>1, <1>2 DEF Numbers

LEMMA NumbersAreNext == Numbers'
BY NumbersAre, PTL

\* What each step of the search does to the entry it is at.
LEMMA ConnectorPieceAdvances ==
  ASSUME Structure, Search, ConnectorPiece
  PROVE  /\ pc = "search" /\ i = 0 /\ UNCHANGED <<hw, connectors, ctx>>
         /\ \/ pc' = "finish"
            \/ \E n \in Nat :
                 /\ StartIndex(pipe_stack[0]) <= n /\ n < Len(connectors)
                 /\ pc' = "search" /\ i' = 1
                 /\ pipe_stack'[0].connector = n
                 /\ pipe_stack'[0].next_connector_index = n + 1
                 /\ pipe_stack'[1].next_encoder_index = 0
                 /\ ValidIndex(n)
<1> DEFINE p == pipe_stack[0]
           start == StartIndex(p)
           usable == {m \in start .. Len(connectors) - 1 : UsableConnector(m)}
           fitted(n) == [ p EXCEPT
                      !.connector = n,
                      !.connector_rank = RankFor(plumber, At(connectors, n).connector),
                      !.next_connector_index = n + 1 ]
<1>1. /\ pc = "search" /\ i = 0 /\ OnlySearches
      /\ p \in PipeInternal /\ pipe_stack \in [0 .. 3 -> PipeInternal]
      /\ Len(connectors) \in Nat /\ ctx.first_connector_index \in Nat
  <2>1. pc = "search" /\ i = 0 /\ OnlySearches
    BY DEF ConnectorPiece
  <2>2. /\ pipe_stack \in [0 .. 3 -> PipeInternal] /\ connectors \in Seq(FdConnector)
        /\ ctx.first_connector_index \in Nat
    BY DEF Structure, TypeOK
  <2> QED
    BY <2>1, <2>2
<1>2. start \in Nat /\ p.next_encoder_index = 0
  BY <1>1 DEF StartIndex, PipeInternal, Search, Tried, StackTells
<1>3. \/ \E n \in usable : PieceFits(fitted(n))
      \/ \E x : PieceFails(x)
  BY <1>1 DEF ConnectorPiece
<1>4. UNCHANGED <<hw, connectors, ctx>>
  BY <1>1 DEF OnlySearches, kernelVars, listVars
<1> HIDE DEF start, p
<1>5. ASSUME NEW n \in usable, PieceFits(fitted(n))
      PROVE  /\ n \in Nat /\ start <= n /\ n < Len(connectors)
             /\ pc' = "search" /\ i' = 1
             /\ pipe_stack'[0].connector = n
             /\ pipe_stack'[0].next_connector_index = n + 1
             /\ pipe_stack'[1].next_encoder_index = 0
             /\ ValidIndex(n)
  <2>1. n \in Nat /\ n >= start /\ n < Len(connectors) /\ UsableConnector(n)
    BY <1>1, <1>2, <1>5
  <2>2. /\ fitted(n).connector = n
        /\ fitted(n).next_connector_index = n + 1
        /\ fitted(n).next_encoder_index = 0
    BY <1>1, <1>2 DEF PipeInternal
  <2>3. ValidIndex(n)
    <3>1. At(connectors, n) \in FdConnector
      BY <2>1, ElementTypes DEF Structure
    <3> QED
      BY <2>1, <3>1 DEF ValidIndex, UsableConnector, FdConnector
  <2> HIDE DEF fitted, usable
  <2>4. /\ i' = 1 /\ pc' = "search"
        /\ pipe_stack'[0] = fitted(n) /\ pipe_stack'[1] = fitted(n)
    BY <1>1, <1>5 DEF PieceFits
  <2> QED
    BY <1>2, <2>1, <2>2, <2>3, <2>4
<1>6. ASSUME NEW x, PieceFails(x) PROVE pc' = "finish"
  BY <1>1, <1>6 DEF PieceFails
<1> HIDE DEF usable, fitted
<1> QED
  BY <1>1, <1>3, <1>4, <1>5, <1>6 DEF start, p

LEMMA EncoderPieceAdvances ==
  ASSUME Structure, Search, EncoderPiece
  PROVE  /\ pc = "search" /\ i = 1 /\ UNCHANGED <<hw, connectors, ctx>>
         /\ pc' = "search" /\ pipe_stack'[0] = pipe_stack[0]
         /\ \/ i' = 0
            \/ /\ i' = 2
               /\ pipe_stack'[1].next_encoder_index \in Nat
               /\ pipe_stack'[1].next_encoder_index > pipe_stack[1].next_encoder_index
               /\ pipe_stack'[1].next_encoder_index
                    <= Len(EncodersAt(pipe_stack[0].connector))
<1> DEFINE p == pipe_stack[1]
           n == pipe_stack[0].connector
           encoders == hw.encoders[At(connectors, p.connector).connector]
           passed(k) == {encoders[m + 1] : m \in p.next_encoder_index .. k - 1}
           fitted(k) == [ p EXCEPT !.encoder_id = encoders[k + 1],
                                   !.next_encoder_index = k + 1 ]
           failed == [p EXCEPT !.next_encoder_index = Len(encoders) + 1]
<1>1. pc = "search" /\ i = 1 /\ OnlySearches
  BY DEF EncoderPiece
<1>2. /\ p.connector = n /\ EncodersAt(n) = encoders
      /\ p \in PipeInternal /\ pipe_stack \in [0 .. 3 -> PipeInternal]
      /\ Len(encoders) \in Nat /\ p.next_encoder_index \in Nat
  <2>1. p.connector = n
    BY <1>1 DEF Structure, StackShape
  <2>2. EncodersAt(n) = encoders
    BY <2>1 DEF EncodersAt
  <2>3. /\ p \in PipeInternal /\ pipe_stack \in [0 .. 3 -> PipeInternal]
        /\ Len(EncodersAt(n)) \in Nat
    BY <1>1, CurrentEntry
  <2> QED
    BY <2>1, <2>2, <2>3 DEF PipeInternal
<1>3. UNCHANGED <<hw, connectors, ctx>>
  BY <1>1 DEF OnlySearches, kernelVars, listVars
<1>4. \/ \E k \in p.next_encoder_index .. Len(encoders) - 1 : PieceFits(fitted(k))
      \/ PieceFails(failed)
  BY <1>1 DEF EncoderPiece
<1> HIDE DEF p, encoders
<1>5. ASSUME NEW k \in p.next_encoder_index .. Len(encoders) - 1, PieceFits(fitted(k))
      PROVE  /\ pc' = "search" /\ i' = 2 /\ pipe_stack'[0] = pipe_stack[0]
             /\ pipe_stack'[1].next_encoder_index \in Nat
             /\ pipe_stack'[1].next_encoder_index > p.next_encoder_index
             /\ pipe_stack'[1].next_encoder_index <= Len(encoders)
  <2>1. fitted(k).next_encoder_index = k + 1
    BY <1>2 DEF PipeInternal
  <2> HIDE DEF fitted
  <2>2. /\ i' = 2 /\ pc' = "search" /\ pipe_stack'[0] = pipe_stack[0]
        /\ pipe_stack'[1] = fitted(k)
    BY <1>1, <1>2, <1>5 DEF PieceFits
  <2>3. k + 1 \in Nat /\ k + 1 > p.next_encoder_index /\ k + 1 <= Len(encoders)
    BY <1>2, <1>5
  <2> QED
    BY <2>1, <2>2, <2>3
<1>6. ASSUME PieceFails(failed)
      PROVE  pc' = "search" /\ i' = 0 /\ pipe_stack'[0] = pipe_stack[0]
  <2> HIDE DEF failed
  <2> QED
    BY <1>1, <1>2, <1>6 DEF PieceFails
<1> HIDE DEF failed, fitted
<1> QED
  BY <1>1, <1>2, <1>3, <1>4, <1>5, <1>6 DEF p

LEMMA CrtcPieceAdvances ==
  ASSUME Structure, Search, CrtcPiece
  PROVE  /\ pc = "search" /\ i = 2 /\ UNCHANGED <<hw, connectors, ctx>>
         /\ pc' = "search" /\ i' \in {1, 3}
         /\ pipe_stack'[0] = pipe_stack[0] /\ pipe_stack'[1] = pipe_stack[1]
<1>1. /\ pc = "search" /\ i = 2 /\ OnlySearches
      /\ \E x : PieceFits(x) \/ PieceFails(x)
  BY DEF CrtcPiece
<1>2. pipe_stack \in [0 .. 3 -> PipeInternal]
  BY <1>1, CurrentEntry
<1>3. UNCHANGED <<hw, connectors, ctx>>
  BY <1>1 DEF OnlySearches, kernelVars, listVars
<1>4. PICK x : PieceFits(x) \/ PieceFails(x)
  BY <1>1
<1>5. CASE PieceFits(x)
  BY <1>1, <1>2, <1>3, <1>5 DEF PieceFits
<1>6. CASE PieceFails(x)
  BY <1>1, <1>2, <1>3, <1>6 DEF PieceFails
<1> QED
  BY <1>4, <1>5, <1>6

LEMMA RoundMadeAdvances ==
  ASSUME Structure, Search, RoundMade
  PROVE  /\ pc = "search" /\ i = 3 /\ connectors' = connectors
         /\ \/ pc' = "finish"
            \/ /\ pc' = "search" /\ i' = 0
               /\ StartIndex(pipe_stack[0])' = StartIndex(pipe_stack[0])
<1> DEFINE n == pipe_stack[0].connector
<1>1. /\ pc = "search" /\ i = 3 /\ connectors' = connectors
      /\ pc' \in {"search", "finish"}
  BY DEF RoundMade, listVars, StartRound
<1>2. /\ n \in Nat /\ pipe_stack[0].next_connector_index = n + 1
      /\ pipe_stack[2].next_connector_index = n + 1
  BY <1>1 DEF Search, Tried, StackTells, Chosen, Structure, StackShape, ValidIndex
<1>3. StartIndex(pipe_stack[0]) = n + 1
  BY <1>2 DEF StartIndex
<1>4. ASSUME pc' = "search"
      PROVE  StartRound(pipe_stack[2].connector_rank, n + 1)
  BY <1>2, <1>4 DEF RoundMade
<1>5. ASSUME pc' = "search"
      PROVE  i' = 0 /\ StartIndex(pipe_stack[0])' = n + 1
  <2>1. n + 1 \in Nat
    BY <1>2
  <2> QED
    BY <1>4, <1>5, <2>1, RoundStarts
<1> QED
  BY <1>1, <1>3, <1>5

----------------------------------------------------------------------------
LEMMA WithinInit == Init => WithinArrays
BY DEF Init, WithinArrays

LEMMA TriedCountsLess ==
  ASSUME NEW a \in Nat, NEW b \in Nat, NEW c \in Nat, b > a
  PROVE  2 * (c - b) + 3 < 2 * (c - a) + 2
OBVIOUS

\* What a step of the search leaves is within the arrays, and less: another
\* part of the call, fewer entries, or the same entry and fewer pieces.
LEMMA SearchGetsLess ==
  ASSUME Structure, Search, WithinArrays,
         ConnectorPiece \/ EncoderPiece \/ CrtcPiece \/ RoundMade
  PROVE  /\ WithinArrays'
         /\ pc = "search"
         /\ \/ pc' = "finish"
            \/ pc' = "search" /\ EntriesLeft' < EntriesLeft
            \/ pc' = "search" /\ EntriesLeft' = EntriesLeft /\ PiecesLeft' < PiecesLeft
<1> DEFINE n == pipe_stack[0].connector
           len == Len(EncodersAt(n))
           next == pipe_stack[1].next_encoder_index
<1>1. /\ Len(connectors) \in Nat /\ StartIndex(pipe_stack[0]) \in Nat
      /\ next \in Nat
  <2>1. /\ connectors \in Seq(FdConnector) /\ pipe_stack \in [0 .. 3 -> PipeInternal]
        /\ ctx.first_connector_index \in Nat
    BY DEF Structure, TypeOK
  <2>2. pipe_stack[0] \in PipeInternal /\ pipe_stack[1] \in PipeInternal
    BY <2>1
  <2>3. Len(connectors) \in Nat
    BY <2>1
  <2> QED
    BY <2>1, <2>2, <2>3 DEF StartIndex, PipeInternal
<1>2. CASE ConnectorPiece
  <2>1. CASE pc' = "finish"
    BY <1>2, <2>1, ConnectorPieceAdvances DEF WithinArrays
  <2>2. CASE pc' # "finish"
    <3>1. /\ pc = "search" /\ UNCHANGED <<hw, connectors, ctx>>
          /\ pc' = "search" /\ i' = 1
      BY <1>2, <2>2, ConnectorPieceAdvances
    <3>2. PICK m \in Nat : /\ StartIndex(pipe_stack[0]) <= m /\ m < Len(connectors)
                           /\ pipe_stack'[0].connector = m
                           /\ pipe_stack'[0].next_connector_index = m + 1
                           /\ pipe_stack'[1].next_encoder_index = 0
                           /\ ValidIndex(m)
      BY <1>2, <2>2, ConnectorPieceAdvances
    <3>3. StartIndex(pipe_stack[0])' = m + 1
      BY <3>2 DEF StartIndex
    <3>4. Len(EncodersAt(m)) \in Nat
      <4>1. EncodersAt(m) \in Seq(Encoders)
        BY <3>1, <3>2, EntryFacts DEF EncodersAt
      <4> QED
        BY <4>1
    <3>5. Len(EncodersAt(pipe_stack[0].connector))' = Len(EncodersAt(m))
      BY <3>1, <3>2 DEF EncodersAt
    <3>6. WithinArrays'
      BY <1>1, <3>1, <3>2, <3>3, <3>4, <3>5 DEF WithinArrays
    <3>7. EntriesLeft' = Len(connectors) - (m + 1)
          /\ EntriesLeft = Len(connectors) - StartIndex(pipe_stack[0])
      BY <3>1, <3>3, NumbersAre, NumbersAreNext DEF Numbers
    <3> QED
      BY <1>1, <3>1, <3>2, <3>6, <3>7
  <2> QED
    BY <2>1, <2>2
<1>3. CASE EncoderPiece
  <2>1. /\ pc = "search" /\ i = 1 /\ UNCHANGED <<hw, connectors, ctx>>
        /\ pc' = "search" /\ pipe_stack'[0] = pipe_stack[0]
        /\ next <= len
    BY <1>3, EncoderPieceAdvances DEF WithinArrays
  <2>2. /\ StartIndex(pipe_stack[0])' = StartIndex(pipe_stack[0])
        /\ Len(EncodersAt(pipe_stack[0].connector))' = len
    BY <2>1 DEF StartIndex, EncodersAt
  <2>3. len \in Nat
    BY <2>1, CurrentEntry
  <2>4. EntriesLeft' = EntriesLeft /\ PiecesLeft = 2 * (len - next) + 2
    BY <2>1, <2>2, NumbersAre, NumbersAreNext DEF Numbers, EncodersLeft
  <2>5. CASE i' = 0
    <3>1. PiecesLeft' = 0
      BY <2>5, NumbersAreNext DEF Numbers
    <3>2. WithinArrays'
      BY <2>1, <2>2, <2>5 DEF WithinArrays
    <3>3. PiecesLeft' < PiecesLeft
      <4> HIDE DEF len, next
      <4> QED
        BY <1>1, <2>1, <2>3, <2>4, <3>1
    <3> QED
      BY <2>1, <2>4, <3>2, <3>3
  <2>6. CASE i' # 0
    <3> PICK later : later = pipe_stack'[1].next_encoder_index
      OBVIOUS
    <3>1. i' = 2 /\ later \in Nat /\ later > next /\ later <= len
      BY <1>3, <2>6, EncoderPieceAdvances
    <3>2. PiecesLeft' = 2 * (len - later) + 3
      BY <2>1, <2>2, <3>1, NumbersAreNext DEF Numbers, EncodersLeft
    <3>3. WithinArrays'
      BY <2>1, <2>2, <3>1 DEF WithinArrays
    <3>4. PiecesLeft' < PiecesLeft
      <4> HIDE DEF len, next
      <4>1. next \in Nat
        BY <1>1
      <4>2. 2 * (len - later) + 3 < 2 * (len - next) + 2
        BY <2>3, <3>1, <4>1, TriedCountsLess
      <4> QED
        BY <2>4, <3>2, <4>2
    <3> QED
      BY <2>1, <2>4, <3>3, <3>4
  <2> QED
    BY <2>5, <2>6
<1>4. CASE CrtcPiece
  <2>1. /\ pc = "search" /\ i = 2 /\ UNCHANGED <<hw, connectors, ctx>>
        /\ pc' = "search" /\ i' \in {1, 3}
        /\ pipe_stack'[0] = pipe_stack[0] /\ pipe_stack'[1] = pipe_stack[1]
        /\ next <= len
    BY <1>4, CrtcPieceAdvances DEF WithinArrays
  <2>2. /\ StartIndex(pipe_stack[0])' = StartIndex(pipe_stack[0])
        /\ Len(EncodersAt(pipe_stack[0].connector))' = len
    BY <2>1 DEF StartIndex, EncodersAt
  <2>3. len \in Nat
    BY <2>1, CurrentEntry
  <2>4. /\ EntriesLeft' = EntriesLeft /\ PiecesLeft = 2 * (len - next) + 3
        /\ PiecesLeft' = 2 * (len - next) + 2
    BY <2>1, <2>2, NumbersAre, NumbersAreNext DEF Numbers, EncodersLeft
  <2>5. WithinArrays'
    BY <2>1, <2>2 DEF WithinArrays
  <2>6. PiecesLeft' < PiecesLeft
    <3> HIDE DEF len, next
    <3> QED
      BY <1>1, <2>3, <2>4
  <2> QED
    BY <2>1, <2>4, <2>5, <2>6
<1>5. CASE RoundMade
  <2>1. CASE pc' = "finish"
    BY <1>5, <2>1, RoundMadeAdvances DEF WithinArrays
  <2>2. CASE pc' # "finish"
    <3>1. /\ pc = "search" /\ i = 3 /\ connectors' = connectors
          /\ pc' = "search" /\ i' = 0
          /\ StartIndex(pipe_stack[0])' = StartIndex(pipe_stack[0])
      BY <1>5, <2>2, RoundMadeAdvances
    <3>2. len \in Nat /\ next <= len
      <4>1. next \in 1 .. len
        BY <3>1 DEF Search, Tried, StackTells, ChosenEncoder
      <4>2. hw.encoders[At(connectors, n).connector] \in Seq(Encoders)
        BY <3>1, EntryFacts DEF Structure, StackShape
      <4>3. EncodersAt(n) \in Seq(Encoders)
        BY <4>2 DEF EncodersAt
      <4>4. len \in Nat
        BY <4>3
      <4> HIDE DEF len, next
      <4> QED
        BY <4>1, <4>4
    <3>3. /\ EntriesLeft' = EntriesLeft
          /\ PiecesLeft = 2 * (len - next) + 2 /\ PiecesLeft' = 0
      BY <3>1, NumbersAre, NumbersAreNext DEF Numbers, EncodersLeft
    <3>4. WithinArrays'
      BY <3>1 DEF WithinArrays
    <3>5. PiecesLeft' < PiecesLeft
      <4> HIDE DEF len, next
      <4> QED
        BY <1>1, <3>2, <3>3
    <3> QED
      BY <3>1, <3>3, <3>4, <3>5
  <2> QED
    BY <2>1, <2>2
<1> QED
  BY <1>2, <1>3, <1>4, <1>5

\* The start of a search, and the steps that begin none.
LEMMA WithinStep ==
  ASSUME Structure, Search, WithinArrays, [Next]_vars
  PROVE  WithinArrays'
<1> USE DEF kernelVars, listVars, searchVars, historyVars, plumberVars
<1>1. CASE Call
  <2>1. pc' # "search"
    BY <1>1 DEF Call, New, Destroy, Configure, SetConnectorRanks, SetCrtcMask, SetFd,
       SetConnectorPtr, MakeOnCard, MakeOnAnyCard
  <2> QED
    BY <2>1 DEF WithinArrays
<1>2. CASE ScanCard \/ ScanDone \/ CollectConnectors \/ Finish
  <2>1. pc' # "search"
    BY <1>2 DEF ScanCard, ScanDone, CollectConnectors, Finish
  <2> QED
    BY <2>1 DEF WithinArrays
<1>3. CASE CollectDone
  <2>1. connectors' = connectors /\ StartRound(Skip, 0)
    BY <1>3 DEF CollectDone
  <2>2. i' = 0 /\ StartIndex(pipe_stack[0])' = 0
    BY <2>1, RoundStarts
  <2>3. Len(connectors) \in Nat
    BY DEF Structure, TypeOK
  <2> QED
    BY <2>1, <2>2, <2>3 DEF WithinArrays
<1>4. CASE ConnectorPiece \/ EncoderPiece \/ CrtcPiece \/ RoundMade
  BY <1>4, SearchGetsLess
<1>5. CASE UNCHANGED vars
  BY <1>5 DEF vars, WithinArrays, StartIndex, EncodersAt
<1> QED
  BY <1>1, <1>2, <1>3, <1>4, <1>5 DEF Next, Step

LEMMA LeftIsNatural ==
  ASSUME Structure, Search, WithinArrays
  PROVE  Phase \in Nat /\ EntriesLeft \in Nat /\ PiecesLeft \in Nat
<1>1. /\ fds \in Seq(Fd) /\ connectors \in Seq(FdConnector) /\ fd_index \in Nat
      /\ pipe_stack \in [0 .. 3 -> PipeInternal] /\ i \in 0 .. 3
      /\ ctx.first_connector_index \in Nat
      /\ pc \in {"none", "idle", "scan", "collect", "search", "finish"}
  BY DEF Structure, TypeOK
<1>2. Len(fds) \in Nat /\ Len(connectors) \in Nat
  BY <1>1
<1>3. CASE pc = "scan"
  <2>1. DRM_MAX_MINOR - fd_index \in Nat
    BY <1>1, <1>3 DEF Search, Lists
  <2> QED
    BY <1>3, <2>1, NumbersAre DEF Numbers
<1>4. CASE pc = "collect"
  <2>1. Len(fds) - fd_index \in Nat
    BY <1>1, <1>2, <1>4 DEF Search, Lists
  <2> QED
    BY <1>4, <2>1, NumbersAre DEF Numbers
<1>5. CASE pc = "search"
  <2>1. pipe_stack[0] \in PipeInternal /\ pipe_stack[1] \in PipeInternal
    BY <1>1
  <2>2. StartIndex(pipe_stack[0]) \in Nat /\ pipe_stack[1].next_encoder_index \in Nat
    BY <1>1, <2>1 DEF StartIndex, PipeInternal
  <2>3. Len(connectors) - StartIndex(pipe_stack[0]) \in Nat
    BY <1>2, <1>5, <2>2 DEF WithinArrays
  <2>4. i # 0 => EncodersLeft \in Nat
    <3>1. i # 0 => ValidIndex(pipe_stack[0].connector)
      BY <1>1, <1>5 DEF Structure, StackShape
    <3>2. i # 0 => EncodersAt(pipe_stack[0].connector) \in Seq(Encoders)
      BY <1>5, <3>1, EntryFacts DEF EncodersAt
    <3>3. i # 0 => Len(EncodersAt(pipe_stack[0].connector)) \in Nat
      BY <3>2
    <3> QED
      BY <1>5, <2>2, <3>3 DEF WithinArrays, EncodersLeft
  <2>5. PiecesLeft \in Nat
    BY <1>1, <1>5, <2>4, NumbersAre DEF Numbers
  <2> QED
    BY <1>5, <2>3, <2>5, NumbersAre DEF Numbers
<1>6. CASE pc \in {"finish", "none", "idle"}
  BY <1>6, NumbersAre DEF Numbers
<1> QED
  BY <1>1, <1>3, <1>4, <1>5, <1>6

\* Every step inside a call makes what is left of it less.
LEMMA CallGetsLess ==
  ASSUME Structure, Search, WithinArrays, Next, ~Idle
  PROVE  \/ Phase' < Phase
         \/ Phase' = Phase /\ EntriesLeft' < EntriesLeft
         \/ Phase' = Phase /\ EntriesLeft' = EntriesLeft /\ PiecesLeft' < PiecesLeft
<1> USE DEF kernelVars, listVars, searchVars, historyVars, plumberVars
<1>1. Step
  BY DEF Next, Call, New, Destroy, Configure, SetConnectorRanks, SetCrtcMask, SetFd,
     SetConnectorPtr, MakeOnCard, MakeOnAnyCard, Idle
<1>2. CASE ScanCard
  <2>1. /\ pc = "scan" /\ pc' = "scan" /\ fd_index' = fd_index + 1
        /\ fd_index \in Nat /\ DRM_MAX_MINOR \in Nat
    BY <1>2 DEF ScanCard, Structure, TypeOK
  <2>2. /\ Phase = 4 /\ Phase' = 4 /\ EntriesLeft = DRM_MAX_MINOR - fd_index
        /\ EntriesLeft' = DRM_MAX_MINOR - (fd_index + 1)
    BY <2>1, NumbersAre, NumbersAreNext DEF Numbers
  <2> QED
    BY <2>1, <2>2
<1>3. CASE ScanDone
  <2>1. Phase = 4 /\ Phase' = 3
    BY <1>3, NumbersAre, NumbersAreNext DEF Numbers, ScanDone
  <2> QED
    BY <2>1
<1>4. CASE CollectConnectors
  <2>1. /\ pc = "collect" /\ pc' = "collect" /\ fd_index' = fd_index + 1
        /\ fds' = fds /\ fd_index \in Nat /\ Len(fds) \in Nat
    BY <1>4 DEF CollectConnectors, Structure, TypeOK
  <2>2. /\ Phase = 3 /\ Phase' = 3 /\ EntriesLeft = Len(fds) - fd_index
        /\ EntriesLeft' = Len(fds) - (fd_index + 1)
    BY <2>1, NumbersAre, NumbersAreNext DEF Numbers
  <2> QED
    BY <2>1, <2>2
<1>5. CASE CollectDone
  <2>1. Phase = 3 /\ Phase' \in {1, 2}
    BY <1>5, NumbersAre, NumbersAreNext DEF Numbers, CollectDone
  <2> QED
    BY <2>1
<1>6. CASE ConnectorPiece \/ EncoderPiece \/ CrtcPiece \/ RoundMade
  <2>1. Phase = 2
    BY <1>6, SearchGetsLess, NumbersAre DEF Numbers
  <2>2. /\ pc' = "finish" => Phase' = 1
        /\ pc' = "search" => Phase' = 2
    BY NumbersAreNext DEF Numbers
  <2> QED
    BY <1>6, <2>1, <2>2, SearchGetsLess
<1>7. CASE Finish
  <2>1. Phase = 1 /\ Phase' = 0
    BY <1>7, NumbersAre, NumbersAreNext DEF Numbers, Finish
  <2> QED
    BY <2>1
<1> QED
  BY <1>1, <1>2, <1>3, <1>4, <1>5, <1>6, <1>7 DEF Step

\* For every machine and request, with any number of cards, connectors and
\* encoders, whichever reads fail and however often a better rank is found,
\* every step of bs_drm_pipe_plumber_make (drm_pipe.c:182-284, pipe.c:12-33)
\* makes what is left of it less, in an order in which nothing gets less for
\* ever: the rounds and the backtracking end.
THEOREM RoundsEnd == Spec => [][~Idle => <<Left', Left>> \in Order]_vars
<1>1. ASSUME Structure, Search, WithinArrays
      PROVE  Phase \in Nat /\ EntriesLeft \in Nat /\ PiecesLeft \in Nat
  BY <1>1, LeftIsNatural
<1>2. ASSUME Structure, Search, WithinArrays, [Next]_vars
      PROVE  WithinArrays'
  BY <1>2, WithinStep
<1>3. ASSUME Structure, Search, WithinArrays, [Next]_vars,
             (Phase \in Nat /\ EntriesLeft \in Nat /\ PiecesLeft \in Nat)'
      PROVE  [~Idle => <<Left', Left>> \in Order]_vars
  <2> SUFFICES ASSUME Next, ~Idle PROVE <<Left', Left>> \in Order
    BY <1>3
  <2>1. Phase \in Nat /\ EntriesLeft \in Nat /\ PiecesLeft \in Nat
    BY <1>1, <1>3
  <2>2. \/ Phase' < Phase
        \/ Phase' = Phase /\ EntriesLeft' < EntriesLeft
        \/ Phase' = Phase /\ EntriesLeft' = EntriesLeft /\ PiecesLeft' < PiecesLeft
    BY <1>3, CallGetsLess
  <2> QED
    BY <1>3, <2>1, <2>2, OrderIs DEF Left
<1> QED
  BY <1>1, <1>2, <1>3, SearchAlways, WithinInit, PTL DEF Spec
=============================================================================
