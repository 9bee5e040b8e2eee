---------------------------- MODULE MapperProofs ----------------------------
(***************************************************************************)
(* For every buffer, page size, bound of retries and pattern of failing    *)
(* system calls: the mappers' descriptors and accesses are balanced; the   *)
(* planes are mapped where their pointers say, and unmapped without taking *)
(* or leaving a page that they should not; and what draw_color writes      *)
(* through the pointers is the picture, in each of the formats; and every  *)
(* step of a drawing brings its return nearer.                             *)
(***************************************************************************)
EXTENDS Mapper, SequenceTheorems, WellFoundedInduction, TLAPS

\* Where the call stands.
Control ==
  /\ pc # "idle" => mapper
  /\ pc \in {"sync_start", "sync_end"} => kind = "dma_buf"

\* The planes mapped are as many as they should be.
Progress ==
  /\ pc # "idle" => num_planes \in 1 .. Len(bo)
  /\ pc = "idle" => planes = << >>
  /\ pc \in {"map", "draw"} => Len(planes) <= num_planes
  /\ pc = "draw" => Len(planes) = num_planes
  /\ pc = "sync_start" => Len(planes) < num_planes
  /\ pc = "sync_end" => planes # << >>

\* prime_fd is open only between gbm_bo_get_fd and close, and counted so; only
\* a dumb_map that failed leaves more.
Descriptors ==
  /\ prime_fd => pc \in {"sync_start", "sync_end"}
  /\ open_fds >= Count(mapper /\ kind = "dumb") + Count(prime_fd)
  /\ kind # "dumb" \/ clean =>
       open_fds = Count(mapper /\ kind = "dumb") + Count(prime_fd)

\* An access is under way for every plane mapped.
Accesses ==
  /\ clean /\ kind = "dma_buf" => started = Len(planes)
  /\ clean /\ pc \in {"sync_start", "sync_end"} => prime_fd
  /\ clean /\ pc = "sync_start" => ptr # Null

\* The inductive invariant.
Inv == TypeOK /\ Control /\ Progress /\ Descriptors /\ Accesses

LEMMA CountIs == /\ Count(TRUE) = 1 /\ Count(FALSE) = 0
                 /\ \A b \in BOOLEAN : Count(b) \in 0 .. 1
BY DEF Count

LEMMA BoIs ==
  ASSUME NEW b \in Bos
  PROVE  b \in Seq(Plane) /\ Len(b) \in Nat \ {0}
<1>1. b \in Seq(Plane) /\ b # << >>
  BY MapperAssumption
<1> QED
  BY <1>1, EmptySeq, LenProperties

LEMMA InitInv == Init => Inv
<1> SUFFICES ASSUME Init PROVE Inv
  OBVIOUS
<1>1. 0 \in 0 .. Retries /\ 0 \in 0 .. MaxDraws
  BY MapperAssumption
<1>2. memory \in [Pages -> {Free, Heap} \cup (Handles \X Nat)]
  <2>1. memory \in [Pages -> {Free, Heap}]
    BY DEF Init
  <2> QED
    BY <2>1
<1>3. << >> \in Seq([plane_index : Nat, ptr : Nat]) /\ Len(<< >>) = 0
  BY EmptySeq
<1>4. picture.format = Null
  BY DEF Init, NoPicture
<1>5. TypeOK
  <2>1. planes \in Seq([plane_index : Nat, ptr : Nat])
    BY <1>3 DEF Init
  <2>2. /\ kind \in {"dma_buf", "gem", "dumb"}
        /\ mapper = FALSE /\ prime_fd = FALSE /\ clean = TRUE
        /\ pc = "idle" /\ bo = Null /\ num_planes = 0 /\ ptr = Null
        /\ counter = 0 /\ open_fds = 0 /\ started = 0 /\ draws = 0
    BY DEF Init
  <2>3. /\ kind \in {"dma_buf", "gem", "dumb"}
        /\ mapper \in BOOLEAN /\ prime_fd \in BOOLEAN /\ clean \in BOOLEAN
        /\ pc \in {"idle", "map", "sync_start", "draw", "unmap", "sync_end"}
    BY <2>2
  <2>4. /\ bo \in Bos \cup {Null} /\ (bo = Null <=> pc = "idle")
        /\ num_planes \in Nat /\ ptr \in Nat \cup {Null}
    BY <2>2
  <2>5. /\ counter \in 0 .. Retries
        /\ open_fds \in Nat /\ started \in Int /\ draws \in 0 .. MaxDraws
    BY <1>1, <2>2
  <2>6. picture.format \in DOMAIN bs_draw_formats \cup {Null}
    BY <1>4
  <2> QED
    BY <1>2, <2>1, <2>3, <2>4, <2>5, <2>6 DEF TypeOK
<1>6. Control /\ Progress /\ Accesses
  BY <1>3 DEF Init, Control, Progress, Accesses
<1>7. Descriptors
  <2>1. prime_fd = FALSE /\ open_fds = 0 /\ mapper = FALSE
    BY DEF Init
  <2>2. Count(prime_fd) = 0 /\ Count(mapper /\ kind = "dumb") = 0
    BY <2>1 DEF Count
  <2> QED
    BY <2>1, <2>2 DEF Descriptors
<1> QED
  BY <1>5, <1>6, <1>7 DEF Inv

----------------------------------------------------------------------------
\* The system calls keep the types.

\* Where mmap puts an object is an address, and so is the plane in it.
LEMMA AddressType ==
  ASSUME NEW base \in Pages, NEW offset \in Nat
  PROVE  /\ base * PageBytes \in Nat
         /\ base * PageBytes + offset \in Nat
<1>1. base \in Nat /\ PageBytes \in Nat
  BY MapperAssumption DEF Pages
<1>2. base * PageBytes \in Nat
  BY <1>1
<1> QED
  BY <1>2

MemoryType == [Pages -> {Free, Heap} \cup (Handles \X Nat)]

LEMMA MappedType ==
  ASSUME memory \in MemoryType, NEW base \in Pages, NEW length,
         NEW handle \in Handles
  PROVE  Mapped(base, length, handle) \in MemoryType
<1>1. ASSUME NEW page \in Pages, page \in Extent(base, length)
      PROVE  page - base \in Nat
  BY <1>1, MapperAssumption DEF Extent, Pages
<1> QED
  BY <1>1 DEF Mapped, MemoryType

LEMMA UnmappedType ==
  ASSUME memory \in MemoryType, NEW addr, NEW length
  PROVE  Unmapped(addr, length) \in MemoryType
BY DEF Unmapped, MemoryType

\* A plane more, and one less.
LEMMA PlaneMore ==
  ASSUME TypeOK, NEW base \in Nat, KeepPlane(base)
  PROVE  /\ planes' \in Seq([plane_index : Nat, ptr : Nat])
         /\ Len(planes') = Len(planes) + 1 /\ Len(planes) \in Nat
<1>1. Len(planes) \in Nat
  BY LenProperties DEF TypeOK
<1>2. [plane_index |-> plane, ptr |-> base] \in [plane_index : Nat, ptr : Nat]
  BY <1>1 DEF plane
<1> QED
  BY <1>1, <1>2, AppendProperties DEF TypeOK, KeepPlane

LEMMA PlaneLess ==
  ASSUME TypeOK, planes # << >>, planes' = Tail(planes)
  PROVE  /\ planes' \in Seq([plane_index : Nat, ptr : Nat])
         /\ Len(planes') = Len(planes) - 1 /\ Len(planes) \in Nat
BY HeadTailProperties, LenProperties DEF TypeOK

\* The plane being mapped is one of the buffer's.
LEMMA PlaneIs ==
  ASSUME Inv, NEW which, Mapping(which)
  PROVE  /\ bo \in Bos /\ plane \in DOMAIN bo /\ bo[plane] \in Plane
         /\ bo[plane].handle \in Handles /\ bo[plane].offset \in Nat
         /\ Len(planes) \in Nat /\ Len(planes) < num_planes /\ num_planes \in Nat
         /\ bo[1].handle \in Handles
<1>1. bo \in Bos /\ num_planes \in 1 .. Len(bo)
  BY DEF Inv, Progress, TypeOK, Mapping
<1>2. bo \in Seq(Plane) /\ Len(bo) \in Nat
  BY <1>1, BoIs
<1>3. Len(planes) \in Nat
  BY LenProperties DEF Inv, TypeOK
<1>4. plane \in Nat /\ plane <= num_planes
  BY <1>3 DEF plane, Mapping
<1>5. plane \in 1 .. Len(bo) /\ 1 \in 1 .. Len(bo)
  BY <1>1, <1>2, <1>3, <1>4 DEF plane
<1>6. bo[plane] \in Plane /\ bo[1] \in Plane
  BY <1>2, <1>5, ElementOfSeq
<1>7. /\ bo[plane].handle \in Handles /\ bo[plane].offset \in Nat
      /\ bo[1].handle \in Handles
  BY <1>6 DEF Plane
<1>8. Len(planes) < num_planes /\ num_planes \in Nat
  BY <1>1, <1>2, <1>3, <1>4 DEF plane
<1>9. DOMAIN bo = 1 .. Len(bo)
  BY <1>2, LenProperties
<1> QED
  BY <1>1, <1>3, <1>5, <1>6, <1>7, <1>8, <1>9

----------------------------------------------------------------------------
LEMMA NewDestroyStep ==
  ASSUME Inv, bs_mapper_new \/ bs_mapper_destroy
  PROVE  Inv'
<1>1. /\ UNCHANGED <<kind, bo, num_planes, planes, pc, ptr, prime_fd, counter>>
      /\ UNCHANGED <<memory, picture, started, clean, draws>>
      /\ pc = "idle" /\ mapper' \in BOOLEAN /\ ~prime_fd
  BY DEF bs_mapper_new, bs_mapper_destroy, local, Inv, TypeOK, Descriptors
<1>2. /\ open_fds \in Nat /\ open_fds' \in Int
      /\ open_fds' - Count(mapper' /\ kind = "dumb")
           = open_fds - Count(mapper /\ kind = "dumb")
      /\ Count(mapper /\ kind = "dumb") \in 0 .. 1
      /\ Count(mapper' /\ kind = "dumb") \in 0 .. 1
      /\ Count(prime_fd) = 0
  BY <1>1, CountIs, SMTT(30) DEF Inv, TypeOK, bs_mapper_new, bs_mapper_destroy, Count
<1>3. Descriptors' /\ open_fds' \in Nat
  BY <1>1, <1>2 DEF Inv, Descriptors
<1>4. TypeOK'
  BY <1>1, <1>3 DEF Inv, TypeOK
<1>5. Control' /\ Progress' /\ Accesses'
  BY <1>1 DEF Inv, Control, Progress, Accesses
<1> QED
  BY <1>3, <1>4, <1>5 DEF Inv

LEMMA StartDrawStep ==
  ASSUME Inv, StartDraw
  PROVE  Inv'
<1>1. /\ pc = "idle" /\ pc' = "map" /\ planes = << >> /\ mapper
      /\ UNCHANGED <<kind, mapper, planes, ptr, prime_fd, counter, open_fds>>
      /\ UNCHANGED <<memory, picture, started, clean>>
  BY DEF Inv, Progress, StartDraw
<1>2. bo' \in Bos /\ num_planes' \in 1 .. Len(bo') /\ num_planes' \in Nat
  <2>1. bo' \in Bos /\ num_planes' \in {1, Len(bo')}
    BY DEF StartDraw
  <2> QED
    BY <2>1, BoIs
<1>3. draws' \in 0 .. MaxDraws
  BY MapperAssumption DEF StartDraw, Inv, TypeOK
<1>4. bo' # Null
  BY <1>2, MapperAssumption
<1>5. TypeOK'
  BY <1>1, <1>2, <1>3, <1>4 DEF Inv, TypeOK
<1>6. Len(planes) = 0
  BY <1>1
<1>7. Control' /\ Progress'
  BY <1>1, <1>2, <1>6 DEF Control, Progress
<1>8. Descriptors' /\ Accesses'
  BY <1>1 DEF Inv, Descriptors, Accesses
<1> QED
  BY <1>5, <1>7, <1>8 DEF Inv

\* dma_buf_map: mmap and the descriptor of the plane's object.
LEMMA DmaBufMapStep ==
  ASSUME Inv, DmaBufMap
  PROVE  Inv'
<1>1. /\ pc = "map" /\ pc' = "sync_start" /\ kind = "dma_buf" /\ counter' = 0
      /\ UNCHANGED <<kind, mapper, bo, num_planes, planes, picture, started, draws>>
      /\ open_fds' = open_fds + Count(prime_fd')
  BY DEF DmaBufMap, Mapping
<1>2. /\ bo \in Bos /\ bo[plane].handle \in Handles /\ bo[plane].offset \in Nat
      /\ Len(planes) < num_planes
  BY PlaneIs DEF DmaBufMap
<1>3. /\ prime_fd' \in BOOLEAN /\ clean' \in BOOLEAN /\ (clean' => clean)
      /\ ptr' \in Nat \cup {Null} /\ memory' \in MemoryType
      /\ clean' => prime_fd' /\ ptr' # Null
  <2>1. memory \in MemoryType
    BY DEF Inv, TypeOK, MemoryType
  <2> DEFINE length == dma_buf_length(plane)
  <2>2. ASSUME NEW base \in Rooms(length),
               ptr' = base * PageBytes + bo[plane].offset,
               memory' = Mapped(base, length, bo[plane].handle),
               prime_fd' = TRUE, clean' = clean
        PROVE  <1>3!:
    <3>1. base \in Pages
      BY <2>2 DEF Rooms
    <3>2. ptr' \in Nat
      BY <1>2, <2>2, <3>1, AddressType
    <3>3. ptr' # Null
      BY <3>2, MapperAssumption
    <3>4. memory' \in MemoryType
      BY <1>2, <2>1, <2>2, <3>1, MappedType
    <3> QED
      BY <2>2, <3>2, <3>3, <3>4 DEF Inv, TypeOK
  <2>3. CASE ptr' = Null /\ prime_fd' \in BOOLEAN /\ clean' = FALSE /\ memory' = memory
    BY <2>1, <2>3
  <2> HIDE DEF length
  <2> QED
    BY <2>2, <2>3 DEF DmaBufMap, length
<1>4. /\ ~prime_fd /\ open_fds \in Nat
      /\ Count(prime_fd) = 0 /\ Count(prime_fd') \in 0 .. 1
  BY <1>1, <1>3, CountIs DEF Inv, TypeOK, Descriptors
<1>5. open_fds' \in Nat
  BY <1>1, <1>4
<1>6. TypeOK'
  BY <1>1, <1>3, <1>5, MapperAssumption DEF Inv, TypeOK, MemoryType
<1>7. Control' /\ Progress'
  BY <1>1, <1>2 DEF Inv, Control, Progress
<1>8. Descriptors'
  <2>1. Count(mapper /\ kind = "dumb") \in 0 .. 1
    BY CountIs DEF Inv, TypeOK
  <2> QED
    BY <1>1, <1>3, <1>4, <2>1 DEF Inv, Descriptors
<1>9. Accesses'
  BY <1>1, <1>3 DEF Inv, Accesses
<1> QED
  BY <1>6, <1>7, <1>8, <1>9 DEF Inv

LEMMA InterruptedStep ==
  ASSUME Inv, Interrupted
  PROVE  Inv'
<1>1. counter' \in 0 .. Retries
  BY MapperAssumption DEF Inv, TypeOK, Interrupted, TriesAgain
<1>2. UNCHANGED <<kind, mapper, bo, num_planes, planes, pc, ptr, prime_fd,
                  open_fds, memory, picture, started, clean, draws>>
  BY DEF Interrupted
<1>3. TypeOK'
  BY <1>1, <1>2 DEF Inv, TypeOK
<1> QED
  BY <1>2, <1>3 DEF Inv, Control, Progress, Descriptors, Accesses

\* The descriptor is closed whether the ioctl worked or not, and an access
\* begins or ends, or a system call has failed.
LEMMA SyncIs ==
  ASSUME Inv, NEW change \in {-1, 1}, SyncAndClose(change),
         pc \in {"sync_start", "sync_end"},
         UNCHANGED <<kind, mapper>>
  PROVE  /\ ~prime_fd' /\ prime_fd' \in BOOLEAN
         /\ open_fds' \in Nat /\ started' \in Int /\ clean' \in BOOLEAN
         /\ clean' => clean /\ started' = started + change
         /\ open_fds' >= Count(mapper' /\ kind' = "dumb") + Count(prime_fd')
         /\ open_fds' = Count(mapper' /\ kind' = "dumb") + Count(prime_fd')
<1>1. /\ prime_fd \in BOOLEAN /\ open_fds \in Nat /\ started \in Int
      /\ clean \in BOOLEAN /\ kind # "dumb"
      /\ open_fds = Count(mapper /\ kind = "dumb") + Count(prime_fd)
  BY DEF Inv, TypeOK, Control, Descriptors
<1>2. /\ prime_fd' = FALSE /\ open_fds' = open_fds - Count(prime_fd)
      /\ \/ started' = started + change /\ clean' = clean
         \/ started' = started /\ clean' = FALSE
  BY DEF SyncAndClose
<1>3. /\ Count(prime_fd') = 0 /\ Count(prime_fd) \in 0 .. 1
      /\ Count(mapper /\ kind = "dumb") = 0
      /\ Count(mapper' /\ kind' = "dumb") = 0
  BY <1>1, <1>2, CountIs DEF Count
<1>4. started' \in Int
  <2>1. change \in Int
    OBVIOUS
  <2> QED
    BY <1>1, <1>2, <2>1
<1>5. clean' \in BOOLEAN /\ (clean' => clean /\ started' = started + change)
  <2>1. CASE started' = started + change /\ clean' = clean
    BY <1>1, <2>1
  <2>2. CASE started' = started /\ clean' = FALSE
    BY <2>2
  <2> QED
    BY <1>2, <2>1, <2>2
<1>6. open_fds' = 0
  BY <1>1, <1>2, <1>3
<1>7. /\ open_fds' = Count(mapper' /\ kind' = "dumb") + Count(prime_fd')
      /\ open_fds' \in Nat
  BY <1>3, <1>6
<1>8. open_fds' >= Count(mapper' /\ kind' = "dumb") + Count(prime_fd')
  BY <1>3, <1>6
<1> QED
  BY <1>2, <1>4, <1>5, <1>7, <1>8

LEMMA SyncStartStep ==
  ASSUME Inv, SyncStart
  PROVE  Inv'
<1>1. /\ pc = "sync_start" /\ SyncAndClose(1)
      /\ UNCHANGED <<kind, mapper, bo, num_planes, ptr, counter, memory,
                     picture, draws>>
  BY DEF SyncStart
<1>2. /\ ~prime_fd' /\ prime_fd' \in BOOLEAN
      /\ open_fds' \in Nat /\ started' \in Int /\ clean' \in BOOLEAN
      /\ clean' => clean /\ started' = started + 1
      /\ open_fds' >= Count(mapper' /\ kind' = "dumb") + Count(prime_fd')
      /\ open_fds' = Count(mapper' /\ kind' = "dumb") + Count(prime_fd')
  BY <1>1, SyncIs
<1>3. /\ bo \in Bos /\ bo # Null /\ mapper /\ num_planes \in 1 .. Len(bo)
      /\ kind = "dma_buf" /\ Len(planes) < num_planes
      /\ num_planes \in Nat /\ Len(planes) \in Nat
  BY <1>1, LenProperties DEF Inv, TypeOK, Control, Progress
<1>4. CASE ptr = Null
  <2>1. pc' = "unmap" /\ planes' = planes /\ ~clean'
    BY <1>1, <1>2, <1>4 DEF SyncStart, MapFailed, Inv, Accesses
  <2>2. TypeOK'
    BY <1>1, <1>2, <1>3, <2>1 DEF Inv, TypeOK
  <2>3. Control' /\ Progress'
    BY <1>1, <1>3, <2>1 DEF Control, Progress
  <2>4. Descriptors' /\ Accesses'
    BY <1>2, <2>1 DEF Descriptors, Accesses
  <2> QED
    BY <2>2, <2>3, <2>4 DEF Inv
<1>5. CASE ptr # Null
  <2>1. ptr \in Nat /\ KeepPlane(ptr) /\ pc' = "map"
    BY <1>5 DEF SyncStart, KeepPlane, Inv, TypeOK
  <2>2. /\ planes' \in Seq([plane_index : Nat, ptr : Nat])
        /\ Len(planes') = Len(planes) + 1
    BY <2>1, PlaneMore DEF Inv
  <2>3. TypeOK'
    BY <1>1, <1>2, <1>3, <2>1, <2>2 DEF Inv, TypeOK
  <2>4. Control' /\ Progress'
    BY <1>1, <1>3, <2>1, <2>2 DEF Control, Progress
  <2>5. Descriptors' /\ Accesses'
    BY <1>1, <1>2, <1>3, <2>1, <2>2 DEF Inv, Descriptors, Accesses
  <2> QED
    BY <2>3, <2>4, <2>5 DEF Inv
<1> QED
  BY <1>4, <1>5

\* gem_map and dumb_map keep no descriptor, but where dumb_map fails.
LEMMA GemDumbMapStep ==
  ASSUME Inv, GemMap \/ DumbMap \/ RefusePlane
  PROVE  Inv'
<1>1. /\ pc = "map" /\ kind \in {"gem", "dumb"} /\ Mapping(kind)
      /\ UNCHANGED <<kind, mapper, bo, num_planes, ptr, prime_fd, counter,
                     picture, started, draws>>
  BY DEF GemMap, DumbMap, RefusePlane, Mapping
<1>2. /\ bo \in Bos /\ bo # Null
      /\ bo[plane].handle \in Handles /\ bo[plane].offset \in Nat
      /\ bo[1].handle \in Handles
      /\ Len(planes) < num_planes /\ num_planes \in Nat /\ Len(planes) \in Nat
  BY <1>1, PlaneIs, MapperAssumption
<1>3. /\ mapper /\ ~prime_fd /\ num_planes \in 1 .. Len(bo) /\ open_fds \in Nat
      /\ Count(prime_fd) = 0 /\ Count(mapper /\ kind = "dumb") \in 0 .. 1
  BY <1>1, CountIs DEF Inv, TypeOK, Control, Descriptors, Progress
<1>4. /\ memory' \in MemoryType /\ clean' \in BOOLEAN /\ (clean' => clean)
      /\ \/ pc' = "map" /\ \E base \in Nat : KeepPlane(base)
         \/ pc' = "unmap" /\ planes' = planes
      /\ \/ open_fds' = open_fds
         \/ open_fds' = open_fds + 1 /\ ~clean' /\ kind = "dumb"
  <2>1. memory \in MemoryType /\ clean \in BOOLEAN
    BY DEF Inv, TypeOK, MemoryType
  <2>2. ASSUME NEW length, NEW base \in Rooms(length), NEW handle \in Handles
        PROVE  base \in Pages /\ Mapped(base, length, handle) \in MemoryType
    <3>1. base \in Pages
      BY DEF Rooms
    <3> QED
      BY <2>1, <3>1, MappedType
  <2>3. CASE GemMap
    <3>1. CASE clean' = FALSE /\ MapFailed /\ memory' = memory
      BY <2>1, <2>3, <3>1 DEF GemMap, MapFailed
    <3>2. ASSUME NEW base \in Rooms(bo[plane].offset + bo[plane].size),
                 memory' = Mapped(base, bo[plane].offset + bo[plane].size,
                                  bo[plane].handle),
                 KeepPlane(base * PageBytes + bo[plane].offset),
                 clean' = clean
          PROVE  <1>4!:
      <4>1. base * PageBytes + bo[plane].offset \in Nat
        BY <1>2, <2>2, AddressType
      <4>2. memory' \in MemoryType
        BY <1>2, <2>2, <3>2
      <4> QED
        BY <2>1, <2>3, <3>2, <4>1, <4>2 DEF GemMap, KeepPlane
    <3> QED
      BY <2>3, <3>1, <3>2 DEF GemMap
  <2>4. CASE DumbMap
    <3>1. CASE /\ open_fds' \in {open_fds, open_fds + 1}
               /\ clean' = FALSE /\ MapFailed /\ memory' = memory
      BY <2>1, <2>4, <3>1 DEF DumbMap, MapFailed, Mapping
    <3>2. ASSUME NEW base \in Rooms(bo[1].size),
                 memory' = Mapped(base, bo[1].size, bo[1].handle),
                 KeepPlane(base * PageBytes),
                 open_fds' = open_fds, clean' = clean
          PROVE  <1>4!:
      <4>1. base * PageBytes \in Nat
        <5>1. base \in Pages /\ 0 \in Nat
          BY <1>2, <2>2
        <5> QED
          BY <5>1, AddressType
      <4>2. memory' \in MemoryType
        BY <1>2, <2>2, <3>2
      <4> QED
        BY <2>1, <2>4, <3>2, <4>1, <4>2 DEF KeepPlane
    <3> QED
      BY <2>4, <3>1, <3>2 DEF DumbMap
  <2>5. CASE RefusePlane
    BY <2>1, <2>5 DEF RefusePlane, MapFailed
  <2> QED
    BY <2>3, <2>4, <2>5
<1>5. Descriptors' /\ open_fds' \in Nat
  BY <1>1, <1>3, <1>4 DEF Inv, Descriptors
<1>6. CASE pc' = "map" /\ \E base \in Nat : KeepPlane(base)
  <2>1. /\ planes' \in Seq([plane_index : Nat, ptr : Nat])
        /\ Len(planes') = Len(planes) + 1
    BY <1>6, PlaneMore DEF Inv
  <2>2. TypeOK'
    BY <1>1, <1>2, <1>4, <1>5, <1>6, <2>1 DEF Inv, TypeOK, MemoryType
  <2>3. Control' /\ Progress' /\ Accesses'
    BY <1>1, <1>2, <1>3, <1>6, <2>1 DEF Inv, Control, Progress, Accesses
  <2> QED
    BY <1>5, <2>2, <2>3 DEF Inv
<1>7. CASE pc' = "unmap" /\ planes' = planes
  <2>1. TypeOK'
    BY <1>1, <1>2, <1>4, <1>5, <1>7 DEF Inv, TypeOK, MemoryType
  <2>2. Control' /\ Progress' /\ Accesses'
    BY <1>1, <1>2, <1>3, <1>7 DEF Inv, Control, Progress, Accesses
  <2> QED
    BY <1>5, <2>1, <2>2 DEF Inv
<1> QED
  BY <1>4, <1>6, <1>7

LEMMA AllMappedStep ==
  ASSUME Inv, AllMapped
  PROVE  Inv'
<1>1. /\ pc = "map" /\ pc' = "draw"
      /\ UNCHANGED <<kind, mapper, bo, num_planes, planes, ptr, prime_fd, counter,
                     open_fds, memory, picture, started, clean, draws>>
  BY DEF AllMapped
<1>2. Len(planes) = num_planes
  BY LenProperties DEF AllMapped, plane, Inv, TypeOK, Progress
<1>3. TypeOK'
  BY <1>1 DEF Inv, TypeOK
<1> QED
  BY <1>1, <1>2, <1>3 DEF Inv, Control, Progress, Descriptors, Accesses

LEMMA DrawStep ==
  ASSUME Inv, Draw
  PROVE  Inv'
<1>1. /\ pc = "draw" /\ pc' = "unmap"
      /\ UNCHANGED <<kind, mapper, bo, num_planes, planes, ptr, prime_fd, counter,
                     open_fds, memory, started, clean, draws>>
  BY DEF Draw
<1>2. picture'.format \in DOMAIN bs_draw_formats \cup {Null}
  <2>1. bo \in Bos
    BY <1>1 DEF Inv, TypeOK
  <2>2. Shape.formats \subseteq DOMAIN bs_draw_formats
    BY <2>1, MapperAssumption DEF Shape
  <2>3. CASE num_planes = Len(bo)
    <3>1. PICK format \in Shape.formats : picture' =
              [ format |-> format,
                bytes |-> { <<PlaceAt(planes[w.plane].ptr + w.byte), w.what>> :
                            w \in Written(format, Shape.width, Shape.height,
                                         Strides) } ]
      BY <2>3 DEF Draw
    <3>2. picture'.format = format
      BY <3>1
    <3> QED
      BY <2>2, <3>2
  <2>4. CASE num_planes # Len(bo)
    BY <2>4 DEF Draw, Inv, TypeOK
  <2> QED
    BY <2>3, <2>4
<1>3. TypeOK'
  BY <1>1, <1>2 DEF Inv, TypeOK
<1> QED
  BY <1>1, <1>3 DEF Inv, Control, Progress, Descriptors, Accesses

\* dma_buf_unmap: a descriptor for the ioctl, if there is one to be had.
LEMMA DmaBufUnmapStep ==
  ASSUME Inv, DmaBufUnmap
  PROVE  Inv'
<1>1. /\ pc = "unmap" /\ kind = "dma_buf" /\ planes # << >>
      /\ pc' = "sync_end" /\ counter' = 0
      /\ prime_fd' \in BOOLEAN /\ open_fds' = open_fds + Count(prime_fd')
      /\ clean' = (clean /\ prime_fd')
      /\ UNCHANGED <<kind, mapper, bo, num_planes, planes, ptr, memory, picture,
                     started, draws>>
  BY DEF DmaBufUnmap, Unmapping
<1>2. /\ ~prime_fd /\ open_fds \in Nat
      /\ Count(prime_fd) = 0 /\ Count(prime_fd') \in 0 .. 1
      /\ Count(mapper /\ kind = "dumb") \in 0 .. 1
  BY <1>1, CountIs DEF Inv, TypeOK, Descriptors
<1>3. open_fds' \in Nat
  BY <1>1, <1>2
<1>4. clean' \in BOOLEAN
  BY <1>1
<1>5. TypeOK'
  BY <1>1, <1>3, <1>4, MapperAssumption DEF Inv, TypeOK
<1>6. Control' /\ Progress'
  BY <1>1 DEF Inv, Control, Progress
<1>7. Descriptors'
  BY <1>1, <1>2 DEF Inv, Descriptors
<1>8. Accesses'
  BY <1>1 DEF Inv, Accesses
<1> QED
  BY <1>5, <1>6, <1>7, <1>8 DEF Inv

LEMMA SyncEndStep ==
  ASSUME Inv, SyncEnd
  PROVE  Inv'
<1>1. /\ pc = "sync_end" /\ pc' = "unmap" /\ SyncAndClose(-1)
      /\ planes' = Tail(planes)
      /\ UNCHANGED <<kind, mapper, bo, num_planes, ptr, counter, picture, draws>>
  BY DEF SyncEnd
<1>2. /\ ~prime_fd' /\ prime_fd' \in BOOLEAN
      /\ open_fds' \in Nat /\ started' \in Int /\ clean' \in BOOLEAN
      /\ clean' => clean /\ started' = started + (-1)
      /\ open_fds' >= Count(mapper' /\ kind' = "dumb") + Count(prime_fd')
      /\ open_fds' = Count(mapper' /\ kind' = "dumb") + Count(prime_fd')
  BY <1>1, SyncIs
<1>3. /\ planes' \in Seq([plane_index : Nat, ptr : Nat])
      /\ Len(planes') = Len(planes) - 1 /\ Len(planes) \in Nat
  BY <1>1, PlaneLess DEF Inv, Progress
<1>4. memory' \in MemoryType
  BY UnmappedType DEF SyncEnd, Inv, TypeOK, MemoryType
<1>5. TypeOK'
  BY <1>1, <1>2, <1>3, <1>4 DEF Inv, TypeOK, MemoryType
<1>6. Control' /\ Progress'
  BY <1>1 DEF Inv, Control, Progress
<1>7. Descriptors'
  BY <1>2 DEF Descriptors
<1>8. Accesses'
  BY <1>1, <1>2, <1>3 DEF Inv, TypeOK, Control, Accesses
<1> QED
  BY <1>5, <1>6, <1>7, <1>8 DEF Inv

LEMMA GemDumbUnmapStep ==
  ASSUME Inv, GemUnmap \/ DumbUnmap
  PROVE  Inv'
<1>1. /\ pc = "unmap" /\ kind # "dma_buf" /\ planes # << >>
      /\ planes' = Tail(planes)
      /\ UNCHANGED <<kind, mapper, bo, num_planes, pc, ptr, prime_fd, counter,
                     open_fds, picture, started, clean, draws>>
  BY DEF GemUnmap, DumbUnmap, Unmapping
<1>2. planes' \in Seq([plane_index : Nat, ptr : Nat])
  BY <1>1, PlaneLess DEF Inv, Progress
<1>3. memory' \in MemoryType
  BY UnmappedType DEF GemUnmap, DumbUnmap, Inv, TypeOK, MemoryType
<1>4. TypeOK'
  BY <1>1, <1>2, <1>3 DEF Inv, TypeOK, MemoryType
<1> QED
  BY <1>1, <1>4 DEF Inv, Control, Progress, Descriptors, Accesses

LEMMA ReturnStep ==
  ASSUME Inv, Return
  PROVE  Inv'
<1>1. /\ pc = "unmap" /\ pc' = "idle" /\ planes = << >>
      /\ bo' = Null /\ num_planes' = 0 /\ ptr' = Null /\ counter' = 0
      /\ picture'.format = Null
      /\ UNCHANGED <<kind, mapper, planes, prime_fd, open_fds, memory, started,
                     clean, draws>>
  BY DEF Return, NoPicture
<1>2. TypeOK'
  BY <1>1, MapperAssumption DEF Inv, TypeOK
<1> QED
  BY <1>1, <1>2 DEF Inv, Control, Progress, Descriptors, Accesses

LEMMA NextInv == Inv /\ [Next]_vars => Inv'
<1> SUFFICES ASSUME Inv, [Next]_vars PROVE Inv'
  OBVIOUS
<1>1. CASE UNCHANGED vars
  BY <1>1
  DEF Inv, TypeOK, Control, Progress, Descriptors, Accesses, vars, local
<1>2. CASE Next
  BY <1>2, NewDestroyStep, StartDrawStep, DmaBufMapStep, InterruptedStep,
     SyncStartStep, GemDumbMapStep, AllMappedStep, DrawStep, DmaBufUnmapStep,
     SyncEndStep, GemDumbUnmapStep, ReturnStep
  DEF Next, Step
<1> QED
  BY <1>1, <1>2

LEMMA Invariance == Spec => []Inv
BY InitInv, NextInv, PTL DEF Spec

----------------------------------------------------------------------------
\* The calls keep to the types: interrupted ioctls are counted up to the bound
\* of HANDLE_EINTR and no further, no descriptor is closed that is not open.
THEOREM MapperTypeCorrect == Spec => []TypeOK
<1>1. Inv => TypeOK
  BY DEF Inv
<1> QED
  BY <1>1, Invariance, PTL

\* The mappers of mmap.c give back their descriptors, and dma_buf_unmap ends
\* every access dma_buf_map started, for every buffer and pattern of failures.
THEOREM DescriptorsAndAccessesEnd == Spec => []NothingLeftOpen
<1>1. ASSUME Inv, pc = "idle", kind # "dumb" \/ clean
      PROVE  open_fds = Count(mapper /\ kind = "dumb")
  <2>1. Count(prime_fd) = 0 /\ Count(mapper /\ kind = "dumb") \in 0 .. 1
    BY <1>1, CountIs DEF Inv, TypeOK, Descriptors
  <2> QED
    BY <1>1, <2>1 DEF Inv, Descriptors
<1>2. ASSUME Inv, clean, kind = "dma_buf"
      PROVE  /\ pc = "draw" => started = num_planes
             /\ pc = "idle" => started = 0
  BY <1>2, EmptySeq DEF Inv, Progress, Accesses
<1>3. Inv => NothingLeftOpen
  BY <1>1, <1>2 DEF NothingLeftOpen
<1> QED
  BY <1>3, Invariance, PTL

----------------------------------------------------------------------------
\* The formats: the table of draw.c against the fourcc codes.

\* How often a component has a sample in a block of its plane.
Repeats(comp, block) == IF comp.horizontal = block.columns THEN 1 ELSE 2

\* Sample r of a component within a block is this byte, of these columns.
ByteIn(comp, r) == comp.offset + comp.skip * r + 1
ColumnsIn(comp, r) == comp.horizontal * r .. comp.horizontal * r + comp.horizontal - 1

\* A component of a format's table describes bytes of the block of its plane.
Describes(comp, layout) ==
  /\ comp.plane \in Nat /\ comp.plane + 1 \in DOMAIN layout
  /\ comp.vertical \in Nat /\ comp.skip \in Nat /\ comp.offset \in Nat
  /\ comp.value # "x"
  /\ LET block == layout[comp.plane + 1] IN
     /\ <<comp.horizontal, block.columns>> \in {<<1, 1>>, <<1, 2>>, <<2, 2>>}
     /\ comp.vertical = block.rows
     /\ Len(block.bytes) = comp.skip * Repeats(comp, block)
     /\ \A r \in 0 .. Repeats(comp, block) - 1 :
          /\ ByteIn(comp, r) \in DOMAIN block.bytes
          /\ block.bytes[ByteIn(comp, r)] = <<comp.value, ColumnsIn(comp, r)>>

\* Every byte of the block that is used is described.
Described(comps, layout) ==
  \A p \in DOMAIN layout : \A b \in DOMAIN layout[p].bytes :
    layout[p].bytes[b][1] # "x" =>
      \E c \in DOMAIN comps :
        /\ comps[c].plane + 1 = p
        /\ \E r \in 0 .. Repeats(comps[c], layout[p]) - 1 : b = ByteIn(comps[c], r)

\* A sample is made of the pixels of its columns and rows.
Pixels(x, y, cs, width, columns, rows) ==
  { (y * rows + j) * width + x * columns + i : i \in cs, j \in 0 .. rows - 1 }

LEMMA SamplesArePixels ==
  ASSUME NEW comp, NEW block,
         <<comp.horizontal, block.columns>> \in {<<1, 1>>, <<1, 2>>, <<2, 2>>},
         comp.vertical \in Nat, comp.vertical = block.rows,
         NEW r \in 0 .. Repeats(comp, block) - 1,
         NEW x \in Nat, NEW y \in Nat, NEW width \in Nat
  PROVE  Samples(comp, Repeats(comp, block) * x + r, y, width)
           = Pixels(x, y, ColumnsIn(comp, r), width, block.columns, block.rows)
<1>1. PICK h, k, cs, left, right :
        /\ h = comp.horizontal /\ k = Repeats(comp, block) /\ cs = ColumnsIn(comp, r)
        /\ left = Samples(comp, Repeats(comp, block) * x + r, y, width)
        /\ right = Pixels(x, y, ColumnsIn(comp, r), width, block.columns, block.rows)
  OBVIOUS
<1>2. /\ k = (IF h = block.columns THEN 1 ELSE 2) /\ r \in 0 .. k - 1
      /\ cs = h * r .. h * r + h - 1
      /\ <<h, block.columns>> \in {<<1, 1>>, <<1, 2>>, <<2, 2>>}
  BY <1>1 DEF Repeats, ColumnsIn
<1>3. ASSUME NEW n \in Nat
      PROVE  /\ \A i \in 0 .. h - 1 :
                  /\ h * r + i \in cs
                  /\ n + (k * x + r) * h + i = n + x * block.columns + (h * r + i)
             /\ \A i \in cs :
                  /\ i - h * r \in 0 .. h - 1
                  /\ n + (k * x + r) * h + (i - h * r) = n + x * block.columns + i
  <2>1. PICK columns : columns = block.columns
    OBVIOUS
  <2>2. CASE h = 1 /\ columns = 1
    BY <1>2, <2>1, <2>2
  <2>3. CASE h = 1 /\ columns = 2
    BY <1>2, <2>1, <2>3
  <2>4. CASE h = 2 /\ columns = 2
    BY <1>2, <2>1, <2>4
  <2> QED
    BY <1>2, <2>1, <2>2, <2>3, <2>4
<1>4. \A j \in 0 .. block.rows - 1 : (y * block.rows + j) * width \in Nat
  <2>1. \A j \in 0 .. block.rows - 1 : y * block.rows + j \in Nat
    OBVIOUS
  <2> QED
    BY <2>1
<1>5. left = { (y * block.rows + j) * width + (k * x + r) * h + i :
                 i \in 0 .. h - 1, j \in 0 .. block.rows - 1 }
  BY <1>1 DEF Samples
<1>6. right = { (y * block.rows + j) * width + x * block.columns + i :
                  i \in cs, j \in 0 .. block.rows - 1 }
  BY <1>1 DEF Pixels
<1>7. ASSUME NEW e \in left PROVE e \in right
  <2>1. PICK i \in 0 .. h - 1, j \in 0 .. block.rows - 1 :
           e = (y * block.rows + j) * width + (k * x + r) * h + i
    BY <1>5
  <2>2. PICK n \in Nat : n = (y * block.rows + j) * width
    BY <1>4
  <2>3. h * r + i \in cs /\ e = n + x * block.columns + (h * r + i)
    BY <1>3, <2>1, <2>2
  <2> QED
    BY <1>6, <2>2, <2>3
<1>8. ASSUME NEW e \in right PROVE e \in left
  <2>1. PICK i \in cs, j \in 0 .. block.rows - 1 :
           e = (y * block.rows + j) * width + x * block.columns + i
    BY <1>6
  <2>2. PICK n \in Nat : n = (y * block.rows + j) * width
    BY <1>4
  <2>3. i - h * r \in 0 .. h - 1 /\ e = n + (k * x + r) * h + (i - h * r)
    BY <1>3, <2>1, <2>2
  <2> QED
    BY <1>5, <2>2, <2>3
<1>9. left = right
  BY <1>7, <1>8
<1> QED
  BY <1>1, <1>9

\* Blocks are counted along a row by the samples of a component: sample x is
\* sample r of block z.
LEMMA SamplesOfBlocks ==
  ASSUME NEW comp, NEW block, NEW width \in Nat,
         <<comp.horizontal, block.columns>> \in {<<1, 1>>, <<1, 2>>, <<2, 2>>},
         width % block.columns = 0
  PROVE  /\ \A x \in 0 .. width \div comp.horizontal - 1 :
              \E z \in 0 .. width \div block.columns - 1,
                 r \in 0 .. Repeats(comp, block) - 1 : x = Repeats(comp, block) * z + r
         /\ \A z \in 0 .. width \div block.columns - 1,
               r \in 0 .. Repeats(comp, block) - 1 :
              Repeats(comp, block) * z + r \in 0 .. width \div comp.horizontal - 1
<1>1. PICK h, columns, k :
        h = comp.horizontal /\ columns = block.columns /\ k = Repeats(comp, block)
  OBVIOUS
<1>2. k = (IF h = columns THEN 1 ELSE 2)
  BY <1>1 DEF Repeats
<1>3. CASE h = 1 /\ columns = 1
  <2>1. \A x \in 0 .. width \div 1 - 1 :
          /\ x \in 0 .. width \div 1 - 1 /\ 0 \in 0 .. 1 - 1 /\ x = 1 * x + 0
    OBVIOUS
  <2>2. \A z \in 0 .. width \div 1 - 1, r \in 0 .. 1 - 1 :
          1 * z + r \in 0 .. width \div 1 - 1
    OBVIOUS
  <2> QED
    BY <1>1, <1>2, <1>3, <2>1, <2>2
<1>4. CASE h = 1 /\ columns = 2
  <2>1. \A x \in 0 .. width \div 1 - 1 :
          /\ x \div 2 \in 0 .. width \div 2 - 1 /\ x % 2 \in 0 .. 2 - 1
          /\ x = 2 * (x \div 2) + (x % 2)
    BY <1>1, <1>4
  <2>2. \A z \in 0 .. width \div 2 - 1, r \in 0 .. 2 - 1 :
          2 * z + r \in 0 .. width \div 1 - 1
    BY <1>1, <1>4
  <2>3. \A x \in 0 .. width \div 1 - 1 :
          \E z \in 0 .. width \div 2 - 1, r \in 0 .. 2 - 1 : x = 2 * z + r
    <3>1. ASSUME NEW x \in 0 .. width \div 1 - 1
          PROVE  \E z \in 0 .. width \div 2 - 1, r \in 0 .. 2 - 1 : x = 2 * z + r
      <4>1. PICK z, r : z = x \div 2 /\ r = x % 2
        OBVIOUS
      <4>2. z \in 0 .. width \div 2 - 1 /\ r \in 0 .. 2 - 1 /\ x = 2 * z + r
        BY <2>1, <4>1
      <4> QED
        BY <4>2
    <3> QED
      BY <3>1
  <2>4. h = 1 /\ columns = 2 /\ k = 2
    BY <1>2, <1>4
  <2> QED
    BY <1>1, <2>2, <2>3, <2>4
<1>5. CASE h = 2 /\ columns = 2
  <2>1. \A x \in 0 .. width \div 2 - 1 :
          /\ x \in 0 .. width \div 2 - 1 /\ 0 \in 0 .. 1 - 1 /\ x = 1 * x + 0
    OBVIOUS
  <2>2. \A z \in 0 .. width \div 2 - 1, r \in 0 .. 1 - 1 :
          1 * z + r \in 0 .. width \div 2 - 1
    OBVIOUS
  <2> QED
    BY <1>1, <1>2, <1>5, <2>1, <2>2
<1> QED
  BY <1>1, <1>3, <1>4, <1>5

\* The byte that draw_color computes for a sample is the byte of the block.
LEMMA ByteOfBlock ==
  ASSUME NEW k \in {1, 2}, NEW skip \in Nat, NEW offset \in Nat, NEW len,
         len = skip * k, NEW r \in 0 .. k - 1, NEW z \in Nat, NEW row \in Nat
  PROVE  offset + row + (k * z + r) * skip = row + len * z + (offset + skip * r + 1) - 1
<1>1. CASE k = 1
  <2>1. r = 0 /\ len = skip
    BY <1>1
  <2> QED
    BY <1>1, <2>1
<1>2. CASE k = 2
  <2>1. r \in {0, 1} /\ len = 2 * skip
    BY <1>2
  <2>2. CASE r = 0
    BY <1>2, <2>1, <2>2
  <2>3. CASE r = 1
    BY <1>2, <2>1, <2>3
  <2> QED
    BY <2>1, <2>2, <2>3
<1> QED
  BY <1>1, <1>2

\* What draw_color writes, and what the layouts have, one by one.
WrittenBy(comp, x, y, width, strides) ==
  [ plane |-> comp.plane + 1,
    byte |-> ByteOf(comp, x, y, strides[comp.plane + 1]),
    what |-> <<comp.value, Samples(comp, x, y, width)>> ]

LaidByte(block, x, y, b, stride) == stride * y + Len(block.bytes) * x + b - 1

LaidOut(p, block, x, y, b, width, stride) ==
  [ plane |-> p,
    byte |-> LaidByte(block, x, y, b, stride),
    what |-> << block.bytes[b][1],
                Pixels(x, y, block.bytes[b][2], width, block.columns, block.rows) >> ]

LEMMA WrittenElements ==
  ASSUME NEW format, NEW width, NEW height, NEW strides, NEW e
  PROVE  e \in Written(format, width, height, strides) <=>
           \E c \in DOMAIN bs_draw_formats[format] :
             LET comp == bs_draw_formats[format][c] IN
             \E x \in 0 .. width \div comp.horizontal - 1,
                y \in 0 .. height \div comp.vertical - 1 :
               e = WrittenBy(comp, x, y, width, strides)
<1>1. PICK comps : comps = bs_draw_formats[format]
  OBVIOUS
<1> DEFINE Of(comp) ==
             { WrittenBy(comp, x, y, width, strides) :
               x \in 0 .. width \div comp.horizontal - 1,
               y \in 0 .. height \div comp.vertical - 1 }
<1>2. Written(format, width, height, strides)
        = UNION { Of(comp) : comp \in {comps[c] : c \in DOMAIN comps} }
  BY <1>1 DEF Written, WrittenBy
<1>3. \A comp : e \in Of(comp) <=>
        \E x \in 0 .. width \div comp.horizontal - 1,
           y \in 0 .. height \div comp.vertical - 1 :
          e = WrittenBy(comp, x, y, width, strides)
  OBVIOUS
<1> HIDE DEF Of
<1>4. e \in UNION { Of(comp) : comp \in {comps[c] : c \in DOMAIN comps} }
        <=> \E c \in DOMAIN comps : e \in Of(comps[c])
  OBVIOUS
<1> QED
  BY <1>1, <1>2, <1>3, <1>4

LEMMA LaidOutElements ==
  ASSUME NEW format, NEW p, NEW width, NEW height, NEW stride, NEW e
  PROVE  e \in PlaneLayout(format, p, width, height, stride) <=>
           LET block == FourccLayout[format][p] IN
           \E x \in 0 .. width \div block.columns - 1,
              y \in 0 .. height \div block.rows - 1,
              b \in {c \in DOMAIN block.bytes : block.bytes[c][1] # "x"} :
             e = LaidOut(p, block, x, y, b, width, stride)
<1>1. PICK block, used :
        /\ block = FourccLayout[format][p]
        /\ used = {c \in DOMAIN block.bytes : block.bytes[c][1] # "x"}
  OBVIOUS
<1>2. PlaneLayout(format, p, width, height, stride)
        = { LaidOut(p, block, x, y, b, width, stride) :
            x \in 0 .. width \div block.columns - 1,
            y \in 0 .. height \div block.rows - 1, b \in used }
  BY <1>1 DEF PlaneLayout, LaidOut, LaidByte, Pixels
<1>3. e \in PlaneLayout(format, p, width, height, stride) <=>
        \E x \in 0 .. width \div block.columns - 1,
           y \in 0 .. height \div block.rows - 1, b \in used :
          e = LaidOut(p, block, x, y, b, width, stride)
  BY <1>2
<1> QED
  BY <1>1, <1>3

\* What draw_color writes for a sample is what the layout has there.
LEMMA SampleIsLaidOut ==
  ASSUME NEW comp, NEW layout, Describes(comp, layout),
         NEW width \in Nat, NEW y \in Nat, NEW z \in Nat, NEW strides,
         strides[comp.plane + 1] \in Nat,
         NEW r \in 0 .. Repeats(comp, layout[comp.plane + 1]) - 1
  PROVE  WrittenBy(comp, Repeats(comp, layout[comp.plane + 1]) * z + r, y, width, strides)
           = LaidOut(comp.plane + 1, layout[comp.plane + 1], z, y, ByteIn(comp, r), width,
                     strides[comp.plane + 1])
<1>1. PICK block, stride, b :
        /\ block = layout[comp.plane + 1] /\ stride = strides[comp.plane + 1]
        /\ b = ByteIn(comp, r)
  OBVIOUS
<1>2. /\ comp.vertical \in Nat /\ comp.skip \in Nat /\ comp.offset \in Nat
      /\ <<comp.horizontal, block.columns>> \in {<<1, 1>>, <<1, 2>>, <<2, 2>>}
      /\ comp.vertical = block.rows
      /\ Len(block.bytes) = comp.skip * Repeats(comp, block)
      /\ block.bytes[b] = <<comp.value, ColumnsIn(comp, r)>>
  BY <1>1 DEF Describes
<1>3. r \in 0 .. Repeats(comp, block) - 1 /\ stride \in Nat
  BY <1>1
<1>4. Samples(comp, Repeats(comp, block) * z + r, y, width)
        = Pixels(z, y, ColumnsIn(comp, r), width, block.columns, block.rows)
  BY <1>2, <1>3, SamplesArePixels
<1>5. ByteOf(comp, Repeats(comp, block) * z + r, y, stride)
        = LaidByte(block, z, y, b, stride)
  <2>1. PICK k, skip, offset, row, len :
          /\ k = Repeats(comp, block) /\ skip = comp.skip /\ offset = comp.offset
          /\ row = stride * y /\ len = Len(block.bytes)
    OBVIOUS
  <2>2. row \in Nat
    BY <1>3, <2>1
  <2>3. k \in {1, 2} /\ skip \in Nat /\ offset \in Nat /\ len = skip * k /\ r \in 0 .. k - 1
    BY <1>2, <1>3, <2>1 DEF Repeats
  <2>4. offset + row + (k * z + r) * skip = row + len * z + (offset + skip * r + 1) - 1
    BY <2>2, <2>3, ByteOfBlock
  <2> QED
    BY <1>1, <2>1, <2>4 DEF ByteOf, ByteIn, LaidByte
<1>6. block.bytes[b][1] = comp.value /\ block.bytes[b][2] = ColumnsIn(comp, r)
  BY <1>2
<1> QED
  BY <1>1, <1>4, <1>5, <1>6 DEF WrittenBy, LaidOut

\* draw_color writes exactly the bytes of a format, each from its pixels, if the
\* format's table describes the format's blocks.
LEMMA DescribedIsWritten ==
  ASSUME NEW format, NEW width \in Nat, NEW height \in Nat, NEW strides,
         \A c \in DOMAIN bs_draw_formats[format] :
           Describes(bs_draw_formats[format][c], FourccLayout[format]),
         Described(bs_draw_formats[format], FourccLayout[format]),
         \A p \in DOMAIN FourccLayout[format] :
           /\ strides[p] \in Nat
           /\ width % FourccLayout[format][p].columns = 0
  PROVE  Written(format, width, height, strides)
           = UNION { PlaneLayout(format, p, width, height, strides[p]) :
                     p \in DOMAIN FourccLayout[format] }
<1>1. PICK comps, layout :
        comps = bs_draw_formats[format] /\ layout = FourccLayout[format]
  OBVIOUS
<1>2. ASSUME NEW e \in Written(format, width, height, strides)
      PROVE  \E p \in DOMAIN layout :
               e \in PlaneLayout(format, p, width, height, strides[p])
  <2>1. PICK c \in DOMAIN comps :
          \E x \in 0 .. width \div comps[c].horizontal - 1,
             y \in 0 .. height \div comps[c].vertical - 1 :
            e = WrittenBy(comps[c], x, y, width, strides)
    BY <1>1, WrittenElements
  <2>2. PICK comp : comp = comps[c]
    OBVIOUS
  <2>3. PICK x \in 0 .. width \div comp.horizontal - 1,
             y \in 0 .. height \div comp.vertical - 1 :
          e = WrittenBy(comp, x, y, width, strides)
    BY <2>1, <2>2
  <2>4. Describes(comp, layout)
    BY <1>1, <2>2
  <2>5. PICK p, block : p = comp.plane + 1 /\ block = layout[p]
    OBVIOUS
  <2>6. /\ p \in DOMAIN layout /\ comp.value # "x"
        /\ <<comp.horizontal, block.columns>> \in {<<1, 1>>, <<1, 2>>, <<2, 2>>}
        /\ comp.vertical = block.rows
    BY <2>4, <2>5 DEF Describes
  <2>7. strides[p] \in Nat /\ width % block.columns = 0
    BY <1>1, <2>5, <2>6
  <2>8. PICK z \in 0 .. width \div block.columns - 1, r \in 0 .. Repeats(comp, block) - 1 :
          x = Repeats(comp, block) * z + r
    BY <2>6, <2>7, SamplesOfBlocks
  <2>9. z \in Nat /\ y \in Nat
    BY <2>6
  <2>10. e = LaidOut(p, block, z, y, ByteIn(comp, r), width, strides[p])
    BY <2>3, <2>4, <2>5, <2>7, <2>8, <2>9, SampleIsLaidOut
  <2>11. /\ ByteIn(comp, r) \in DOMAIN block.bytes
         /\ block.bytes[ByteIn(comp, r)][1] = comp.value
    <3>1. \A i \in 0 .. Repeats(comp, block) - 1 :
            /\ ByteIn(comp, i) \in DOMAIN block.bytes
            /\ block.bytes[ByteIn(comp, i)] = <<comp.value, ColumnsIn(comp, i)>>
      BY <2>4, <2>5, Zenon DEF Describes
    <3>2. block.bytes[ByteIn(comp, r)] = <<comp.value, ColumnsIn(comp, r)>>
      BY <2>8, <3>1, Zenon
    <3> QED
      BY <2>8, <3>1, <3>2
  <2>12. ByteIn(comp, r) \in {b \in DOMAIN block.bytes : block.bytes[b][1] # "x"}
    BY <2>6, <2>11
  <2>13. y \in 0 .. height \div block.rows - 1
    BY <2>6
  <2>14. e \in PlaneLayout(format, p, width, height, strides[p])
    BY <1>1, <2>5, <2>10, <2>12, <2>13, LaidOutElements
  <2> QED
    BY <2>6, <2>14
<1>3. ASSUME NEW p \in DOMAIN layout,
             NEW e \in PlaneLayout(format, p, width, height, strides[p])
      PROVE  e \in Written(format, width, height, strides)
  <2>1. PICK block : block = layout[p]
    OBVIOUS
  <2>2. PICK z \in 0 .. width \div block.columns - 1,
             y \in 0 .. height \div block.rows - 1,
             b \in {k \in DOMAIN block.bytes : block.bytes[k][1] # "x"} :
          e = LaidOut(p, block, z, y, b, width, strides[p])
    BY <1>1, <2>1, LaidOutElements
  <2>3. PICK c \in DOMAIN comps :
          /\ comps[c].plane + 1 = p
          /\ \E r \in 0 .. Repeats(comps[c], block) - 1 : b = ByteIn(comps[c], r)
    BY <1>1, <2>1, <2>2 DEF Described
  <2>4. PICK comp : comp = comps[c]
    OBVIOUS
  <2>5. PICK r \in 0 .. Repeats(comp, block) - 1 : b = ByteIn(comp, r)
    BY <2>3, <2>4
  <2>6. Describes(comp, layout) /\ comp.plane + 1 = p
    BY <1>1, <2>3, <2>4
  <2>7. /\ <<comp.horizontal, block.columns>> \in {<<1, 1>>, <<1, 2>>, <<2, 2>>}
        /\ comp.vertical = block.rows
    BY <2>1, <2>6 DEF Describes
  <2>8. strides[p] \in Nat /\ width % block.columns = 0
    BY <1>1, <2>1
  <2>9. z \in Nat /\ y \in Nat
    <3>1. block.columns \in {1, 2}
      BY <2>7
    <3> QED
      BY <3>1
  <2>10. e = WrittenBy(comp, Repeats(comp, block) * z + r, y, width, strides)
    BY <2>1, <2>2, <2>5, <2>6, <2>8, <2>9, SampleIsLaidOut
  <2>11. /\ Repeats(comp, block) * z + r \in 0 .. width \div comp.horizontal - 1
         /\ y \in 0 .. height \div comp.vertical - 1
    BY <2>7, <2>8, SamplesOfBlocks
  <2> QED
    BY <1>1, <2>4, <2>10, <2>11, WrittenElements
<1>4. PICK left, right :
        /\ left = Written(format, width, height, strides)
        /\ right = UNION { PlaneLayout(format, p, width, height, strides[p]) :
                           p \in DOMAIN layout }
  OBVIOUS
<1>5. \A e : e \in left <=> e \in right
  BY <1>2, <1>3, <1>4
<1>6. left = right
  BY <1>5
<1> QED
  BY <1>1, <1>4, <1>6

\* The table describes a format.
Tabled(format) ==
  /\ \A c \in DOMAIN bs_draw_formats[format] :
       Describes(bs_draw_formats[format][c], FourccLayout[format])
  /\ Described(bs_draw_formats[format], FourccLayout[format])

\* A format with a byte for each component of a pixel, and maybe one not used.
LEMMA PackedTabled ==
  ASSUME NEW format, NEW n \in 3 .. 4, NEW m \in n .. 4, NEW values, NEW all,
         bs_draw_formats[format] = Packed(values, m), FourccLayout[format] = Pixel(all),
         DOMAIN values = 1 .. n, DOMAIN all = 1 .. m, Len(all) = m,
         \A c \in 1 .. n : all[c] = values[c] /\ values[c] # "x",
         \A c \in 1 .. m : c > n => all[c] = "x"
  PROVE  Tabled(format)
<1>1. PICK comps, layout, block :
        /\ comps = bs_draw_formats[format] /\ layout = FourccLayout[format]
        /\ block = Block(1, 1, [c \in DOMAIN all |-> <<all[c], {0}>>])
  OBVIOUS
<1>2. /\ DOMAIN comps = 1 .. n
      /\ \A c \in 1 .. n : comps[c] = Component(values[c], 1, 1, m, 0, c - 1)
  BY <1>1 DEF Packed
<1>3. layout = << block >> /\ DOMAIN layout = {1} /\ layout[1] = block
  BY <1>1 DEF Pixel
<1>4. /\ block.columns = 1 /\ block.rows = 1 /\ DOMAIN block.bytes = 1 .. m
      /\ \A b \in 1 .. m : block.bytes[b] = <<all[b], {0}>>
      /\ Len(block.bytes) = m
  BY <1>1 DEF Block
<1>5. ASSUME NEW c \in 1 .. n
      PROVE  /\ Describes(comps[c], layout)
             /\ Repeats(comps[c], block) = 1 /\ ByteIn(comps[c], 0) = c
             /\ comps[c].plane + 1 = 1
  <2>1. PICK comp : comp = comps[c]
    OBVIOUS
  <2>2. /\ comp.value = values[c] /\ comp.horizontal = 1 /\ comp.vertical = 1
        /\ comp.skip = m /\ comp.plane = 0 /\ comp.offset = c - 1
    BY <1>2, <2>1 DEF Component
  <2>3. Repeats(comp, block) = 1 /\ ByteIn(comp, 0) = c /\ ColumnsIn(comp, 0) = {0}
    BY <1>4, <2>2 DEF Repeats, ByteIn, ColumnsIn
  <2>4. layout[comp.plane + 1] = block /\ comp.plane + 1 \in DOMAIN layout
    BY <1>3, <2>2
  <2>5. c \in 1 .. m /\ block.bytes[c] = <<values[c], {0}>>
    <3>1. c \in 1 .. m
      OBVIOUS
    <3>2. all[c] = values[c]
      OBVIOUS
    <3> QED
      BY <1>4, <3>1, <3>2
  <2>6. \A r \in 0 .. Repeats(comp, block) - 1 :
          /\ ByteIn(comp, r) \in DOMAIN block.bytes
          /\ block.bytes[ByteIn(comp, r)] = <<comp.value, ColumnsIn(comp, r)>>
    <3>1. \A r \in 0 .. Repeats(comp, block) - 1 : r = 0
      BY <2>3
    <3> QED
      BY <1>4, <2>2, <2>3, <2>5, <3>1
  <2>7. Describes(comp, layout)
    BY <1>4, <2>2, <2>3, <2>4, <2>6 DEF Describes
  <2> QED
    BY <2>1, <2>2, <2>3, <2>7
<1>6. Described(comps, layout)
  <2>1. ASSUME NEW p \in DOMAIN layout, NEW b \in DOMAIN layout[p].bytes,
               layout[p].bytes[b][1] # "x"
        PROVE  \E c \in DOMAIN comps :
                 /\ comps[c].plane + 1 = p
                 /\ \E r \in 0 .. Repeats(comps[c], layout[p]) - 1 : b = ByteIn(comps[c], r)
    <3>1. p = 1 /\ b \in 1 .. m /\ layout[p] = block
      BY <1>3, <1>4
    <3>2. block.bytes[b][1] = all[b]
      BY <1>4, <3>1
    <3>3. b \in 1 .. n
      BY <2>1, <3>1, <3>2
    <3>4. 0 \in 0 .. Repeats(comps[b], layout[p]) - 1
      BY <1>5, <3>1, <3>3
    <3> QED
      BY <1>2, <1>5, <3>1, <3>3, <3>4
  <2> QED
    BY <2>1 DEF Described
<1> QED
  BY <1>1, <1>2, <1>5, <1>6 DEF Tabled

LEMMA RgbTabled ==
  /\ Tabled("ABGR8888") /\ Tabled("ARGB8888") /\ Tabled("BGR888")
  /\ Tabled("RGB888") /\ Tabled("XBGR8888") /\ Tabled("XRGB8888")
<1>1. Tabled("ABGR8888")
  <2>1. PICK n, m, values, all :
          n = 4 /\ m = 4 /\ values = <<"R", "G", "B", "A">> /\ all = <<"R", "G", "B", "A">>
    OBVIOUS
  <2>2. /\ bs_draw_formats["ABGR8888"] = Packed(values, m)
        /\ FourccLayout["ABGR8888"] = Pixel(all)
    BY <2>1 DEF bs_draw_formats, FourccLayout
  <2>3. /\ n \in 3 .. 4 /\ m \in n .. 4
        /\ DOMAIN values = 1 .. n /\ DOMAIN all = 1 .. m /\ Len(all) = m
        /\ \A c \in 1 .. n : all[c] = values[c] /\ values[c] # "x"
        /\ \A c \in 1 .. m : c > n => all[c] = "x"
    BY <2>1
  <2> QED
    BY <2>2, <2>3, PackedTabled
<1>2. Tabled("ARGB8888")
  <2>1. PICK n, m, values, all :
          n = 4 /\ m = 4 /\ values = <<"B", "G", "R", "A">> /\ all = <<"B", "G", "R", "A">>
    OBVIOUS
  <2>2. /\ bs_draw_formats["ARGB8888"] = Packed(values, m)
        /\ FourccLayout["ARGB8888"] = Pixel(all)
    BY <2>1 DEF bs_draw_formats, FourccLayout
  <2>3. /\ n \in 3 .. 4 /\ m \in n .. 4
        /\ DOMAIN values = 1 .. n /\ DOMAIN all = 1 .. m /\ Len(all) = m
        /\ \A c \in 1 .. n : all[c] = values[c] /\ values[c] # "x"
        /\ \A c \in 1 .. m : c > n => all[c] = "x"
    BY <2>1
  <2> QED
    BY <2>2, <2>3, PackedTabled
<1>3. Tabled("BGR888")
  <2>1. PICK n, m, values, all :
          n = 3 /\ m = 3 /\ values = <<"R", "G", "B">> /\ all = <<"R", "G", "B">>
    OBVIOUS
  <2>2. /\ bs_draw_formats["BGR888"] = Packed(values, m)
        /\ FourccLayout["BGR888"] = Pixel(all)
    BY <2>1 DEF bs_draw_formats, FourccLayout
  <2>3. /\ n \in 3 .. 4 /\ m \in n .. 4
        /\ DOMAIN values = 1 .. n /\ DOMAIN all = 1 .. m /\ Len(all) = m
        /\ \A c \in 1 .. n : all[c] = values[c] /\ values[c] # "x"
        /\ \A c \in 1 .. m : c > n => all[c] = "x"
    BY <2>1
  <2> QED
    BY <2>2, <2>3, PackedTabled
<1>4. Tabled("RGB888")
  <2>1. PICK n, m, values, all :
          n = 3 /\ m = 3 /\ values = <<"B", "G", "R">> /\ all = <<"B", "G", "R">>
    OBVIOUS
  <2>2. /\ bs_draw_formats["RGB888"] = Packed(values, m)
        /\ FourccLayout["RGB888"] = Pixel(all)
    BY <2>1 DEF bs_draw_formats, FourccLayout
  <2>3. /\ n \in 3 .. 4 /\ m \in n .. 4
        /\ DOMAIN values = 1 .. n /\ DOMAIN all = 1 .. m /\ Len(all) = m
        /\ \A c \in 1 .. n : all[c] = values[c] /\ values[c] # "x"
        /\ \A c \in 1 .. m : c > n => all[c] = "x"
    BY <2>1
  <2> QED
    BY <2>2, <2>3, PackedTabled
<1>5. Tabled("XBGR8888")
  <2>1. PICK n, m, values, all :
          n = 3 /\ m = 4 /\ values = <<"R", "G", "B">> /\ all = <<"R", "G", "B", "x">>
    OBVIOUS
  <2>2. /\ bs_draw_formats["XBGR8888"] = Packed(values, m)
        /\ FourccLayout["XBGR8888"] = Pixel(all)
    BY <2>1 DEF bs_draw_formats, FourccLayout
  <2>3. /\ n \in 3 .. 4 /\ m \in n .. 4
        /\ DOMAIN values = 1 .. n /\ DOMAIN all = 1 .. m /\ Len(all) = m
        /\ \A c \in 1 .. n : all[c] = values[c] /\ values[c] # "x"
        /\ \A c \in 1 .. m : c > n => all[c] = "x"
    BY <2>1
  <2> QED
    BY <2>2, <2>3, PackedTabled
<1>6. Tabled("XRGB8888")
  <2>1. PICK n, m, values, all :
          n = 3 /\ m = 4 /\ values = <<"B", "G", "R">> /\ all = <<"B", "G", "R", "x">>
    OBVIOUS
  <2>2. /\ bs_draw_formats["XRGB8888"] = Packed(values, m)
        /\ FourccLayout["XRGB8888"] = Pixel(all)
    BY <2>1 DEF bs_draw_formats, FourccLayout
  <2>3. /\ n \in 3 .. 4 /\ m \in n .. 4
        /\ DOMAIN values = 1 .. n /\ DOMAIN all = 1 .. m /\ Len(all) = m
        /\ \A c \in 1 .. n : all[c] = values[c] /\ values[c] # "x"
        /\ \A c \in 1 .. m : c > n => all[c] = "x"
    BY <2>1
  <2> QED
    BY <2>2, <2>3, PackedTabled
<1> QED
  BY <1>1, <1>2, <1>3, <1>4, <1>5, <1>6

\* A component with one sample in a block, and one with two: they describe the
\* byte or bytes found there.
Sampled(comp, layout, block, p, r, b) ==
  /\ Describes(comp, layout) /\ comp.plane + 1 = p
  /\ r \in 0 .. Repeats(comp, block) - 1 /\ ByteIn(comp, r) = b

LEMMA OneSample ==
  ASSUME NEW value, value # "x", NEW h \in {1, 2}, NEW rows \in Nat, NEW skip \in Nat,
         NEW index \in Nat, NEW offset \in Nat, NEW layout, NEW block,
         NEW p \in DOMAIN layout, p = index + 1, block = layout[p],
         block.columns = h, block.rows = rows, Len(block.bytes) = skip,
         NEW b \in DOMAIN block.bytes, b = offset + 1,
         block.bytes[b] = <<value, 0 .. h - 1>>
  PROVE  Sampled(Component(value, h, rows, skip, index, offset), layout, block, p, 0, b)
<1>1. PICK comp : comp = Component(value, h, rows, skip, index, offset)
  OBVIOUS
<1>2. /\ comp.value = value /\ comp.horizontal = h /\ comp.vertical = rows
      /\ comp.skip = skip /\ comp.plane = index /\ comp.offset = offset
  BY <1>1 DEF Component
<1>3. /\ Repeats(comp, block) = 1 /\ ByteIn(comp, 0) = b
      /\ ColumnsIn(comp, 0) = 0 .. h - 1
  BY <1>2 DEF Repeats, ByteIn, ColumnsIn
<1>4. \A r \in 0 .. Repeats(comp, block) - 1 : r = 0
  BY <1>3
<1>5. \A r \in 0 .. Repeats(comp, block) - 1 :
        /\ ByteIn(comp, r) \in DOMAIN block.bytes
        /\ block.bytes[ByteIn(comp, r)] = <<comp.value, ColumnsIn(comp, r)>>
  BY <1>2, <1>3, <1>4
<1>6. Len(block.bytes) = comp.skip * Repeats(comp, block)
  BY <1>2, <1>3
<1>7. <<comp.horizontal, block.columns>> \in {<<1, 1>>, <<1, 2>>, <<2, 2>>}
  BY <1>2
<1>8. Describes(comp, layout)
  BY <1>2, <1>5, <1>6, <1>7 DEF Describes
<1> QED
  BY <1>1, <1>2, <1>3, <1>8 DEF Sampled

LEMMA TwoSamples ==
  ASSUME NEW value, value # "x", NEW rows \in Nat, NEW skip \in Nat,
         NEW index \in Nat, NEW offset \in Nat, NEW layout, NEW block,
         NEW p \in DOMAIN layout, p = index + 1, block = layout[p],
         block.columns = 2, block.rows = rows, Len(block.bytes) = 2 * skip,
         NEW b \in DOMAIN block.bytes, b = offset + 1,
         NEW d \in DOMAIN block.bytes, d = offset + skip + 1,
         block.bytes[b] = <<value, {0}>>, block.bytes[d] = <<value, {1}>>
  PROVE  /\ Sampled(Component(value, 1, rows, skip, index, offset), layout, block, p, 0, b)
         /\ Sampled(Component(value, 1, rows, skip, index, offset), layout, block, p, 1, d)
<1>1. PICK comp : comp = Component(value, 1, rows, skip, index, offset)
  OBVIOUS
<1>2. /\ comp.value = value /\ comp.horizontal = 1 /\ comp.vertical = rows
      /\ comp.skip = skip /\ comp.plane = index /\ comp.offset = offset
  BY <1>1 DEF Component
<1>3. /\ Repeats(comp, block) = 2 /\ ByteIn(comp, 0) = b /\ ByteIn(comp, 1) = d
      /\ ColumnsIn(comp, 0) = {0} /\ ColumnsIn(comp, 1) = {1}
  BY <1>2 DEF Repeats, ByteIn, ColumnsIn
<1>4. \A r \in 0 .. Repeats(comp, block) - 1 : r = 0 \/ r = 1
  BY <1>3
<1>5. \A r \in 0 .. Repeats(comp, block) - 1 :
        /\ ByteIn(comp, r) \in DOMAIN block.bytes
        /\ block.bytes[ByteIn(comp, r)] = <<comp.value, ColumnsIn(comp, r)>>
  BY <1>2, <1>3, <1>4
<1>6. Len(block.bytes) = comp.skip * Repeats(comp, block)
  BY <1>2, <1>3
<1>7. <<comp.horizontal, block.columns>> \in {<<1, 1>>, <<1, 2>>, <<2, 2>>}
  BY <1>2
<1>8. Describes(comp, layout)
  BY <1>2, <1>5, <1>6, <1>7 DEF Describes
<1> QED
  BY <1>1, <1>2, <1>3, <1>8 DEF Sampled

\* A table each of whose components is sampled, and each byte by one of them.
LEMMA SampledTabled ==
  ASSUME NEW format, NEW comps, NEW layout,
         comps = bs_draw_formats[format], layout = FourccLayout[format],
         \A c \in DOMAIN comps : Describes(comps[c], layout),
         \A p \in DOMAIN layout : \A b \in DOMAIN layout[p].bytes :
           \E c \in DOMAIN comps, r \in {0, 1} :
             Sampled(comps[c], layout, layout[p], p, r, b)
  PROVE  Tabled(format)
<1>1. Described(comps, layout)
  <2>1. ASSUME NEW p \in DOMAIN layout, NEW b \in DOMAIN layout[p].bytes
        PROVE  \E c \in DOMAIN comps :
                 /\ comps[c].plane + 1 = p
                 /\ \E r \in 0 .. Repeats(comps[c], layout[p]) - 1 : b = ByteIn(comps[c], r)
    <3>1. PICK c \in DOMAIN comps, r \in {0, 1} :
            Sampled(comps[c], layout, layout[p], p, r, b)
      OBVIOUS
    <3> QED
      BY <3>1 DEF Sampled
  <2> QED
    BY <2>1 DEF Described
<1> QED
  BY <1>1 DEF Tabled

\* The formats with a plane of luma and one of chroma, whose two values come in
\* either order.
LEMMA NvTabled ==
  ASSUME NEW format, NEW first, NEW second, first # "x", second # "x",
         bs_draw_formats[format] = << Luma, Component(first, 2, 2, 2, 1, 0),
                                      Component(second, 2, 2, 2, 1, 1) >>,
         FourccLayout[format] = << Full, Chroma(<<first, second>>) >>
  PROVE  Tabled(format)
<1>1. PICK comps, layout, full, chroma :
        /\ comps = bs_draw_formats[format] /\ layout = FourccLayout[format]
        /\ full = Full /\ chroma = Chroma(<<first, second>>)
  OBVIOUS
<1>2. /\ DOMAIN comps = 1 .. 3 /\ comps[1] = Component("Y", 1, 1, 1, 0, 0)
      /\ comps[2] = Component(first, 2, 2, 2, 1, 0)
      /\ comps[3] = Component(second, 2, 2, 2, 1, 1)
  BY <1>1 DEF Luma
<1>3. DOMAIN layout = 1 .. 2 /\ layout[1] = full /\ layout[2] = chroma
  BY <1>1
<1>4. /\ full.columns = 1 /\ full.rows = 1 /\ DOMAIN full.bytes = 1 .. 1
      /\ Len(full.bytes) = 1 /\ full.bytes[1] = <<"Y", {0}>>
  BY <1>1 DEF Full, Block
<1>5. /\ chroma.columns = 2 /\ chroma.rows = 2 /\ DOMAIN chroma.bytes = 1 .. 2
      /\ Len(chroma.bytes) = 2
      /\ chroma.bytes[1] = <<first, {0, 1}>> /\ chroma.bytes[2] = <<second, {0, 1}>>
  BY <1>1 DEF Chroma, Block
<1>6. 0 .. 1 - 1 = {0} /\ 0 .. 2 - 1 = {0, 1}
  OBVIOUS
<1>7. Sampled(comps[1], layout, full, 1, 0, 1)
  <2>1. /\ "Y" # "x" /\ 1 \in {1, 2} /\ 1 \in Nat /\ 1 \in Nat
        /\ 0 \in Nat /\ 0 \in Nat
        /\ 1 \in DOMAIN layout /\ 1 = 0 + 1 /\ full = layout[1]
        /\ full.columns = 1 /\ full.rows = 1 /\ Len(full.bytes) = 1
        /\ 1 \in DOMAIN full.bytes /\ 1 = 0 + 1
        /\ full.bytes[1] = <<"Y", 0 .. 1 - 1>>
    BY <1>3, <1>4, <1>6
  <2>2. Sampled(Component("Y", 1, 1, 1, 0, 0), layout, full, 1, 0, 1)
    BY <2>1, OneSample, Zenon
  <2> QED
    BY <1>2, <2>2
<1>8. Sampled(comps[2], layout, chroma, 2, 0, 1)
  <2>1. /\ first # "x" /\ 2 \in {1, 2} /\ 2 \in Nat /\ 2 \in Nat
        /\ 1 \in Nat /\ 0 \in Nat
        /\ 2 \in DOMAIN layout /\ 2 = 1 + 1 /\ chroma = layout[2]
        /\ chroma.columns = 2 /\ chroma.rows = 2 /\ Len(chroma.bytes) = 2
        /\ 1 \in DOMAIN chroma.bytes /\ 1 = 0 + 1
        /\ chroma.bytes[1] = <<first, 0 .. 2 - 1>>
    BY <1>3, <1>5, <1>6
  <2>2. Sampled(Component(first, 2, 2, 2, 1, 0), layout, chroma, 2, 0, 1)
    BY <2>1, OneSample, Zenon
  <2> QED
    BY <1>2, <2>2
<1>9. Sampled(comps[3], layout, chroma, 2, 0, 2)
  <2>1. /\ second # "x" /\ 2 \in {1, 2} /\ 2 \in Nat /\ 2 \in Nat
        /\ 1 \in Nat /\ 1 \in Nat
        /\ 2 \in DOMAIN layout /\ 2 = 1 + 1 /\ chroma = layout[2]
        /\ chroma.columns = 2 /\ chroma.rows = 2 /\ Len(chroma.bytes) = 2
        /\ 2 \in DOMAIN chroma.bytes /\ 2 = 1 + 1
        /\ chroma.bytes[2] = <<second, 0 .. 2 - 1>>
    BY <1>3, <1>5, <1>6
  <2>2. Sampled(Component(second, 2, 2, 2, 1, 1), layout, chroma, 2, 0, 2)
    BY <2>1, OneSample, Zenon
  <2> QED
    BY <1>2, <2>2
<1>10. ASSUME NEW p \in DOMAIN layout, NEW b \in DOMAIN layout[p].bytes
       PROVE  \E c \in DOMAIN comps, r \in {0, 1} :
                Sampled(comps[c], layout, layout[p], p, r, b)
  <2>1. CASE p = 1
    <3>1. layout[p] = full /\ b = 1
      BY <1>3, <1>4, <2>1
    <3> QED
      BY <1>2, <1>7, <2>1, <3>1
  <2>2. CASE p = 2
    <3>1. layout[p] = chroma /\ b \in {1, 2}
      BY <1>3, <1>5, <2>2
    <3> QED
      BY <1>2, <1>8, <1>9, <2>2, <3>1
  <2> QED
    BY <1>3, <2>1, <2>2
<1>11. \A c \in DOMAIN comps : Describes(comps[c], layout)
  <2>1. \A c \in DOMAIN comps : c = 1 \/ c = 2 \/ c = 3
    BY <1>2
  <2> QED
    BY <1>7, <1>8, <1>9, <2>1 DEF Sampled
<1> QED
  BY <1>1, <1>10, <1>11, SampledTabled, SMTT(20)

LEMMA UyvyTabled == Tabled("UYVY")
<1>1. PICK comps, layout, block :
        /\ comps = bs_draw_formats["UYVY"] /\ layout = FourccLayout["UYVY"]
        /\ block = layout[1]
  OBVIOUS
<1>2. /\ DOMAIN comps = 1 .. 3
      /\ comps[1] = Component("U", 2, 1, 4, 0, 0)
      /\ comps[2] = Component("Y", 1, 1, 2, 0, 1)
      /\ comps[3] = Component("V", 2, 1, 4, 0, 2)
  BY <1>1 DEF bs_draw_formats
<1>3. /\ DOMAIN layout = 1 .. 1 /\ layout[1] = block
      /\ block = Block(2, 1, << <<"U", {0, 1}>>, <<"Y", {0}>>, <<"V", {0, 1}>>, <<"Y", {1}>> >>)
  BY <1>1 DEF FourccLayout
<1>4. /\ block.columns = 2 /\ block.rows = 1
      /\ DOMAIN block.bytes = 1 .. 4 /\ Len(block.bytes) = 4
      /\ block.bytes[1] = <<"U", {0, 1}>> /\ block.bytes[2] = <<"Y", {0}>>
      /\ block.bytes[3] = <<"V", {0, 1}>> /\ block.bytes[4] = <<"Y", {1}>>
  BY <1>3 DEF Block
<1>5. 0 .. 2 - 1 = {0, 1}
  OBVIOUS
<1>6. Sampled(comps[1], layout, block, 1, 0, 1)
  <2>1. /\ "U" # "x" /\ 2 \in {1, 2} /\ 1 \in Nat /\ 4 \in Nat
        /\ 0 \in Nat /\ 0 \in Nat
        /\ 1 \in DOMAIN layout /\ 1 = 0 + 1 /\ block = layout[1]
        /\ block.columns = 2 /\ block.rows = 1 /\ Len(block.bytes) = 4
        /\ 1 \in DOMAIN block.bytes /\ 1 = 0 + 1
        /\ block.bytes[1] = <<"U", 0 .. 2 - 1>>
    BY <1>3, <1>4, <1>5
  <2>2. Sampled(Component("U", 2, 1, 4, 0, 0), layout, block, 1, 0, 1)
    BY <2>1, OneSample, Zenon
  <2> QED
    BY <1>2, <2>2
<1>7. /\ Sampled(comps[2], layout, block, 1, 0, 2)
      /\ Sampled(comps[2], layout, block, 1, 1, 4)
  <2>1. /\ "Y" # "x" /\ 1 \in Nat /\ 2 \in Nat
        /\ 0 \in Nat /\ 1 \in Nat
        /\ 1 \in DOMAIN layout /\ 1 = 0 + 1 /\ block = layout[1]
        /\ block.columns = 2 /\ block.rows = 1 /\ Len(block.bytes) = 2 * 2
        /\ 2 \in DOMAIN block.bytes /\ 2 = 1 + 1
        /\ 4 \in DOMAIN block.bytes /\ 4 = 1 + 2 + 1
        /\ block.bytes[2] = <<"Y", {0}>> /\ block.bytes[4] = <<"Y", {1}>>
    BY <1>3, <1>4, <1>5
  <2>2. /\ Sampled(Component("Y", 1, 1, 2, 0, 1), layout, block, 1, 0, 2)
        /\ Sampled(Component("Y", 1, 1, 2, 0, 1), layout, block, 1, 1, 4)
    BY <2>1, TwoSamples, ZenonT(60)
  <2>3. comps[2] = Component("Y", 1, 1, 2, 0, 1)
    BY <1>2
  <2> QED
    BY <2>2, <2>3, Zenon
<1>8. Sampled(comps[3], layout, block, 1, 0, 3)
  <2>1. /\ "V" # "x" /\ 2 \in {1, 2} /\ 1 \in Nat /\ 4 \in Nat
        /\ 0 \in Nat /\ 2 \in Nat
        /\ 1 \in DOMAIN layout /\ 1 = 0 + 1 /\ block = layout[1]
        /\ block.columns = 2 /\ block.rows = 1 /\ Len(block.bytes) = 4
        /\ 3 \in DOMAIN block.bytes /\ 3 = 2 + 1
        /\ block.bytes[3] = <<"V", 0 .. 2 - 1>>
    BY <1>3, <1>4, <1>5
  <2>2. Sampled(Component("V", 2, 1, 4, 0, 2), layout, block, 1, 0, 3)
    BY <2>1, OneSample, Zenon
  <2> QED
    BY <1>2, <2>2
<1>9. ASSUME NEW p \in DOMAIN layout, NEW b \in DOMAIN layout[p].bytes
      PROVE  \E c \in DOMAIN comps, r \in {0, 1} :
               Sampled(comps[c], layout, layout[p], p, r, b)
  <2>1. p = 1 /\ layout[p] = block /\ b \in 1 .. 4
    BY <1>3, <1>4
  <2>2. 1 \in DOMAIN comps /\ 2 \in DOMAIN comps /\ 3 \in DOMAIN comps
    BY <1>2
  <2>3. b = 1 \/ b = 2 \/ b = 3 \/ b = 4
    BY <2>1
  <2> QED
    BY <1>6, <1>7, <1>8, <2>1, <2>2, <2>3
<1>10. \A c \in DOMAIN comps : Describes(comps[c], layout)
  <2>1. \A c \in DOMAIN comps : c = 1 \/ c = 2 \/ c = 3
    BY <1>2
  <2> QED
    BY <1>6, <1>7, <1>8, <2>1 DEF Sampled
<1> QED
  BY <1>1, <1>9, <1>10, SampledTabled

LEMMA YuyvTabled == Tabled("YUYV")
<1>1. PICK comps, layout, block :
        /\ comps = bs_draw_formats["YUYV"] /\ layout = FourccLayout["YUYV"]
        /\ block = layout[1]
  OBVIOUS
<1>2. /\ DOMAIN comps = 1 .. 3
      /\ comps[1] = Component("Y", 1, 1, 2, 0, 0)
      /\ comps[2] = Component("U", 2, 1, 4, 0, 1)
      /\ comps[3] = Component("V", 2, 1, 4, 0, 3)
  BY <1>1 DEF bs_draw_formats
<1>3. /\ DOMAIN layout = 1 .. 1 /\ layout[1] = block
      /\ block = Block(2, 1, << <<"Y", {0}>>, <<"U", {0, 1}>>, <<"Y", {1}>>, <<"V", {0, 1}>> >>)
  BY <1>1 DEF FourccLayout
<1>4. /\ block.columns = 2 /\ block.rows = 1
      /\ DOMAIN block.bytes = 1 .. 4 /\ Len(block.bytes) = 4
      /\ block.bytes[1] = <<"Y", {0}>> /\ block.bytes[2] = <<"U", {0, 1}>>
      /\ block.bytes[3] = <<"Y", {1}>> /\ block.bytes[4] = <<"V", {0, 1}>>
  BY <1>3 DEF Block
<1>5. 0 .. 2 - 1 = {0, 1}
  OBVIOUS
<1>6. /\ Sampled(comps[1], layout, block, 1, 0, 1)
      /\ Sampled(comps[1], layout, block, 1, 1, 3)
  <2>1. /\ "Y" # "x" /\ 1 \in Nat /\ 2 \in Nat
        /\ 0 \in Nat /\ 0 \in Nat
        /\ 1 \in DOMAIN layout /\ 1 = 0 + 1 /\ block = layout[1]
        /\ block.columns = 2 /\ block.rows = 1 /\ Len(block.bytes) = 2 * 2
        /\ 1 \in DOMAIN block.bytes /\ 1 = 0 + 1
        /\ 3 \in DOMAIN block.bytes /\ 3 = 0 + 2 + 1
        /\ block.bytes[1] = <<"Y", {0}>> /\ block.bytes[3] = <<"Y", {1}>>
    BY <1>3, <1>4, <1>5
  <2>2. /\ Sampled(Component("Y", 1, 1, 2, 0, 0), layout, block, 1, 0, 1)
        /\ Sampled(Component("Y", 1, 1, 2, 0, 0), layout, block, 1, 1, 3)
    BY <2>1, TwoSamples, Zenon
  <2>3. comps[1] = Component("Y", 1, 1, 2, 0, 0)
    BY <1>2
  <2> QED
    BY <2>2, <2>3, Zenon
<1>7. Sampled(comps[2], layout, block, 1, 0, 2)
  <2>1. /\ "U" # "x" /\ 2 \in {1, 2} /\ 1 \in Nat /\ 4 \in Nat
        /\ 0 \in Nat /\ 1 \in Nat
        /\ 1 \in DOMAIN layout /\ 1 = 0 + 1 /\ block = layout[1]
        /\ block.columns = 2 /\ block.rows = 1 /\ Len(block.bytes) = 4
        /\ 2 \in DOMAIN block.bytes /\ 2 = 1 + 1
        /\ block.bytes[2] = <<"U", 0 .. 2 - 1>>
    BY <1>3, <1>4, <1>5
  <2>2. Sampled(Component("U", 2, 1, 4, 0, 1), layout, block, 1, 0, 2)
    BY <2>1, OneSample, Zenon
  <2> QED
    BY <1>2, <2>2
<1>8. Sampled(comps[3], layout, block, 1, 0, 4)
  <2>1. /\ "V" # "x" /\ 2 \in {1, 2} /\ 1 \in Nat /\ 4 \in Nat
        /\ 0 \in Nat /\ 3 \in Nat
        /\ 1 \in DOMAIN layout /\ 1 = 0 + 1 /\ block = layout[1]
        /\ block.columns = 2 /\ block.rows = 1 /\ Len(block.bytes) = 4
        /\ 4 \in DOMAIN block.bytes /\ 4 = 3 + 1
        /\ block.bytes[4] = <<"V", 0 .. 2 - 1>>
    BY <1>3, <1>4, <1>5
  <2>2. Sampled(Component("V", 2, 1, 4, 0, 3), layout, block, 1, 0, 4)
    BY <2>1, OneSample, Zenon
  <2> QED
    BY <1>2, <2>2
<1>9. ASSUME NEW p \in DOMAIN layout, NEW b \in DOMAIN layout[p].bytes
      PROVE  \E c \in DOMAIN comps, r \in {0, 1} :
               Sampled(comps[c], layout, layout[p], p, r, b)
  <2>1. p = 1 /\ layout[p] = block /\ b \in 1 .. 4
    BY <1>3, <1>4
  <2>2. 1 \in DOMAIN comps /\ 2 \in DOMAIN comps /\ 3 \in DOMAIN comps
    BY <1>2
  <2>3. b = 1 \/ b = 2 \/ b = 3 \/ b = 4
    BY <2>1
  <2> QED
    BY <1>6, <1>7, <1>8, <2>1, <2>2, <2>3
<1>10. \A c \in DOMAIN comps : Describes(comps[c], layout)
  <2>1. \A c \in DOMAIN comps : c = 1 \/ c = 2 \/ c = 3
    BY <1>2
  <2> QED
    BY <1>6, <1>7, <1>8, <2>1 DEF Sampled
<1> QED
  BY <1>1, <1>9, <1>10, SampledTabled

LEMMA YvuTabled == Tabled("YVU420")
<1>1. PICK comps, layout, full, v, u :
        /\ comps = bs_draw_formats["YVU420"] /\ layout = FourccLayout["YVU420"]
        /\ full = Full /\ v = Chroma(<<"V">>) /\ u = Chroma(<<"U">>)
  OBVIOUS
<1>2. /\ DOMAIN comps = 1 .. 3
      /\ comps[1] = Component("Y", 1, 1, 1, 0, 0)
      /\ comps[2] = Component("V", 2, 2, 1, 1, 0)
      /\ comps[3] = Component("U", 2, 2, 1, 2, 0)
  BY <1>1 DEF bs_draw_formats, Luma
<1>3. DOMAIN layout = 1 .. 3 /\ layout[1] = full /\ layout[2] = v /\ layout[3] = u
  BY <1>1 DEF FourccLayout
<1>4. /\ full.columns = 1 /\ full.rows = 1 /\ DOMAIN full.bytes = 1 .. 1
      /\ Len(full.bytes) = 1 /\ full.bytes[1] = <<"Y", {0}>>
      /\ v.columns = 2 /\ v.rows = 2 /\ DOMAIN v.bytes = 1 .. 1
      /\ Len(v.bytes) = 1 /\ v.bytes[1] = <<"V", {0, 1}>>
      /\ u.columns = 2 /\ u.rows = 2 /\ DOMAIN u.bytes = 1 .. 1
      /\ Len(u.bytes) = 1 /\ u.bytes[1] = <<"U", {0, 1}>>
  BY <1>1 DEF Full, Chroma, Block
<1>5. 0 .. 1 - 1 = {0} /\ 0 .. 2 - 1 = {0, 1}
  OBVIOUS
<1>6. Sampled(comps[1], layout, full, 1, 0, 1)
  <2>1. /\ "Y" # "x" /\ 1 \in {1, 2} /\ 1 \in Nat /\ 1 \in Nat
        /\ 0 \in Nat /\ 0 \in Nat
        /\ 1 \in DOMAIN layout /\ 1 = 0 + 1 /\ full = layout[1]
        /\ full.columns = 1 /\ full.rows = 1 /\ Len(full.bytes) = 1
        /\ 1 \in DOMAIN full.bytes /\ 1 = 0 + 1
        /\ full.bytes[1] = <<"Y", 0 .. 1 - 1>>
    BY <1>3, <1>4, <1>5
  <2>2. Sampled(Component("Y", 1, 1, 1, 0, 0), layout, full, 1, 0, 1)
    BY <2>1, OneSample, Zenon
  <2> QED
    BY <1>2, <2>2
<1>7. Sampled(comps[2], layout, v, 2, 0, 1)
  <2>1. /\ "V" # "x" /\ 2 \in {1, 2} /\ 2 \in Nat /\ 1 \in Nat
        /\ 1 \in Nat /\ 0 \in Nat
        /\ 2 \in DOMAIN layout /\ 2 = 1 + 1 /\ v = layout[2]
        /\ v.columns = 2 /\ v.rows = 2 /\ Len(v.bytes) = 1
        /\ 1 \in DOMAIN v.bytes /\ 1 = 0 + 1
        /\ v.bytes[1] = <<"V", 0 .. 2 - 1>>
    BY <1>3, <1>4, <1>5
  <2>2. Sampled(Component("V", 2, 2, 1, 1, 0), layout, v, 2, 0, 1)
    BY <2>1, OneSample, Zenon
  <2> QED
    BY <1>2, <2>2
<1>8. Sampled(comps[3], layout, u, 3, 0, 1)
  <2>1. /\ "U" # "x" /\ 2 \in {1, 2} /\ 2 \in Nat /\ 1 \in Nat
        /\ 2 \in Nat /\ 0 \in Nat
        /\ 3 \in DOMAIN layout /\ 3 = 2 + 1 /\ u = layout[3]
        /\ u.columns = 2 /\ u.rows = 2 /\ Len(u.bytes) = 1
        /\ 1 \in DOMAIN u.bytes /\ 1 = 0 + 1
        /\ u.bytes[1] = <<"U", 0 .. 2 - 1>>
    BY <1>3, <1>4, <1>5
  <2>2. Sampled(Component("U", 2, 2, 1, 2, 0), layout, u, 3, 0, 1)
    BY <2>1, OneSample, Zenon
  <2> QED
    BY <1>2, <2>2
<1>9. ASSUME NEW p \in DOMAIN layout, NEW b \in DOMAIN layout[p].bytes
      PROVE  \E c \in DOMAIN comps, r \in {0, 1} :
               Sampled(comps[c], layout, layout[p], p, r, b)
  <2>1. 1 \in DOMAIN comps /\ 2 \in DOMAIN comps /\ 3 \in DOMAIN comps
    BY <1>2
  <2>2. p = 1 \/ p = 2 \/ p = 3
    BY <1>3
  <2>3. b = 1
    BY <1>3, <1>4, <2>2
  <2> QED
    BY <1>3, <1>6, <1>7, <1>8, <2>1, <2>2, <2>3
<1>10. \A c \in DOMAIN comps : Describes(comps[c], layout)
  <2>1. \A c \in DOMAIN comps : c = 1 \/ c = 2 \/ c = 3
    BY <1>2
  <2> QED
    BY <1>6, <1>7, <1>8, <2>1 DEF Sampled
<1> QED
  BY <1>1, <1>9, <1>10, SampledTabled

\* The table of draw.c describes every format it has.
LEMMA AllTabled == \A format \in DOMAIN bs_draw_formats : Tabled(format)
<1>1. Tabled("NV12")
  <2>1. PICK u, v, format : u = "U" /\ v = "V" /\ format = "NV12"
    OBVIOUS
  <2>2. /\ u # "x" /\ v # "x"
        /\ bs_draw_formats[format] = << Luma, Component(u, 2, 2, 2, 1, 0),
                                        Component(v, 2, 2, 2, 1, 1) >>
        /\ FourccLayout[format] = << Full, Chroma(<<u, v>>) >>
    BY <2>1 DEF bs_draw_formats, FourccLayout
  <2>3. Tabled(format)
    BY <2>2, NvTabled
  <2> QED
    BY <2>1, <2>3
<1>2. Tabled("NV21")
  <2>1. PICK u, v, format : u = "U" /\ v = "V" /\ format = "NV21"
    OBVIOUS
  <2>2. /\ u # "x" /\ v # "x"
        /\ bs_draw_formats[format] = << Luma, Component(v, 2, 2, 2, 1, 0),
                                        Component(u, 2, 2, 2, 1, 1) >>
        /\ FourccLayout[format] = << Full, Chroma(<<v, u>>) >>
    BY <2>1 DEF bs_draw_formats, FourccLayout
  <2>3. Tabled(format)
    BY <2>2, NvTabled
  <2> QED
    BY <2>1, <2>3
<1>3. DOMAIN bs_draw_formats =
        { "ABGR8888", "ARGB8888", "BGR888", "NV12", "NV21", "RGB888", "XBGR8888",
          "XRGB8888", "UYVY", "YUYV", "YVU420" }
  BY DEF bs_draw_formats
<1> QED
  BY <1>1, <1>2, <1>3, RgbTabled, UyvyTabled, YuyvTabled, YvuTabled

\* draw_color writes, for every format of the table and every picture, exactly
\* the bytes of the format as its fourcc code defines it, each made from the
\* pixels it stands for.
THEOREM TheFormatIsWritten ==
  ASSUME NEW format \in DOMAIN bs_draw_formats, NEW width \in Nat, NEW height \in Nat,
         NEW strides,
         \A p \in DOMAIN FourccLayout[format] :
           /\ strides[p] \in Nat
           /\ width % FourccLayout[format][p].columns = 0
  PROVE  Written(format, width, height, strides)
           = UNION { PlaneLayout(format, p, width, height, strides[p]) :
                     p \in DOMAIN FourccLayout[format] }
BY AllTabled, DescribedIsWritten DEF Tabled

\* The blocks that the bytes of a format repeat with.
LEMMA BlocksAre ==
  ASSUME NEW format \in DOMAIN bs_draw_formats, NEW p \in DOMAIN FourccLayout[format]
  PROVE  LET block == FourccLayout[format][p] IN
         /\ block.columns \in {1, 2} /\ block.rows \in {1, 2}
         /\ Len(block.bytes) \in Nat /\ DOMAIN block.bytes = 1 .. Len(block.bytes)
<1> DEFINE OK(f, q) ==
             LET block == FourccLayout[f][q] IN
             /\ block.columns \in {1, 2} /\ block.rows \in {1, 2}
             /\ Len(block.bytes) \in Nat /\ DOMAIN block.bytes = 1 .. Len(block.bytes)
<1>1. ASSUME NEW f, NEW n \in Nat, NEW values, DOMAIN values = 1 .. n, Len(values) = n,
             FourccLayout[f] = Pixel(values)
      PROVE  DOMAIN FourccLayout[f] = {1} /\ OK(f, 1)
  <2>1. PICK bytes, block :
          bytes = [c \in DOMAIN values |-> <<values[c], {0}>>] /\ block = Block(1, 1, bytes)
    OBVIOUS
  <2>2. FourccLayout[f] = << block >>
    BY <1>1, <2>1 DEF Pixel
  <2>3. Len(bytes) = n /\ DOMAIN bytes = 1 .. n
    BY <1>1, <2>1
  <2>4. block.columns = 1 /\ block.rows = 1 /\ block.bytes = bytes
    BY <2>1 DEF Block
  <2>5. DOMAIN FourccLayout[f] = {1} /\ FourccLayout[f][1] = block
    BY <2>2
  <2> QED
    BY <2>3, <2>4, <2>5
<1>2. ASSUME NEW f, NEW q, NEW first, NEW second,
             \/ FourccLayout[f][q] = Full
             \/ FourccLayout[f][q] = Chroma(<<first>>)
             \/ FourccLayout[f][q] = Chroma(<<first, second>>)
      PROVE  OK(f, q)
  <2>1. CASE FourccLayout[f][q] = Full
    BY <2>1 DEF Full, Block
  <2>2. CASE FourccLayout[f][q] = Chroma(<<first>>)
    BY <2>2 DEF Chroma, Block
  <2>3. CASE FourccLayout[f][q] = Chroma(<<first, second>>)
    BY <2>3 DEF Chroma, Block
  <2> QED
    BY <1>2, <2>1, <2>2, <2>3
<1>3. \A f \in {"ABGR8888", "ARGB8888", "BGR888", "RGB888",
              "XBGR8888", "XRGB8888"} :
        DOMAIN FourccLayout[f] = {1} /\ OK(f, 1)
  <2>1. DOMAIN FourccLayout["ABGR8888"] = {1} /\ OK("ABGR8888", 1)
    <3>1. PICK f, values : f = "ABGR8888" /\ values = <<"R", "G", "B", "A">>
      OBVIOUS
    <3>2. /\ DOMAIN values = 1 .. 4 /\ Len(values) = 4
          /\ FourccLayout[f] = Pixel(values)
      BY <3>1 DEF FourccLayout
    <3> HIDE DEF OK
    <3>3. DOMAIN FourccLayout[f] = {1} /\ OK(f, 1)
      BY <1>1, <3>2
    <3> QED
      BY <3>1, <3>3
  <2>2. DOMAIN FourccLayout["ARGB8888"] = {1} /\ OK("ARGB8888", 1)
    <3>1. PICK f, values : f = "ARGB8888" /\ values = <<"B", "G", "R", "A">>
      OBVIOUS
    <3>2. /\ DOMAIN values = 1 .. 4 /\ Len(values) = 4
          /\ FourccLayout[f] = Pixel(values)
      BY <3>1 DEF FourccLayout
    <3> HIDE DEF OK
    <3>3. DOMAIN FourccLayout[f] = {1} /\ OK(f, 1)
      BY <1>1, <3>2
    <3> QED
      BY <3>1, <3>3
  <2>3. DOMAIN FourccLayout["BGR888"] = {1} /\ OK("BGR888", 1)
    <3>1. PICK f, values : f = "BGR888" /\ values = <<"R", "G", "B">>
      OBVIOUS
    <3>2. /\ DOMAIN values = 1 .. 3 /\ Len(values) = 3
          /\ FourccLayout[f] = Pixel(values)
      BY <3>1 DEF FourccLayout
    <3> HIDE DEF OK
    <3>3. DOMAIN FourccLayout[f] = {1} /\ OK(f, 1)
      BY <1>1, <3>2
    <3> QED
      BY <3>1, <3>3
  <2>4. DOMAIN FourccLayout["RGB888"] = {1} /\ OK("RGB888", 1)
    <3>1. PICK f, values : f = "RGB888" /\ values = <<"B", "G", "R">>
      OBVIOUS
    <3>2. /\ DOMAIN values = 1 .. 3 /\ Len(values) = 3
          /\ FourccLayout[f] = Pixel(values)
      BY <3>1 DEF FourccLayout
    <3> HIDE DEF OK
    <3>3. DOMAIN FourccLayout[f] = {1} /\ OK(f, 1)
      BY <1>1, <3>2
    <3> QED
      BY <3>1, <3>3
  <2>5. DOMAIN FourccLayout["XBGR8888"] = {1} /\ OK("XBGR8888", 1)
    <3>1. PICK f, values : f = "XBGR8888" /\ values = <<"R", "G", "B", "x">>
      OBVIOUS
    <3>2. /\ DOMAIN values = 1 .. 4 /\ Len(values) = 4
          /\ FourccLayout[f] = Pixel(values)
      BY <3>1 DEF FourccLayout
    <3> HIDE DEF OK
    <3>3. DOMAIN FourccLayout[f] = {1} /\ OK(f, 1)
      BY <1>1, <3>2
    <3> QED
      BY <3>1, <3>3
  <2>6. DOMAIN FourccLayout["XRGB8888"] = {1} /\ OK("XRGB8888", 1)
    <3>1. PICK f, values : f = "XRGB8888" /\ values = <<"B", "G", "R", "x">>
      OBVIOUS
    <3>2. /\ DOMAIN values = 1 .. 4 /\ Len(values) = 4
          /\ FourccLayout[f] = Pixel(values)
      BY <3>1 DEF FourccLayout
    <3> HIDE DEF OK
    <3>3. DOMAIN FourccLayout[f] = {1} /\ OK(f, 1)
      BY <1>1, <3>2
    <3> QED
      BY <3>1, <3>3
  <2> HIDE DEF OK
  <2> QED
    BY <2>1, <2>2, <2>3, <2>4, <2>5, <2>6
<1>4. \A f \in {"UYVY", "YUYV"} : DOMAIN FourccLayout[f] = {1} /\ OK(f, 1)
  <2>1. DOMAIN FourccLayout["UYVY"] = {1} /\ OK("UYVY", 1)
    BY DEF FourccLayout, Block
  <2>2. DOMAIN FourccLayout["YUYV"] = {1} /\ OK("YUYV", 1)
    BY DEF FourccLayout, Block
  <2> HIDE DEF OK
  <2> QED
    BY <2>1, <2>2
<1> HIDE DEF OK
<1>5. /\ DOMAIN FourccLayout["NV12"] = {1, 2} /\ OK("NV12", 1) /\ OK("NV12", 2)
      /\ DOMAIN FourccLayout["NV21"] = {1, 2} /\ OK("NV21", 1) /\ OK("NV21", 2)
  <2>1. /\ DOMAIN FourccLayout["NV12"] = {1, 2} /\ FourccLayout["NV12"][1] = Full
        /\ FourccLayout["NV12"][2] = Chroma(<<"U", "V">>)
    BY DEF FourccLayout
  <2>2. /\ DOMAIN FourccLayout["NV21"] = {1, 2} /\ FourccLayout["NV21"][1] = Full
        /\ FourccLayout["NV21"][2] = Chroma(<<"V", "U">>)
    BY DEF FourccLayout
  <2>3. OK("NV12", 1) /\ OK("NV12", 2)
    BY <1>2, <2>1
  <2>4. OK("NV21", 1) /\ OK("NV21", 2)
    BY <1>2, <2>2
  <2> QED
    BY <2>1, <2>2, <2>3, <2>4
<1>6. /\ DOMAIN FourccLayout["YVU420"] = {1, 2, 3}
      /\ OK("YVU420", 1) /\ OK("YVU420", 2) /\ OK("YVU420", 3)
  <2>1. /\ DOMAIN FourccLayout["YVU420"] = {1, 2, 3}
        /\ FourccLayout["YVU420"][1] = Full
        /\ FourccLayout["YVU420"][2] = Chroma(<<"V">>)
        /\ FourccLayout["YVU420"][3] = Chroma(<<"U">>)
    BY DEF FourccLayout
  <2> QED
    BY <1>2, <2>1
<1>7. DOMAIN bs_draw_formats =
        { "ABGR8888", "ARGB8888", "BGR888", "NV12", "NV21", "RGB888", "XBGR8888",
          "XRGB8888", "UYVY", "YUYV", "YVU420" }
  BY DEF bs_draw_formats
<1>8. OK(format, p)
  BY <1>3, <1>4, <1>5, <1>6, <1>7
<1> QED
  BY <1>8 DEF OK

\* A byte of a row of blocks that fit the stride lies before the rows' end.
LEMMA BytesFit ==
  ASSUME NEW len \in Nat, NEW x \in Nat, NEW columns \in Nat, x < columns,
         NEW b \in 1 .. len, NEW stride \in Nat, len * columns <= stride,
         NEW y \in Nat, NEW rows \in Nat, y < rows,
         NEW all \in Nat, stride * rows <= all
  PROVE  stride * y + len * x + b - 1 \in 0 .. all - 1
<1>1. /\ len * x \in Nat /\ stride * y \in Nat
      /\ len * columns \in Nat /\ stride * rows \in Nat
  OBVIOUS
<1>2. len * x + len <= len * columns
  <2>1. PICK d \in Nat : columns = x + 1 + d
    <3>1. columns - x - 1 \in Nat /\ columns = x + 1 + (columns - x - 1)
      OBVIOUS
    <3> QED
      BY <3>1
  <2>2. len * columns = len * x + len + len * d /\ len * d \in Nat
    BY <2>1
  <2> QED
    BY <1>1, <2>2
<1>3. stride * y + stride <= stride * rows
  <2>1. PICK d \in Nat : rows = y + 1 + d
    <3>1. rows - y - 1 \in Nat /\ rows = y + 1 + (rows - y - 1)
      OBVIOUS
    <3> QED
      BY <3>1
  <2>2. stride * rows = stride * y + stride + stride * d /\ stride * d \in Nat
    BY <2>1
  <2> QED
    BY <1>1, <2>2
<1> QED
  BY <1>1, <1>2, <1>3

----------------------------------------------------------------------------
\* The lengths that are mapped.

\* Induction over the numbers up to n, for a set T of them: otherwise there is
\* a least one that T has not.
LEMMA UpTo ==
  ASSUME NEW n \in Nat, NEW T, 0 \in T,
         \A k \in 1 .. n : k - 1 \in T => k \in T
  PROVE  \A k \in 0 .. n : k \in T
<1> DEFINE Less == OpToRel(<, Nat)
           Not == {k \in 0 .. n : k \notin T}
<1>1. IsWellFoundedOn(Less, Nat)
  BY NatLessThanWellFounded
<1>2. \A k, m \in Nat : <<k, m>> \in Less <=> k < m
  BY DEF OpToRel
<1> HIDE DEF Less
<1> SUFFICES ASSUME Not # {} PROVE FALSE
  OBVIOUS
<1>3. Not \in SUBSET Nat
  OBVIOUS
<1> HIDE DEF Not
<1>4. PICK k \in Not : \A m \in Not : <<m, k>> \notin Less
  BY <1>1, <1>3, WFMin
<1>5. k \in 1 .. n
  BY <1>4 DEF Not
<1>6. k - 1 \in Not
  BY <1>4, <1>5 DEF Not
<1>7. <<k - 1, k>> \in Less
  BY <1>2, <1>5
<1> QED
  BY <1>4, <1>6, <1>7

\* What plane p adds to the length that dma_buf_map computes.
Share(b, handle, p) == IF b[p].handle = handle THEN b[p].size ELSE 0

\* The loop of dma_buf_map, as an equation: there is a function that satisfies
\* it, its values are lengths, and they stay 0 until the handle occurs.
LEMMA SizeUpToIs ==
  ASSUME NEW b \in Bos, NEW handle
  PROVE  /\ SizeUpTo(b, handle)[0] = 0
         /\ \A p \in 1 .. Len(b) :
              SizeUpTo(b, handle)[p] = SizeUpTo(b, handle)[p - 1] + Share(b, handle, p)
         /\ \A p \in 0 .. Len(b) :
              /\ SizeUpTo(b, handle)[p] \in Nat
              /\ SizeUpTo(b, handle)[p] # 0 => \E q \in 1 .. p : b[q].handle = handle
<1> DEFINE Sums(n, f) ==
             f = [p \in 0 .. n |-> IF p = 0 THEN 0 ELSE f[p - 1] + Share(b, handle, p)]
           T == {n \in Nat : \E f : Sums(n, f)}
           sum[p \in 0 .. Len(b)] ==
             IF p = 0 THEN 0 ELSE sum[p - 1] + Share(b, handle, p)
<1>1. Len(b) \in Nat
  BY BoIs
<1>2. 0 \in T
  <2> DEFINE g == [p \in 0 .. 0 |-> 0]
  <2>1. g = [p \in 0 .. 0 |-> IF p = 0 THEN 0 ELSE g[p - 1] + Share(b, handle, p)]
    OBVIOUS
  <2> QED
    BY <2>1
<1>3. ASSUME NEW n \in 1 .. Len(b), n - 1 \in T PROVE n \in T
  <2>1. PICK g : Sums(n - 1, g)
    BY <1>3
  <2> DEFINE h == [p \in 0 .. n |-> IF p = 0 THEN 0 ELSE g[p - 1] + Share(b, handle, p)]
  <2>2. \A p \in 0 .. n - 1 : h[p] = g[p]
    <3>1. \A p \in 0 .. n - 1 : g[p] = IF p = 0 THEN 0 ELSE g[p - 1] + Share(b, handle, p)
      BY <2>1
    <3>2. \A p \in 0 .. n - 1 : p \in 0 .. n
      BY <1>1
    <3> QED
      BY <3>1, <3>2
  <2>3. h = [p \in 0 .. n |-> IF p = 0 THEN 0 ELSE h[p - 1] + Share(b, handle, p)]
    <3>1. \A p \in 0 .. n : p # 0 => p - 1 \in 0 .. n - 1
      BY <1>1
    <3> QED
      BY <2>2, <3>1
  <2>4. Sums(n, h) /\ n \in Nat
    BY <2>3
  <2> HIDE DEF Sums
  <2> QED
    BY <2>4
<1> HIDE DEF T
<1>4. Len(b) \in T
  <2>1. \A k \in 0 .. Len(b) : k \in T
    BY <1>1, <1>2, <1>3, UpTo
  <2> QED
    BY <1>1, <2>1
<1>5. sum = [p \in 0 .. Len(b) |-> IF p = 0 THEN 0 ELSE sum[p - 1] + Share(b, handle, p)]
  <2>1. \E f : f = [p \in 0 .. Len(b) |->
                      IF p = 0 THEN 0 ELSE f[p - 1] + Share(b, handle, p)]
    BY <1>4 DEF T
  <2> QED
    BY <2>1
<1>6. SizeUpTo(b, handle) = sum
  BY DEF SizeUpTo, Share
<1> HIDE DEF sum
<1>7. sum[0] = 0 /\ \A p \in 1 .. Len(b) : sum[p] = sum[p - 1] + Share(b, handle, p)
  BY <1>1, <1>5
<1> DEFINE U == {p \in 0 .. Len(b) :
                   /\ sum[p] \in Nat
                   /\ sum[p] # 0 => \E q \in 1 .. p : b[q].handle = handle}
<1>8. 0 \in U
  BY <1>1, <1>7
<1>9. ASSUME NEW p \in 1 .. Len(b), p - 1 \in U PROVE p \in U
  <2>1. b[p] \in Plane
    BY BoIs, ElementOfSeq
  <2>2. b[p].size \in Nat
    BY <2>1 DEF Plane
  <2>3. p \in 1 .. p /\ \A q \in 1 .. p - 1 : q \in 1 .. p
    BY <1>1
  <2>4. sum[p - 1] \in Nat /\ (sum[p - 1] # 0 => \E q \in 1 .. p - 1 : b[q].handle = handle)
    BY <1>9
  <2>5. sum[p] = sum[p - 1] + Share(b, handle, p) /\ p \in 0 .. Len(b)
    BY <1>1, <1>7
  <2>6. CASE b[p].handle = handle
    BY <2>2, <2>3, <2>4, <2>5, <2>6 DEF Share
  <2>7. CASE b[p].handle # handle
    <3>1. sum[p] = sum[p - 1]
      BY <2>4, <2>5, <2>7 DEF Share
    <3> QED
      BY <2>3, <2>4, <2>5, <3>1
  <2> QED
    BY <2>6, <2>7
<1> HIDE DEF U
<1>10. \A p \in 0 .. Len(b) : p \in U
  BY <1>1, <1>8, <1>9, UpTo
<1> QED
  BY <1>6, <1>7, <1>10 DEF U

\* dma_buf_map maps an object up to the end of the plane, and a plane that does
\* not begin with its object shares it.
LEMMA PlanesLie ==
  ASSUME NEW b \in Bos, NEW p \in DOMAIN b
  PROVE  /\ b[p].offset \in Nat /\ b[p].size \in Nat \ {0} /\ b[p].handle \in Handles
         /\ SizeUpTo(b, b[p].handle)[p] = b[p].offset + b[p].size
         /\ b[p].offset # 0 => Shared(b[p].handle)
         /\ p = 1 => b[p].offset = 0
<1>1. b \in Seq(Plane) /\ Len(b) \in Nat /\ DOMAIN b = 1 .. Len(b)
  BY BoIs, LenProperties
<1>2. b[p] \in Plane
  BY <1>1, ElementOfSeq
<1>3. b[p].offset = SizeUpTo(b, b[p].handle)[p - 1]
  BY MapperAssumption
<1>4. /\ b[p].offset \in Nat /\ b[p].size \in Nat \ {0} /\ b[p].handle \in Handles
  BY <1>2 DEF Plane
<1>5. SizeUpTo(b, b[p].handle)[p] = SizeUpTo(b, b[p].handle)[p - 1] + b[p].size
  BY <1>1, SizeUpToIs DEF Share
<1>6. ASSUME b[p].offset # 0 PROVE Shared(b[p].handle)
  <2>1. p - 1 \in 0 .. Len(b)
    BY <1>1
  <2>2. PICK q \in 1 .. p - 1 : b[q].handle = b[p].handle
    <3>1. SizeUpTo(b, b[p].handle)[p - 1] # 0
      BY <1>3, <1>6
    <3> QED
      BY <2>1, <3>1, SizeUpToIs, SMTT(20)
  <2>3. q \in DOMAIN b /\ q # p
    BY <1>1
  <2> QED
    BY <2>2, <2>3 DEF Shared
<1>7. ASSUME p = 1 PROVE b[p].offset = 0
  BY <1>3, <1>7, SizeUpToIs
<1> QED
  BY <1>3, <1>4, <1>5, <1>6, <1>7

----------------------------------------------------------------------------
\* Where the pages of a mapped plane begin, and which they are: the object's,
\* from its first byte to the end of the plane.
BaseOf(b, m) == (m.ptr - b[m.plane_index].offset) \div PageBytes
Area(b, m) ==
  Extent(BaseOf(b, m), b[m.plane_index].offset + b[m.plane_index].size)

\* The plane's pages are in the address space, and its pointer points to it.
Placed(mem, b, m) ==
  /\ m.plane_index \in DOMAIN b
  /\ BaseOf(b, m) \in Nat
  /\ m.ptr = BaseOf(b, m) * PageBytes + b[m.plane_index].offset
  /\ \A page \in Area(b, m) :
       /\ page \in Pages
       /\ mem[page] = <<b[m.plane_index].handle, page - BaseOf(b, m)>>

\* The planes mapped are, each in pages of its own, and no other page is one of
\* a buffer, but where dma_buf_unmap leaves some.
Placement(mem, k, b, maps) ==
  /\ \A i \in 1 .. Len(maps) : Placed(mem, b, maps[i])
  /\ \A i, j \in 1 .. Len(maps) : i # j => Area(b, maps[i]) \cap Area(b, maps[j]) = {}
  /\ \A page \in Pages :
       \/ mem[page] \in {Free, Heap}
       \/ k = "dma_buf" /\ Shared(mem[page][1])
       \/ \E i \in 1 .. Len(maps) : page \in Area(b, maps[i])

Infos == [plane_index : Nat, ptr : Nat]

LEMMA Scaled ==
  ASSUME NEW base \in Nat, NEW offset \in Nat
  PROVE  /\ base * PageBytes \in Nat
         /\ (base * PageBytes + offset - offset) \div PageBytes = base
         /\ (base * PageBytes) \div PageBytes = base
         /\ (base * PageBytes) % PageBytes = 0
<1>1. PICK n \in Nat \ {0} : n = PageBytes
  BY MapperAssumption
<1>2. base * n \in Nat
  OBVIOUS
<1>3. (base * n) \div n = base /\ (base * n) % n = 0
  BY <1>2
<1>4. base * n + offset - offset = base * n
  BY <1>2
<1> QED
  BY <1>1, <1>2, <1>3, <1>4

\* More bytes have as many pages or more, and at least one.
LEMMA PagesGrow ==
  ASSUME NEW fewer \in Nat, NEW more \in Nat, fewer <= more
  PROVE  /\ PagesOf(fewer) \in Nat /\ PagesOf(more) \in Nat
         /\ PagesOf(fewer) <= PagesOf(more)
<1>1. PICK n \in Nat \ {0} : n = PageBytes
  BY MapperAssumption
<1>2. PICK a, c : a = fewer + n - 1 /\ c = more + n - 1
  OBVIOUS
<1>3. a \in Nat /\ c \in Nat /\ a <= c
  BY <1>2
<1>4. a \div n \in Nat /\ c \div n \in Nat /\ a \div n <= c \div n
  <2>1. PICK d, e, s, t : d = a \div n /\ e = c \div n /\ s = a % n /\ t = c % n
    OBVIOUS
  <2>2. d \in Nat /\ e \in Nat /\ s \in 0 .. n - 1 /\ t \in 0 .. n - 1
    BY <1>3, <2>1
  <2>3. a = n * d + s /\ c = n * e + t
    BY <1>3, <2>1
  <2>4. ASSUME e < d PROVE FALSE
    <3>1. PICK f \in Nat : d = e + 1 + f
      <4>1. d - e - 1 \in Nat /\ d = e + 1 + (d - e - 1)
        BY <2>2, <2>4
      <4> QED
        BY <4>1
    <3>2. n * d = n * e + n + n * f /\ n * f \in Nat /\ n * e \in Nat
      BY <2>2, <3>1
    <3> QED
      BY <1>3, <2>2, <2>3, <3>2
  <2> QED
    BY <2>1, <2>2, <2>4
<1> QED
  BY <1>1, <1>2, <1>4 DEF PagesOf

\* The info of a plane that was mapped at base.
LEMMA AreaIs ==
  ASSUME NEW b \in Bos, NEW p \in DOMAIN b, NEW base \in Nat, NEW m \in Infos,
         m.plane_index = p, m.ptr = base * PageBytes + b[p].offset
  PROVE  BaseOf(b, m) = base /\ Area(b, m) = Extent(base, b[p].offset + b[p].size)
<1>1. b[p].offset \in Nat
  BY PlanesLie
<1>2. BaseOf(b, m) = base
  BY <1>1, Scaled DEF BaseOf
<1> QED
  BY <1>2 DEF Area

\* mmap of a plane where there is room.
LEMMA MapMore ==
  ASSUME NEW k, NEW b \in Bos, NEW maps \in Seq(Infos),
         Placement(memory, k, b, maps),
         NEW p \in DOMAIN b, NEW base,
         base \in Rooms(b[p].offset + b[p].size),
         NEW m \in Infos, m.plane_index = p, m.ptr = base * PageBytes + b[p].offset,
         NEW mem, mem = Mapped(base, b[p].offset + b[p].size, b[p].handle)
  PROVE  Placement(mem, k, b, Append(maps, m))
<1>1. PICK new, ext, h :
        /\ new = Append(maps, m) /\ ext = Extent(base, b[p].offset + b[p].size)
        /\ h = b[p].handle
  OBVIOUS
<1>2. base \in Pages /\ base \in Nat
  BY DEF Rooms, Pages
<1>3. BaseOf(b, m) = base /\ Area(b, m) = ext
  BY <1>1, <1>2, AreaIs
<1>4. \A page \in ext : page \in Pages /\ memory[page] = Free /\ mem[page] = <<h, page - base>>
  BY <1>1 DEF Rooms, Mapped
<1>5. \A page \in Pages \ ext : mem[page] = memory[page]
  BY <1>1 DEF Mapped
<1>6. h \in Handles /\ \A page \in ext : page - base \in Nat
  <2>1. \A page \in ext : page - base \in Nat
    BY <1>1, <1>2, <1>4 DEF Extent, Pages
  <2> QED
    BY <1>1, <2>1, PlanesLie
<1>7. /\ Len(maps) \in Nat /\ Len(new) = Len(maps) + 1
      /\ \A i \in 1 .. Len(maps) : new[i] = maps[i]
      /\ new[Len(maps) + 1] = m
  BY <1>1, AppendProperties, LenProperties
<1>8. ASSUME NEW i \in 1 .. Len(maps)
      PROVE  /\ Placed(mem, b, maps[i]) /\ Area(b, maps[i]) \cap ext = {}
  <2>1. Placed(memory, b, maps[i])
    BY DEF Placement
  <2>2. PICK x, g : x = BaseOf(b, maps[i]) /\ g = b[maps[i].plane_index].handle
    OBVIOUS
  <2>3. \A page \in Area(b, maps[i]) :
          page \in Pages /\ memory[page] = <<g, page - x>> /\ memory[page] # Free
    <3>1. maps[i].plane_index \in DOMAIN b /\ x \in Nat
      BY <2>1, <2>2 DEF Placed
    <3>2. g \in Handles
      BY <2>2, <3>1, PlanesLie
    <3>3. \A page \in Area(b, maps[i]) : page \in Pages /\ memory[page] = <<g, page - x>>
      BY <2>1, <2>2 DEF Placed
    <3>4. \A page \in Area(b, maps[i]) : page - x \in Nat
      BY <2>2, <3>1, <3>3 DEF Area, Extent, Pages
    <3>5. \A page \in Area(b, maps[i]) : <<g, page - x>> \in Handles \X Nat
      BY <3>2, <3>4
    <3> QED
      BY <3>3, <3>5, MapperAssumption
  <2>4. Area(b, maps[i]) \cap ext = {}
    BY <1>4, <2>3
  <2>5. \A page \in Area(b, maps[i]) : mem[page] = memory[page]
    BY <1>5, <2>3, <2>4
  <2>6. Placed(mem, b, maps[i])
    BY <2>1, <2>5 DEF Placed
  <2> QED
    BY <2>4, <2>6
<1>9. Placed(mem, b, m)
  BY <1>1, <1>2, <1>3, <1>4 DEF Placed
<1>10. \A i \in 1 .. Len(new) : i \in 1 .. Len(maps) \/ i = Len(maps) + 1
  BY <1>7
<1>11. \A i \in 1 .. Len(new) : Placed(mem, b, new[i])
  BY <1>7, <1>8, <1>9, <1>10
<1>12. ASSUME NEW i \in 1 .. Len(new), NEW j \in 1 .. Len(new), i # j
       PROVE  Area(b, new[i]) \cap Area(b, new[j]) = {}
  <2>1. CASE i \in 1 .. Len(maps) /\ j \in 1 .. Len(maps)
    BY <1>7, <1>12, <2>1 DEF Placement
  <2>2. CASE i \in 1 .. Len(maps) /\ j = Len(maps) + 1
    BY <1>3, <1>7, <1>8, <2>2
  <2>3. CASE i = Len(maps) + 1 /\ j \in 1 .. Len(maps)
    BY <1>3, <1>7, <1>8, <2>3
  <2> QED
    BY <1>10, <1>12, <2>1, <2>2, <2>3
<1>13. ASSUME NEW page \in Pages
       PROVE  \/ mem[page] \in {Free, Heap}
              \/ k = "dma_buf" /\ Shared(mem[page][1])
              \/ \E i \in 1 .. Len(new) : page \in Area(b, new[i])
  <2>1. CASE page \in ext
    <3>1. Len(maps) + 1 \in 1 .. Len(new)
      BY <1>7
    <3> QED
      BY <1>3, <1>7, <2>1, <3>1
  <2>2. CASE page \notin ext
    <3>1. mem[page] = memory[page]
      BY <1>5, <2>2
    <3>2. ASSUME NEW i \in 1 .. Len(maps), page \in Area(b, maps[i])
          PROVE  \E j \in 1 .. Len(new) : page \in Area(b, new[j])
      <4>1. i \in 1 .. Len(new) /\ new[i] = maps[i]
        BY <1>7
      <4> QED
        BY <3>2, <4>1
    <3>3. \/ memory[page] \in {Free, Heap}
          \/ k = "dma_buf" /\ Shared(memory[page][1])
          \/ \E i \in 1 .. Len(maps) : page \in Area(b, maps[i])
      BY DEF Placement
    <3> QED
      BY <3>1, <3>2, <3>3
  <2> QED
    BY <2>1, <2>2
<1> QED
  BY <1>1, <1>11, <1>12, <1>13 DEF Placement

\* A page that a step frees is one of the plane's object.
Frees(mem, b, p) ==
  \A page \in Pages :
    memory[page] # Free /\ mem[page] = Free
      => memory[page] # Heap /\ memory[page][1] = b[p].handle

\* munmap of the first plane, as long as it is mapped or, by dma_buf_unmap, as
\* the plane is.
LEMMA MapLess ==
  ASSUME NEW k, NEW b \in Bos, NEW maps \in Seq(Infos), maps # << >>,
         Placement(memory, k, b, maps),
         NEW m, m = Head(maps), NEW p, p = m.plane_index, NEW length,
         \/ length = b[p].offset + b[p].size
         \/ length = b[p].size /\ k = "dma_buf",
         NEW mem, mem = Unmapped(m.ptr - b[p].offset, length)
  PROVE  Placement(mem, k, b, Tail(maps)) /\ Frees(mem, b, p)
<1>1. /\ Len(maps) \in Nat /\ 1 \in 1 .. Len(maps) /\ m = maps[1]
      /\ Len(Tail(maps)) = Len(maps) - 1
      /\ \A i \in 1 .. Len(maps) - 1 : Tail(maps)[i] = maps[i + 1]
  BY HeadTailProperties, LenProperties, EmptySeq
<1>2. PICK base, h, area, cut, rest :
        /\ base = BaseOf(b, m) /\ h = b[p].handle /\ area = Area(b, m)
        /\ cut = Extent(base, length) /\ rest = Tail(maps)
  OBVIOUS
<1>3. /\ p \in DOMAIN b /\ base \in Nat /\ m.ptr = base * PageBytes + b[p].offset
      /\ \A page \in area : page \in Pages /\ memory[page] = <<h, page - base>>
      /\ area = Extent(base, b[p].offset + b[p].size)
  <2>1. Placed(memory, b, m)
    BY <1>1 DEF Placement
  <2> QED
    BY <1>2, <2>1 DEF Placed, Area
<1>4. /\ b[p].offset \in Nat /\ b[p].size \in Nat /\ h \in Handles
      /\ b[p].offset # 0 => Shared(h)
  BY <1>2, <1>3, PlanesLie
<1>5. mem = [page \in Pages |-> IF page \in cut THEN Free ELSE memory[page]]
  <2>1. m.ptr - b[p].offset = base * PageBytes
    <3>1. base * PageBytes \in Nat
      BY <1>3, Scaled
    <3> QED
      BY <1>3, <1>4, <3>1
  <2>2. (base * PageBytes) % PageBytes = 0 /\ (base * PageBytes) \div PageBytes = base
    BY <1>3, <1>4, Scaled
  <2>3. mem = Unmapped(base * PageBytes, length)
    BY <2>1
  <2> QED
    BY <1>2, <2>2, <2>3 DEF Unmapped
<1>6. cut \subseteq area
  <2>1. length \in Nat /\ length <= b[p].offset + b[p].size
        /\ b[p].offset + b[p].size \in Nat
    BY <1>4
  <2>2. /\ PagesOf(length) \in Nat /\ PagesOf(b[p].offset + b[p].size) \in Nat
        /\ PagesOf(length) <= PagesOf(b[p].offset + b[p].size)
    BY <2>1, PagesGrow
  <2> QED
    BY <1>2, <1>3, <2>2 DEF Extent
<1>7. ASSUME NEW page \in area
      PROVE  page - base \in Nat
  <2>1. page \in Pages /\ page \in Extent(base, b[p].offset + b[p].size)
    BY <1>3
  <2> QED
    BY <1>3, <2>1 DEF Extent, Pages
<1>8. \A page \in area : memory[page] # Heap /\ memory[page][1] = h
  <2>1. ASSUME NEW page \in area
        PROVE  memory[page] # Heap /\ memory[page][1] = h
    <3>1. PICK n \in Nat : n = page - base
      BY <1>7
    <3>2. memory[page] = <<h, n>> /\ <<h, n>> \in Handles \X Nat
      BY <1>3, <1>4, <3>1
    <3>3. memory[page] # Heap
      BY <3>2, MapperAssumption
    <3> QED
      BY <3>2, <3>3
  <2> QED
    BY <2>1
<1>9. Frees(mem, b, p)
  BY <1>2, <1>5, <1>6, <1>8 DEF Frees
<1>10. ASSUME NEW i \in 1 .. Len(rest)
       PROVE  /\ i + 1 \in 1 .. Len(maps) /\ rest[i] = maps[i + 1]
              /\ Placed(mem, b, rest[i]) /\ Area(b, rest[i]) \cap area = {}
  <2>1. i + 1 \in 1 .. Len(maps) /\ rest[i] = maps[i + 1] /\ i + 1 # 1
    BY <1>1, <1>2
  <2>2. Placed(memory, b, rest[i])
    BY <2>1 DEF Placement
  <2>3. Area(b, maps[i + 1]) \cap Area(b, maps[1]) = {}
    BY <1>1, <2>1 DEF Placement
  <2>4. Area(b, rest[i]) \cap area = {}
    BY <1>1, <1>2, <2>1, <2>3
  <2>5. \A page \in Area(b, rest[i]) : page \in Pages /\ mem[page] = memory[page]
    BY <1>5, <1>6, <2>2, <2>4 DEF Placed
  <2>6. Placed(mem, b, rest[i])
    BY <2>2, <2>5 DEF Placed
  <2> QED
    BY <2>1, <2>4, <2>6
<1>11. ASSUME NEW i \in 1 .. Len(rest), NEW j \in 1 .. Len(rest), i # j
       PROVE  Area(b, rest[i]) \cap Area(b, rest[j]) = {}
  <2>1. /\ i + 1 \in 1 .. Len(maps) /\ j + 1 \in 1 .. Len(maps) /\ i + 1 # j + 1
        /\ rest[i] = maps[i + 1] /\ rest[j] = maps[j + 1]
    BY <1>1, <1>2, <1>10, <1>11
  <2> QED
    BY <2>1 DEF Placement
<1>12. ASSUME NEW page \in Pages
       PROVE  \/ mem[page] \in {Free, Heap}
              \/ k = "dma_buf" /\ Shared(mem[page][1])
              \/ \E i \in 1 .. Len(rest) : page \in Area(b, rest[i])
  <2>1. CASE page \in cut
    BY <1>5, <2>1
  <2>2. CASE page \in area \ cut
    <3>1. k = "dma_buf" /\ b[p].offset # 0
      <4>1. length # b[p].offset + b[p].size
        BY <1>2, <1>3, <2>2
      <4> QED
        BY <1>4, <4>1
    <3>2. mem[page] = memory[page] /\ memory[page][1] = h
      BY <1>5, <1>8, <2>2
    <3> QED
      BY <1>4, <3>1, <3>2
  <2>3. CASE page \notin area
    <3>1. mem[page] = memory[page]
      BY <1>5, <1>6, <2>3
    <3>2. ASSUME NEW i \in 1 .. Len(maps), page \in Area(b, maps[i])
          PROVE  \E j \in 1 .. Len(rest) : page \in Area(b, rest[j])
      <4>1. i # 1
        BY <1>1, <1>2, <2>3, <3>2
      <4>2. i - 1 \in 1 .. Len(rest) /\ (i - 1) + 1 = i
        BY <1>1, <1>2, <4>1
      <4>3. rest[i - 1] = maps[i]
        BY <1>10, <4>2
      <4> QED
        BY <3>2, <4>2, <4>3
    <3>3. \/ memory[page] \in {Free, Heap}
          \/ k = "dma_buf" /\ Shared(memory[page][1])
          \/ \E i \in 1 .. Len(maps) : page \in Area(b, maps[i])
      BY DEF Placement
    <3> QED
      BY <3>1, <3>2, <3>3
  <2> QED
    BY <2>1, <2>2, <2>3
<1> QED
  BY <1>2, <1>9, <1>10, <1>11, <1>12 DEF Placement

----------------------------------------------------------------------------
\* The planes that have pages: those mapped, and from mmap to the end of
\* dma_buf_map the one being mapped.
Live ==
  IF pc = "sync_start" /\ ptr # Null
  THEN Append(planes, [plane_index |-> plane, ptr |-> ptr])
  ELSE planes

\* The planes lie where their infos say; a dumb mapper has mapped only the first;
\* until the buffer is drawn to, the planes are the first ones in their order.
Places ==
  /\ Placement(memory, kind, bo, Live)
  /\ kind = "dumb" => \A i \in 1 .. Len(Live) : Live[i].plane_index = 1
  /\ pc \in {"map", "sync_start", "draw"} =>
       \A i \in 1 .. Len(Live) : Live[i].plane_index = i

\* What UnmapsOwn asks of a step.
Owned ==
  \A page \in Pages :
    (memory[page] # Free /\ memory'[page] = Free)
      => (memory[page] # Heap /\ memory[page][1] = bo[info.plane_index].handle)

LEMMA LiveType ==
  ASSUME Inv
  PROVE  /\ planes \in Seq(Infos) /\ Live \in Seq(Infos)
         /\ pc # "sync_start" \/ ptr = Null => Live = planes
<1>1. planes \in Seq(Infos) /\ ptr \in Nat \cup {Null} /\ Len(planes) \in Nat
  BY LenProperties DEF Inv, TypeOK, Infos
<1>2. ptr # Null => [plane_index |-> plane, ptr |-> ptr] \in Infos
  BY <1>1 DEF plane, Infos
<1> QED
  BY <1>1, <1>2, AppendProperties DEF Live

\* A plane more is mapped, the next one.
LEMMA InfoMore ==
  ASSUME NEW maps \in Seq(Infos), NEW m \in Infos, m.plane_index = Len(maps) + 1,
         \A i \in 1 .. Len(maps) : maps[i].plane_index = i
  PROVE  \A i \in 1 .. Len(Append(maps, m)) : Append(maps, m)[i].plane_index = i
<1>1. /\ Len(maps) \in Nat /\ Len(Append(maps, m)) = Len(maps) + 1
      /\ \A i \in 1 .. Len(maps) : Append(maps, m)[i] = maps[i]
      /\ Append(maps, m)[Len(maps) + 1] = m
  BY AppendProperties, LenProperties
<1>2. \A i \in 1 .. Len(Append(maps, m)) : i \in 1 .. Len(maps) \/ i = Len(maps) + 1
  BY <1>1
<1> QED
  BY <1>1, <1>2

\* Nothing is mapped or unmapped.
LEMMA QuietStep ==
  ASSUME Inv, Places, Live' = Live, memory' = memory, kind' = kind,
         bo' = bo \/ Live = << >>,
         pc' \in {"map", "sync_start", "draw"} =>
           pc \in {"map", "sync_start", "draw"} \/ Live = << >>
  PROVE  Places' /\ Owned
<1>1. Owned
  BY DEF Owned
<1>2. Placement(memory, kind, bo', Live)
  <2>1. CASE bo' = bo
    BY <2>1 DEF Places
  <2>2. CASE Live = << >>
    <3>1. 1 .. Len(Live) = {}
      BY <2>2
    <3>2. Placement(memory, kind, bo, Live)
      BY DEF Places
    <3> QED
      BY <3>1, <3>2 DEF Placement
  <2> QED
    BY <2>1, <2>2
<1>3. Live = << >> => 1 .. Len(Live) = {}
  OBVIOUS
<1>4. /\ kind' = "dumb" => \A i \in 1 .. Len(Live') : Live'[i].plane_index = 1
      /\ pc' \in {"map", "sync_start", "draw"} =>
           \A i \in 1 .. Len(Live') : Live'[i].plane_index = i
  BY <1>3 DEF Places
<1>5. Placement(memory', kind', bo', Live')
  BY <1>2
<1> QED
  BY <1>1, <1>4, <1>5 DEF Places

\* A plane is mapped, by whichever mapper.
LEMMA MapStep ==
  ASSUME Inv, Places, pc = "map", pc' \in {"map", "sync_start"},
         kind' = kind, bo' = bo, bo \in Bos, plane \in DOMAIN bo,
         kind = "dumb" => plane = 1,
         NEW base, base \in Rooms(bo[plane].offset + bo[plane].size),
         memory' = Mapped(base, bo[plane].offset + bo[plane].size, bo[plane].handle),
         Live' = Append(planes, [plane_index |-> plane,
                                 ptr |-> base * PageBytes + bo[plane].offset])
  PROVE  Places' /\ Owned
<1>1. PICK mem, k, b, maps, p, m, new :
        /\ mem = memory' /\ k = kind /\ b = bo /\ maps = planes /\ p = plane
        /\ m = [plane_index |-> plane, ptr |-> base * PageBytes + bo[plane].offset]
        /\ new = Live'
  OBVIOUS
<1>2. maps \in Seq(Infos) /\ Live = maps /\ Len(maps) \in Nat /\ p = Len(maps) + 1
  BY <1>1, LiveType, LenProperties DEF plane
<1>3. b \in Bos /\ p \in DOMAIN b /\ b[p].offset \in Nat /\ new = Append(maps, m)
  BY <1>1, PlanesLie
<1>4. m \in Infos /\ m.plane_index = p /\ m.ptr = base * PageBytes + b[p].offset
  <2>1. base \in Pages
    BY DEF Rooms
  <2>2. base * PageBytes + b[p].offset \in Nat
    BY <1>3, <2>1, AddressType
  <2> QED
    BY <1>1, <1>2, <2>2 DEF Infos
<1>5. Placement(memory, k, b, maps)
  BY <1>1, <1>2 DEF Places
<1>6. /\ base \in Rooms(b[p].offset + b[p].size)
      /\ mem = Mapped(base, b[p].offset + b[p].size, b[p].handle)
  BY <1>1
<1>7. Placement(mem, k, b, Append(maps, m))
  BY <1>2, <1>3, <1>4, <1>5, <1>6, MapMore
<1>8. \A i \in 1 .. Len(new) : new[i].plane_index = i
  <2>1. \A i \in 1 .. Len(maps) : maps[i].plane_index = i
    BY <1>2 DEF Places
  <2> QED
    BY <1>2, <1>3, <1>4, <2>1, InfoMore
<1>9. ASSUME k = "dumb" PROVE \A i \in 1 .. Len(new) : new[i].plane_index = 1
  <2>1. Len(maps) = 0
    BY <1>1, <1>2, <1>9
  <2>2. Len(new) = 1
    BY <1>2, <1>3, <1>4, <2>1, AppendProperties
  <2> QED
    BY <1>8, <2>2
<1>10. Places'
  BY <1>1, <1>3, <1>7, <1>8, <1>9 DEF Places
<1>11. Owned
  <2>1. ASSUME NEW page \in Pages, memory[page] # Free PROVE mem[page] # Free
    <3>1. CASE page \in Extent(base, b[p].offset + b[p].size)
      BY <1>6, <2>1, <3>1 DEF Rooms
    <3>2. CASE page \notin Extent(base, b[p].offset + b[p].size)
      BY <1>6, <2>1, <3>2 DEF Mapped
    <3> QED
      BY <3>1, <3>2
  <2> QED
    BY <1>1, <2>1 DEF Owned
<1> QED
  BY <1>10, <1>11

\* The first of the planes mapped is unmapped.
LEMMA UnmapStep ==
  ASSUME Inv, Places, pc \in {"unmap", "sync_end"}, pc' = "unmap",
         kind' = kind, bo' = bo, planes # << >>, planes' = Tail(planes),
         NEW length,
         \/ length = bo[info.plane_index].offset + size
         \/ length = size /\ kind = "dma_buf",
         memory' = Unmapped(info.ptr - bo[info.plane_index].offset, length)
  PROVE  Places' /\ Owned
<1>1. PICK mem, k, b, maps, m, p :
        /\ mem = memory' /\ k = kind /\ b = bo /\ maps = planes
        /\ m = info /\ p = info.plane_index
  OBVIOUS
<1>2. maps \in Seq(Infos) /\ maps # << >> /\ Live = maps /\ m = Head(maps)
  BY <1>1, LiveType DEF info
<1>3. Live' = Tail(maps)
  BY <1>1 DEF Live
<1>4. b \in Bos
  BY <1>1 DEF Inv, TypeOK
<1>5. Placement(memory, k, b, maps)
  BY <1>1, <1>2 DEF Places
<1>6. /\ p = m.plane_index /\ mem = Unmapped(m.ptr - b[p].offset, length)
      /\ \/ length = b[p].offset + b[p].size
         \/ length = b[p].size /\ k = "dma_buf"
  BY <1>1 DEF size
<1>7. Placement(mem, k, b, Tail(maps)) /\ Frees(mem, b, p)
  BY <1>2, <1>4, <1>5, <1>6, MapLess
<1>8. ASSUME k = "dumb" PROVE \A i \in 1 .. Len(Tail(maps)) : Tail(maps)[i].plane_index = 1
  <2>1. /\ Len(maps) \in Nat /\ Len(Tail(maps)) = Len(maps) - 1
        /\ \A i \in 1 .. Len(maps) - 1 : Tail(maps)[i] = maps[i + 1]
    BY <1>2, HeadTailProperties, LenProperties
  <2>2. \A i \in 1 .. Len(maps) : maps[i].plane_index = 1
    BY <1>1, <1>2, <1>8 DEF Places
  <2>3. \A i \in 1 .. Len(maps) - 1 : i + 1 \in 1 .. Len(maps)
    BY <2>1
  <2> QED
    BY <2>1, <2>2, <2>3
<1>9. Places'
  BY <1>1, <1>3, <1>7, <1>8 DEF Places
<1>10. Owned
  BY <1>1, <1>7 DEF Owned, Frees
<1> QED
  BY <1>9, <1>10

LEMMA QuietSteps ==
  ASSUME Inv, Places,
         \/ bs_mapper_new \/ bs_mapper_destroy \/ StartDraw \/ Interrupted
         \/ RefusePlane \/ AllMapped \/ Draw \/ DmaBufUnmap \/ Return
  PROVE  Places' /\ Owned
<1>1. CASE bs_mapper_new \/ bs_mapper_destroy \/ Interrupted
  <2>1. /\ UNCHANGED <<kind, bo, pc, ptr, planes, memory>>
    BY <1>1 DEF bs_mapper_new, bs_mapper_destroy, Interrupted, local
  <2>2. Live' = Live
    BY <2>1 DEF Live, plane
  <2> QED
    BY <2>1, <2>2, QuietStep
<1>2. CASE StartDraw
  <2>1. /\ UNCHANGED <<kind, planes, memory>> /\ pc = "idle" /\ pc' = "map"
        /\ planes = << >>
    BY <1>2 DEF StartDraw, Inv, Progress
  <2>2. Live' = Live /\ Live = << >>
    BY <2>1 DEF Live
  <2> QED
    BY <2>1, <2>2, QuietStep
<1>3. CASE RefusePlane \/ AllMapped \/ Draw \/ DmaBufUnmap
  <2>1. /\ UNCHANGED <<kind, bo, planes, memory>>
        /\ pc # "sync_start" /\ pc' # "sync_start"
        /\ pc' \in {"map", "sync_start", "draw"} => pc \in {"map", "sync_start", "draw"}
    BY <1>3 DEF RefusePlane, AllMapped, Draw, DmaBufUnmap, MapFailed, Mapping, Unmapping
  <2>2. Live' = Live
    BY <2>1 DEF Live
  <2> QED
    BY <2>1, <2>2, QuietStep
<1>4. CASE Return
  <2>1. /\ UNCHANGED <<kind, planes, memory>> /\ pc = "unmap" /\ pc' = "idle"
        /\ planes = << >>
    BY <1>4 DEF Return
  <2>2. Live' = Live /\ Live = << >>
    BY <2>1 DEF Live
  <2> QED
    BY <2>1, <2>2, QuietStep
<1> QED
  BY <1>1, <1>2, <1>3, <1>4

LEMMA MapSteps ==
  ASSUME Inv, Places, DmaBufMap \/ SyncStart \/ GemMap \/ DumbMap
  PROVE  Places' /\ Owned
<1>1. CASE DmaBufMap
  <2>1. /\ pc = "map" /\ pc' = "sync_start" /\ kind = "dma_buf"
        /\ UNCHANGED <<kind, bo, planes>>
        /\ bo \in Bos /\ plane \in DOMAIN bo
    BY <1>1, PlaneIs DEF DmaBufMap, Mapping
  <2>2. dma_buf_length(plane) = bo[plane].offset + bo[plane].size
    BY <2>1, PlanesLie DEF dma_buf_length
  <2>3. CASE ptr' = Null /\ memory' = memory
    <3>1. Live' = Live
      BY <2>1, <2>3 DEF Live
    <3> QED
      BY <2>1, <2>3, <3>1, QuietStep
  <2>4. ASSUME NEW base, base \in Rooms(bo[plane].offset + bo[plane].size),
               ptr' = base * PageBytes + bo[plane].offset,
               memory' = Mapped(base, bo[plane].offset + bo[plane].size, bo[plane].handle)
        PROVE  Places' /\ Owned
    <3>1. ptr' # Null
      <4>1. base \in Pages /\ bo[plane].offset \in Nat
        BY <2>1, <2>4, PlanesLie DEF Rooms
      <4> QED
        BY <2>4, <4>1, AddressType, MapperAssumption
    <3>2. plane' = plane
      BY <2>1 DEF plane
    <3>3. Live' = Append(planes, [plane_index |-> plane,
                                  ptr |-> base * PageBytes + bo[plane].offset])
      BY <2>1, <2>4, <3>1, <3>2 DEF Live
    <3> QED
      BY <2>1, <2>4, <3>3, MapStep
  <2> QED
    BY <1>1, <2>2, <2>3, <2>4 DEF DmaBufMap
<1>2. CASE SyncStart
  <2>1. /\ pc = "sync_start" /\ pc' \in {"map", "unmap"}
        /\ UNCHANGED <<kind, bo, ptr, memory>>
        /\ IF ptr = Null THEN MapFailed ELSE KeepPlane(ptr)
    BY <1>2 DEF SyncStart, MapFailed, KeepPlane
  <2>2. Live' = Live
    BY <2>1 DEF Live, MapFailed, KeepPlane
  <2> QED
    BY <2>1, <2>2, QuietStep
<1>3. CASE GemMap \/ DumbMap
  <2>1. /\ pc = "map" /\ UNCHANGED <<kind, bo, ptr>> /\ kind \in {"gem", "dumb"}
        /\ bo \in Bos /\ plane \in DOMAIN bo /\ (kind = "dumb" => plane = 1)
    BY <1>3, PlaneIs DEF GemMap, DumbMap, Mapping
  <2>2. CASE MapFailed /\ memory' = memory
    <3>1. Live' = Live /\ pc' = "unmap"
      BY <2>1, <2>2 DEF Live, MapFailed
    <3> QED
      BY <2>1, <2>2, <3>1, QuietStep
  <2>3. ASSUME NEW base, base \in Rooms(bo[plane].offset + bo[plane].size),
               memory' = Mapped(base, bo[plane].offset + bo[plane].size, bo[plane].handle),
               KeepPlane(base * PageBytes + bo[plane].offset)
        PROVE  Places' /\ Owned
    <3>1. Live' = Append(planes, [plane_index |-> plane,
                                  ptr |-> base * PageBytes + bo[plane].offset])
          /\ pc' = "map"
      BY <2>3 DEF Live, KeepPlane
    <3> QED
      BY <2>1, <2>3, <3>1, MapStep
  <2>4. CASE GemMap
    BY <2>2, <2>3, <2>4 DEF GemMap
  <2>5. CASE DumbMap
    <3>1. plane = 1 /\ bo[1].offset = 0 /\ bo[1].size \in Nat
      BY <2>1, <2>5, PlanesLie DEF DumbMap
    <3>2. bo[plane].offset + bo[plane].size = bo[1].size
      BY <3>1
    <3>3. ASSUME NEW base \in Rooms(bo[1].size)
          PROVE  base * PageBytes = base * PageBytes + bo[plane].offset
      <4>1. base \in Pages /\ 0 \in Nat
        BY DEF Rooms
      <4>2. base * PageBytes \in Nat
        BY <4>1, AddressType
      <4> QED
        BY <3>1, <4>2
    <3> QED
      BY <2>2, <2>3, <2>5, <3>1, <3>2, <3>3 DEF DumbMap
  <2> QED
    BY <1>3, <2>4, <2>5
<1> QED
  BY <1>1, <1>2, <1>3

LEMMA UnmapSteps ==
  ASSUME Inv, Places, SyncEnd \/ GemUnmap \/ DumbUnmap
  PROVE  Places' /\ Owned
<1>1. CASE SyncEnd
  <2>1. /\ pc = "sync_end" /\ pc' = "unmap" /\ kind = "dma_buf" /\ planes # << >>
        /\ UNCHANGED <<kind, bo>> /\ planes' = Tail(planes)
        /\ memory' = Unmapped(info.ptr - bo[info.plane_index].offset, size)
    BY <1>1 DEF SyncEnd, Inv, Control, Progress
  <2> QED
    BY <2>1, UnmapStep
<1>2. CASE GemUnmap
  <2>1. /\ pc = "unmap" /\ pc' = "unmap" /\ planes # << >>
        /\ UNCHANGED <<kind, bo>> /\ planes' = Tail(planes)
        /\ memory' = Unmapped(info.ptr - bo[info.plane_index].offset,
                              bo[info.plane_index].offset + size)
    BY <1>2 DEF GemUnmap, Unmapping
  <2> QED
    BY <2>1, UnmapStep
<1>3. CASE DumbUnmap
  <2>1. /\ pc = "unmap" /\ pc' = "unmap" /\ planes # << >> /\ kind = "dumb"
        /\ UNCHANGED <<kind, bo>> /\ planes' = Tail(planes)
        /\ memory' = Unmapped(info.ptr, size) /\ bo \in Bos
    BY <1>3 DEF DumbUnmap, Unmapping, Inv, TypeOK
  <2>2. /\ Live = planes /\ planes \in Seq(Infos) /\ 1 \in 1 .. Len(planes)
        /\ info = planes[1]
    BY <2>1, LiveType, LenProperties, HeadTailProperties, EmptySeq DEF info
  <2>3. info.plane_index = 1 /\ info \in Infos
    BY <2>1, <2>2, ElementOfSeq DEF Places
  <2>4. 1 \in DOMAIN bo
    BY <2>1, BoIs, LenProperties
  <2>5. bo[1].offset = 0 /\ bo[1].size \in Nat /\ info.ptr \in Nat
    BY <2>1, <2>3, <2>4, PlanesLie DEF Infos
  <2>6. info.ptr - bo[info.plane_index].offset = info.ptr
        /\ bo[info.plane_index].offset + size = size
    BY <2>3, <2>5 DEF size
  <2> QED
    BY <2>1, <2>6, UnmapStep
<1> QED
  BY <1>1, <1>2, <1>3

LEMMA PlacesStep == Inv /\ Places /\ [Next]_vars => Places' /\ Owned
<1> SUFFICES ASSUME Inv, Places, [Next]_vars PROVE Places' /\ Owned
  OBVIOUS
<1>1. CASE UNCHANGED vars
  <2>1. UNCHANGED <<kind, bo, pc, ptr, planes, memory>>
    BY <1>1 DEF vars, local
  <2>2. Live' = Live
    BY <2>1 DEF Live, plane
  <2> QED
    BY <2>1, <2>2, QuietStep
<1>2. CASE Next
  BY <1>2, QuietSteps, MapSteps, UnmapSteps DEF Next, Step
<1> QED
  BY <1>1, <1>2

LEMMA InitPlaces == Init => Places
<1> SUFFICES ASSUME Init PROVE Places
  OBVIOUS
<1>1. planes = << >> /\ pc = "idle" /\ Live = << >> /\ 1 .. Len(Live) = {}
  BY DEF Init, Live
<1>2. \A page \in Pages : memory[page] \in {Free, Heap}
  BY DEF Init
<1> QED
  BY <1>1, <1>2 DEF Places, Placement

LEMMA PlacesKept == Spec => [](Inv /\ Places)
BY InitInv, NextInv, InitPlaces, PlacesStep, PTL DEF Spec

\* Between calls, however the last one ended, no page of a buffer is left
\* mapped, but of one that dma_buf_map mapped and that shares its object.
THEOREM MappingsAreUndone == Spec => []MappingsUndone
<1>1. Inv /\ Places => MappingsUndone
  <2> SUFFICES ASSUME Inv, Places, pc = "idle", NEW page \in Pages
               PROVE  \/ memory[page] \in {Free, Heap}
                      \/ kind = "dma_buf" /\ Shared(memory[page][1])
    BY DEF MappingsUndone
  <2>1. Live = << >> /\ 1 .. Len(Live) = {}
    BY DEF Inv, Progress, Live
  <2> QED
    BY <2>1 DEF Places, Placement
<1> QED
  BY <1>1, PlacesKept, PTL

\* munmap never takes a page of the program, nor one of another object.
THEOREM UnmappingIsOwn == Spec => UnmapsOwn
<1>1. Inv /\ Places /\ [Next]_vars => [Owned]_vars
  BY PlacesStep
<1> QED
  BY <1>1, PlacesKept, PTL DEF Spec, UnmapsOwn, Owned

----------------------------------------------------------------------------
\* The bytes of the mapped planes, and the picture that is drawn to them.

LEMMA Divides ==
  ASSUME NEW a \in Nat, NEW n \in Nat \ {0}
  PROVE  a \div n \in Nat /\ a % n \in 0 .. n - 1 /\ a = n * (a \div n) + (a % n)
OBVIOUS

\* Division is unique.
LEMMA Divided ==
  ASSUME NEW n \in Nat \ {0}, NEW d \in Nat, NEW r \in 0 .. n - 1,
         NEW a, a = n * d + r
  PROVE  a \in Nat /\ a \div n = d /\ a % n = r
<1>1. a \in Nat
  <2>1. n * d \in Nat
    OBVIOUS
  <2> QED
    BY <2>1
<1>2. PICK e, s : e = a \div n /\ s = a % n
  OBVIOUS
<1>3. e \in Nat /\ s \in 0 .. n - 1 /\ a = n * e + s
  BY <1>1, <1>2, Divides
<1>4. ASSUME NEW b \in Nat, NEW c \in Nat, b < c, NEW t \in 0 .. n - 1,
             NEW u \in 0 .. n - 1, n * b + t = n * c + u
      PROVE  FALSE
  <2>1. PICK f \in Nat : c = b + 1 + f
    <3>1. c - b - 1 \in Nat /\ c = b + 1 + (c - b - 1)
      BY <1>4
    <3> QED
      BY <3>1
  <2>2. n * c = n * b + n + n * f /\ n * f \in Nat /\ n * b \in Nat
    BY <2>1
  <2> QED
    BY <1>4, <2>2
<1>5. ~(e < d) /\ ~(d < e)
  BY <1>3, <1>4
<1>6. e = d
  BY <1>3, <1>5
<1>7. s = r
  <2>1. n * d \in Nat
    OBVIOUS
  <2> QED
    BY <1>3, <1>6, <2>1
<1> QED
  BY <1>1, <1>2, <1>6, <1>7

\* A byte of so many is in one of the pages they need.
LEMMA PageOfByte ==
  ASSUME NEW n \in Nat \ {0}, NEW length \in Nat, NEW place \in Nat, place < length
  PROVE  (length + n - 1) \div n \in Nat /\ place \div n < (length + n - 1) \div n
<1>1. PICK up, q, r, e, v :
        /\ up = length + n - 1
        /\ q = place \div n /\ r = place % n /\ e = up \div n /\ v = up % n
  OBVIOUS
<1>2. up \in Nat
  BY <1>1
<1>3. q \in Nat /\ r \in 0 .. n - 1 /\ place = n * q + r
  BY <1>1, Divides
<1>4. e \in Nat /\ v \in 0 .. n - 1 /\ up = n * e + v
  BY <1>1, <1>2, Divides
<1>5. ASSUME e <= q PROVE FALSE
  <2>1. PICK f \in Nat : q = e + f
    <3>1. q - e \in Nat /\ q = e + (q - e)
      BY <1>3, <1>4, <1>5
    <3> QED
      BY <3>1
  <2>2. n * q = n * e + n * f /\ n * f \in Nat /\ n * e \in Nat
    BY <1>4, <2>1
  <2>3. up = length + n - 1
    BY <1>1
  <2> QED
    BY <1>3, <1>4, <2>2, <2>3
<1>6. q < e
  BY <1>3, <1>4, <1>5
<1> QED
  BY <1>1, <1>4, <1>6

\* So a byte of a plane that was mapped is where the plane's pointer says.
LEMMA ByteIsPlaced ==
  ASSUME bo \in Bos, NEW m, Placed(memory, bo, m), NEW p, p = m.plane_index,
         NEW byte \in 0 .. bo[p].size - 1
  PROVE  PlaceAt(m.ptr + byte) = PlaceIn(p, byte)
<1>1. PICK base, offset, length, n :
        base = BaseOf(bo, m) /\ offset = bo[p].offset /\ length = bo[p].size /\ n = PageBytes
  OBVIOUS
<1>2. p \in DOMAIN bo /\ base \in Nat /\ m.ptr = base * n + offset
  BY <1>1 DEF Placed
<1>3. offset \in Nat /\ length \in Nat
  BY <1>1, <1>2, PlanesLie
<1>4. n \in Nat \ {0} /\ base * n \in Nat
  BY <1>1, <1>2, MapperAssumption
<1>5. PICK place, q, r, pages :
        /\ place = offset + byte
        /\ q = place \div n /\ r = place % n
        /\ pages = (offset + length + n - 1) \div n
  OBVIOUS
<1>6. PICK addr, page, s : addr = m.ptr + byte /\ page = addr \div n /\ s = addr % n
  OBVIOUS
<1>7. /\ q \in Nat /\ r \in 0 .. n - 1 /\ place = n * q + r
      /\ pages \in Nat /\ q < pages
  <2>1. place \in Nat /\ offset + length \in Nat /\ place < offset + length
    BY <1>1, <1>3, <1>5
  <2>2. q \in Nat /\ r \in 0 .. n - 1 /\ place = n * q + r
    BY <1>4, <1>5, <2>1, Divides
  <2>3. pages \in Nat /\ q < pages
    BY <1>4, <1>5, <2>1, PageOfByte
  <2> QED
    BY <2>2, <2>3
<1>8. page = base + q /\ s = r /\ page \in base .. base + pages - 1
  <2>1. PICK k : k = base + q
    OBVIOUS
  <2>2. k \in Nat
    BY <1>2, <1>7, <2>1
  <2>3. addr = n * k + r
    <3>1. n * k = base * n + n * q /\ n * q \in Nat
      BY <1>2, <1>4, <1>7, <2>1
    <3>2. addr = base * n + offset + byte /\ offset + byte = n * q + r /\ byte \in Nat
      BY <1>1, <1>2, <1>5, <1>6, <1>7, <1>3
    <3> QED
      BY <1>3, <1>4, <1>7, <3>1, <3>2
  <2>4. page = k /\ s = r
    BY <1>4, <1>6, <1>7, <2>2, <2>3, Divided
  <2> QED
    BY <1>2, <1>7, <2>1, <2>4
<1>9. page \in Pages /\ memory[page] = <<bo[p].handle, page - base>>
  <2>1. page \in Area(bo, m)
    BY <1>1, <1>5, <1>8 DEF Area, Extent, PagesOf
  <2> QED
    BY <1>1, <2>1 DEF Placed
<1>10. page - base = q
  BY <1>2, <1>7, <1>8
<1>11. PlaceAt(m.ptr + byte) = << memory[page], s >>
  BY <1>1, <1>6, <1>9 DEF PlaceAt
<1>12. PlaceIn(p, byte) = << <<bo[p].handle, q>>, r >>
  BY <1>1, <1>5 DEF PlaceIn
<1> QED
  BY <1>8, <1>9, <1>10, <1>11, <1>12

\* While the buffer is drawn to, its planes are where their pointers say.
LEMMA DrawnPlanes ==
  ASSUME Inv, Places, pc = "draw"
  PROVE  /\ bo \in Bos /\ DOMAIN planes = 1 .. num_planes /\ Len(planes) = num_planes
         /\ \A p \in DOMAIN planes :
              /\ p \in DOMAIN bo
              /\ \A byte \in 0 .. bo[p].size - 1 :
                   PlaceAt(planes[p].ptr + byte) = PlaceIn(p, byte)
<1>1. bo \in Bos /\ num_planes \in Nat /\ Len(planes) = num_planes
  BY DEF Inv, TypeOK, Progress
<1>2. Live = planes /\ DOMAIN planes = 1 .. num_planes
  BY <1>1, LiveType, LenProperties
<1>3. ASSUME NEW p \in 1 .. num_planes
      PROVE  Placed(memory, bo, planes[p]) /\ planes[p].plane_index = p
  BY <1>1, <1>2, <1>3 DEF Places, Placement
<1>4. ASSUME NEW p \in 1 .. num_planes
      PROVE  p \in DOMAIN bo
  BY <1>3 DEF Placed
<1>5. ASSUME NEW p \in 1 .. num_planes, NEW byte \in 0 .. bo[p].size - 1
      PROVE  PlaceAt(planes[p].ptr + byte) = PlaceIn(p, byte)
  <2>1. PICK m : m = planes[p]
    OBVIOUS
  <2>2. PlaceAt(m.ptr + byte) = PlaceIn(p, byte)
    BY <1>1, <1>3, <2>1, ByteIsPlaced
  <2> QED
    BY <2>1, <2>2
<1> QED
  BY <1>1, <1>2, <1>4, <1>5

\* A byte of a format is one of the plane it is of.
LEMMA LaidInside ==
  ASSUME NEW b \in Bos, NEW format \in Pictures[b].formats, NEW p \in DOMAIN b,
         NEW w \in PlaneLayout(format, p, Pictures[b].width, Pictures[b].height,
                               b[p].stride)
  PROVE  w.plane = p /\ w.byte \in 0 .. b[p].size - 1
<1>1. PICK block, width, height, stride, all :
        /\ block = FourccLayout[format][p]
        /\ width = Pictures[b].width /\ height = Pictures[b].height
        /\ stride = b[p].stride /\ all = b[p].size
  OBVIOUS
<1>2. /\ Pictures[b] \in [ width : Nat \ {0}, height : Nat \ {0},
                           formats : SUBSET DOMAIN bs_draw_formats ]
      /\ Holds(b, Pictures[b], format)
  BY MapperAssumption
<1>3. width \in Nat /\ height \in Nat /\ format \in DOMAIN bs_draw_formats
  BY <1>1, <1>2
<1>4. p \in DOMAIN FourccLayout[format]
  BY <1>2 DEF Holds
<1>5. /\ block.columns \in {1, 2} /\ block.rows \in {1, 2}
      /\ Len(block.bytes) \in Nat /\ DOMAIN block.bytes = 1 .. Len(block.bytes)
  BY <1>1, <1>3, <1>4, BlocksAre
<1>6. stride \in Nat /\ all \in Nat
  <2>1. b[p] \in Plane
    BY BoIs, LenProperties, ElementOfSeq
  <2> QED
    BY <1>1, <2>1 DEF Plane
<1>7. PICK columns, rows, len :
        /\ columns = width \div block.columns /\ rows = height \div block.rows
        /\ len = Len(block.bytes)
  OBVIOUS
<1>8. columns \in Nat /\ rows \in Nat /\ len \in Nat
  BY <1>3, <1>5, <1>7
<1>9. len * columns <= stride /\ stride * rows <= all
  BY <1>1, <1>2, <1>7 DEF Holds
<1>10. w \in PlaneLayout(format, p, width, height, stride)
  BY <1>1
<1>11. PICK x \in 0 .. columns - 1, y \in 0 .. rows - 1, c \in 1 .. len :
         w = LaidOut(p, block, x, y, c, width, stride)
  BY <1>1, <1>5, <1>7, <1>10, LaidOutElements
<1>12. w.plane = p /\ w.byte = stride * y + len * x + c - 1
  BY <1>7, <1>11 DEF LaidOut, LaidByte
<1>13. x \in Nat /\ x < columns /\ y \in Nat /\ y < rows
  BY <1>8, <1>11
<1>14. stride * y + len * x + c - 1 \in 0 .. all - 1
  BY <1>6, <1>8, <1>9, <1>11, <1>13, BytesFit
<1> QED
  BY <1>1, <1>12, <1>14

\* The picture in its format, at its place in the buffer object.
Depiction ==
  { <<PlaceIn(w.plane, w.byte), w.what>> : w \in
    UNION { PlaneLayout(picture.format, p, Shape.width, Shape.height, bo[p].stride) :
            p \in DOMAIN bo } }

\* What has been written is that, until the call returns.
Drawn ==
  picture # NoPicture =>
    /\ pc # "idle"
    /\ picture.bytes = Depiction

\* draw_color, through the pointers of the planes.
LEMMA PictureIsDrawn ==
  ASSUME Inv, Places, pc = "draw", num_planes = Len(bo),
         NEW format \in Shape.formats,
         picture' =
           [ format |-> format,
             bytes |-> { <<PlaceAt(planes[w.plane].ptr + w.byte), w.what>> :
                         w \in Written(format, Shape.width, Shape.height, Strides) } ],
         bo' = bo
  PROVE  picture'.bytes = Depiction'
<1>1. PICK b, shape, width, height :
        /\ b = bo /\ shape = Pictures[b]
        /\ width = shape.width /\ height = shape.height
  OBVIOUS
<1>2. b \in Bos /\ format \in shape.formats /\ shape = Shape
  BY <1>1 DEF Inv, TypeOK, Control, Progress, Shape
<1>3. /\ width \in Nat /\ height \in Nat
      /\ format \in DOMAIN bs_draw_formats
      /\ Holds(b, shape, format)
  BY <1>1, <1>2, MapperAssumption
<1>4. DOMAIN FourccLayout[format] = DOMAIN b
  BY <1>3 DEF Holds
<1>5. PICK strides : strides = Strides
  OBVIOUS
<1>6. \A p \in DOMAIN b : strides[p] = b[p].stride /\ b[p].stride \in Nat
  <2>1. strides = [p \in DOMAIN b |-> b[p].stride]
    BY <1>1, <1>5 DEF Strides
  <2>2. ASSUME NEW p \in DOMAIN b PROVE b[p].stride \in Nat
    <3>1. b[p] \in Plane
      BY <1>2, BoIs, LenProperties, ElementOfSeq
    <3> QED
      BY <3>1 DEF Plane
  <2> QED
    BY <2>1, <2>2
<1>7. \A p \in DOMAIN FourccLayout[format] :
        strides[p] \in Nat /\ width % FourccLayout[format][p].columns = 0
  BY <1>1, <1>3, <1>4, <1>6 DEF Holds
<1>8. PICK all :
        all = UNION { PlaneLayout(format, p, width, height, b[p].stride) :
                      p \in DOMAIN b }
  OBVIOUS
<1>9. Written(format, width, height, strides) = all
  <2>1. Written(format, width, height, strides)
          = UNION { PlaneLayout(format, p, width, height, strides[p]) :
                    p \in DOMAIN FourccLayout[format] }
    BY <1>3, <1>7, TheFormatIsWritten, SMTT(30)
  <2>2. { PlaneLayout(format, p, width, height, strides[p]) :
          p \in DOMAIN FourccLayout[format] }
          = { PlaneLayout(format, p, width, height, b[p].stride) :
              p \in DOMAIN b }
    BY <1>4, <1>6
  <2> QED
    BY <1>8, <2>1, <2>2
<1>10. ASSUME NEW w \in all
       PROVE  PlaceAt(planes[w.plane].ptr + w.byte) = PlaceIn(w.plane, w.byte)
  <2>1. PICK p \in DOMAIN b :
          w \in PlaneLayout(format, p, Pictures[b].width, Pictures[b].height, b[p].stride)
    BY <1>1, <1>8, <1>10
  <2>2. w.plane = p /\ w.byte \in 0 .. b[p].size - 1
    <3>1. format \in Pictures[b].formats
      BY <1>1, <1>2
    <3> QED
      BY <1>2, <2>1, <3>1, LaidInside, Zenon
  <2>3. p \in DOMAIN planes
    BY <1>1, <1>2, DrawnPlanes, BoIs, LenProperties
  <2> QED
    BY <1>1, <2>2, <2>3, DrawnPlanes
<1>11. picture'.bytes = { <<PlaceAt(planes[w.plane].ptr + w.byte), w.what>> : w \in all }
  BY <1>1, <1>2, <1>5, <1>9
<1>12. picture'.bytes = { <<PlaceIn(w.plane, w.byte), w.what>> : w \in all }
  BY <1>10, <1>11
<1>13. Depiction' = { <<PlaceIn(w.plane, w.byte), w.what>> : w \in all }
  <2>1. picture'.format = format
    OBVIOUS
  <2> QED
    BY <1>1, <1>8, <2>1 DEF Depiction, Shape, PlaceIn
<1> QED
  BY <1>12, <1>13

LEMMA DrawnStep == Inv /\ Places /\ Drawn /\ [Next]_vars => Drawn'
<1> SUFFICES ASSUME Inv, Places, Drawn, [Next]_vars PROVE Drawn'
  OBVIOUS
<1>1. ASSUME UNCHANGED <<picture, bo>>, pc' # "idle" \/ pc = "idle"
      PROVE  Drawn'
  <2>1. Depiction' = Depiction
    BY <1>1 DEF Depiction, Shape, PlaceIn
  <2> QED
    BY <1>1, <2>1 DEF Drawn, NoPicture
<1>2. CASE UNCHANGED vars
  BY <1>1, <1>2 DEF vars, local
<1>3. CASE bs_mapper_new \/ bs_mapper_destroy
  BY <1>1, <1>3 DEF bs_mapper_new, bs_mapper_destroy, local
<1>4. CASE StartDraw
  <2>1. picture = NoPicture /\ picture' = picture
    BY <1>4 DEF StartDraw, Drawn
  <2> QED
    BY <2>1 DEF Drawn, NoPicture
<1>5. CASE DmaBufMap \/ Interrupted \/ GemMap \/ RefusePlane \/ DumbMap \/ AllMapped
  BY <1>1, <1>5 DEF DmaBufMap, Interrupted, GemMap, RefusePlane, DumbMap, AllMapped,
                    KeepPlane, MapFailed
<1>6. CASE SyncStart
  BY <1>1, <1>6 DEF SyncStart, KeepPlane, MapFailed
<1>7. CASE DmaBufUnmap \/ SyncEnd \/ GemUnmap \/ DumbUnmap
  BY <1>1, <1>7 DEF DmaBufUnmap, SyncEnd, GemUnmap, DumbUnmap, Unmapping
<1>8. CASE Draw
  <2>1. pc = "draw" /\ pc' = "unmap" /\ bo' = bo
    BY <1>8 DEF Draw
  <2>2. CASE num_planes = Len(bo)
    <3>1. PICK format \in Shape.formats :
            picture' =
              [ format |-> format,
                bytes |-> { <<PlaceAt(planes[w.plane].ptr + w.byte), w.what>> :
                            w \in Written(format, Shape.width, Shape.height,
                                         Strides) } ]
      BY <1>8, <2>2 DEF Draw
    <3>2. picture'.bytes = Depiction'
      BY <2>1, <2>2, <3>1, PictureIsDrawn
    <3> QED
      BY <2>1, <3>2 DEF Drawn
  <2>3. CASE num_planes # Len(bo)
    <3>1. UNCHANGED <<picture, bo>> /\ pc' # "idle"
      BY <1>8, <2>1, <2>3 DEF Draw
    <3> QED
      BY <1>1, <3>1
  <2> QED
    BY <2>2, <2>3
<1>9. CASE Return
  <2>1. picture' = NoPicture
    BY <1>9 DEF Return
  <2> QED
    BY <2>1 DEF Drawn, NoPicture
<1> QED
  BY <1>2, <1>3, <1>4, <1>5, <1>6, <1>7, <1>8, <1>9 DEF Next, Step

\* While the planes are written to, every byte of every plane lies in the
\* program's memory at the place its pointer says; what draw_color writes is the
\* picture in its format, each byte at its place in the buffer object, and
\* nothing else.
THEOREM PlanesAreVisible == Spec => []PlanesVisible
<1>1. Init => Drawn
  BY DEF Init, Drawn
<1>2. Inv /\ Places /\ Drawn => PlanesVisible
  <2> SUFFICES ASSUME Inv, Places, Drawn PROVE PlanesVisible
    OBVIOUS
  <2>1. picture # NoPicture => picture.bytes = Depiction
    BY DEF Drawn
  <2> QED
    BY <2>1, DrawnPlanes DEF PlanesVisible, Depiction
<1> QED
  BY <1>1, <1>2, PlacesKept, DrawnStep, PTL DEF Spec

----------------------------------------------------------------------------
(***************************************************************************)
(* Why a drawing call returns: what is left of it gets less with every     *)
(* step, the interrupted ioctls included, since HANDLE_EINTR counts them.  *)
(***************************************************************************)

\* What mapping or unmapping n planes takes: for each the interruptions of its
\* ioctl and two steps.
Tries(n) == (Retries + 2) * n

Left ==
  CASE pc = "idle" -> 0
    [] pc = "map" -> Tries(num_planes - Len(planes)) + Tries(num_planes) + 3
    [] pc = "sync_start" ->
         Tries(num_planes - Len(planes) - 1) + Tries(num_planes) + 4 + Retries - counter
    [] pc = "draw" -> Tries(Len(planes)) + 2
    [] pc = "unmap" -> Tries(Len(planes)) + 1
    [] pc = "sync_end" -> Tries(Len(planes) - 1) + 2 + Retries - counter

LEMMA TriesType == ASSUME NEW n \in Nat PROVE Tries(n) \in Nat
BY MapperAssumption DEF Tries

LEMMA TriesLess ==
  ASSUME NEW n \in Nat, n > 0
  PROVE  Tries(n - 1) = Tries(n) - (Retries + 2)
BY MapperAssumption DEF Tries

LEMMA TriesGrows ==
  ASSUME NEW m \in Nat, NEW n \in Nat, m <= n
  PROVE  Tries(m) <= Tries(n)
<1>1. n - m \in Nat /\ (Retries + 2) * (n - m) \in Nat
  BY MapperAssumption
<1>2. (Retries + 2) * n = (Retries + 2) * m + (Retries + 2) * (n - m)
  BY MapperAssumption
<1> QED
  BY <1>1, <1>2, MapperAssumption DEF Tries

Values ==
  /\ pc = "idle" => Left = 0
  /\ pc = "map" => Left = Tries(num_planes - Len(planes)) + Tries(num_planes) + 3
  /\ pc = "sync_start" =>
       Left = Tries(num_planes - Len(planes) - 1) + Tries(num_planes) + 4 + Retries - counter
  /\ pc = "draw" => Left = Tries(Len(planes)) + 2
  /\ pc = "unmap" => Left = Tries(Len(planes)) + 1
  /\ pc = "sync_end" => Left = Tries(Len(planes) - 1) + 2 + Retries - counter

LEMMA LeftAt == Values
BY Zenon DEF Left, Values

LEMMA LeftAtNext == Values'
BY LeftAt, PTL

\* The counts that Left is made of.
LEMMA CountsAre ==
  ASSUME Inv
  PROVE  /\ Len(planes) \in Nat /\ num_planes \in Nat
         /\ Retries \in Nat /\ counter \in 0 .. Retries
         /\ pc \in {"map", "draw"} => Len(planes) <= num_planes
         /\ pc = "sync_start" => Len(planes) < num_planes
         /\ pc = "sync_end" => Len(planes) > 0
<1>1. planes # << >> => Len(planes) > 0
  BY EmptySeq, LenProperties DEF Inv, TypeOK
<1> QED
  BY <1>1, LenProperties, MapperAssumption DEF Inv, TypeOK, Progress

LEMMA LeftIsNatural == Inv => Left \in Nat
<1> SUFFICES ASSUME Inv PROVE Left \in Nat
  OBVIOUS
<1>1. pc \in {"idle", "map", "sync_start", "draw", "unmap", "sync_end"}
  BY DEF Inv, TypeOK
<1>2. CASE pc \in {"map", "sync_start"}
  <2>1. /\ num_planes \in Nat /\ num_planes - Len(planes) \in Nat
        /\ pc = "sync_start" => num_planes - Len(planes) - 1 \in Nat
    BY <1>2, CountsAre
  <2>2. /\ Tries(num_planes) \in Nat /\ Tries(num_planes - Len(planes)) \in Nat
        /\ pc = "sync_start" => Tries(num_planes - Len(planes) - 1) \in Nat
    BY <2>1, TriesType
  <2> QED
    BY <1>2, <2>2, CountsAre, LeftAt, SMTT(30) DEF Values
<1>3. CASE pc \in {"draw", "unmap", "sync_end"}
  <2>1. /\ Len(planes) \in Nat
        /\ pc = "sync_end" => Len(planes) - 1 \in Nat
    BY <1>3, CountsAre
  <2>2. /\ Tries(Len(planes)) \in Nat
        /\ pc = "sync_end" => Tries(Len(planes) - 1) \in Nat
    BY <2>1, TriesType
  <2> QED
    BY <1>3, <2>2, CountsAre, LeftAt DEF Values
<1> QED
  BY <1>1, <1>2, <1>3, LeftAt DEF Values

\* The steps that map a plane, or fail to.
LEMMA MappingGetsLess ==
  ASSUME Inv, DmaBufMap \/ SyncStart \/ GemMap \/ DumbMap \/ RefusePlane
  PROVE  Left' < Left
<1> DEFINE l == Len(planes)
           n == num_planes
<1>1. /\ l \in Nat /\ n \in Nat /\ Retries \in Nat /\ counter \in 0 .. Retries
      /\ l < n /\ num_planes' = n /\ n - l \in Nat /\ n - l > 0
  BY CountsAre DEF DmaBufMap, SyncStart, GemMap, DumbMap, RefusePlane, Mapping, plane
<1>2. /\ Tries(l) \in Nat /\ Tries(n) \in Nat /\ Tries(l) <= Tries(n)
      /\ Tries(n - l) \in Nat
      /\ Tries(n - l - 1) = Tries(n - l) - (Retries + 2)
      /\ Tries(n - l - 1) \in Nat
  BY <1>1, TriesType, TriesLess, TriesGrows
<1> HIDE DEF l, n
<1>3. CASE DmaBufMap
  <2>1. pc = "map" /\ pc' = "sync_start" /\ planes' = planes /\ counter' = 0
    BY <1>3 DEF DmaBufMap, Mapping
  <2>2. /\ Left = Tries(n - l) + Tries(n) + 3
        /\ Left' = Tries(n - l - 1) + Tries(n) + 4 + Retries - 0
    BY <1>1, <2>1, LeftAt, LeftAtNext DEF Values, l, n
  <2> QED
    BY <1>1, <1>2, <2>2
<1>4. CASE ~DmaBufMap /\ pc' = "unmap" /\ planes' = planes
  <2>1. pc \in {"map", "sync_start"}
    BY <1>4 DEF SyncStart, GemMap, DumbMap, RefusePlane, Mapping
  <2>2. Left' = Tries(l) + 1
    BY <1>4, LeftAtNext DEF Values, l
  <2>3. \/ Left = Tries(n - l) + Tries(n) + 3
        \/ Left = Tries(n - l - 1) + Tries(n) + 4 + Retries - counter
    BY <2>1, LeftAt DEF Values, l, n
  <2> QED
    BY <1>1, <1>2, <2>2, <2>3
<1>5. CASE ~DmaBufMap /\ (pc' # "unmap" \/ planes' # planes)
  <2>1. /\ pc \in {"map", "sync_start"}
        /\ \E base \in Nat : KeepPlane(base)
    <3>1. CASE SyncStart
      <4>1. ptr # Null /\ KeepPlane(ptr)
        BY <1>5, <3>1 DEF SyncStart, MapFailed
      <4> QED
        BY <3>1, <4>1 DEF SyncStart, Inv, TypeOK
    <3>2. CASE GemMap
      <4>1. PICK base \in Pages : KeepPlane(base * PageBytes + bo[plane].offset)
        BY <1>5, <3>2 DEF GemMap, MapFailed, Rooms
      <4>2. bo[plane].offset \in Nat
        BY <3>2, PlaneIs DEF GemMap
      <4>3. base * PageBytes + bo[plane].offset \in Nat
        BY <4>2, AddressType
      <4> QED
        BY <3>2, <4>1, <4>3 DEF GemMap, Mapping
    <3>3. CASE DumbMap
      <4>1. PICK base \in Pages : KeepPlane(base * PageBytes)
        BY <1>5, <3>3 DEF DumbMap, MapFailed, Rooms
      <4>2. base * PageBytes \in Nat
        BY <4>1, AddressType, 0 \in Nat
      <4> QED
        BY <3>3, <4>1, <4>2 DEF DumbMap, Mapping
    <3>4. CASE RefusePlane
      BY <1>5, <3>4 DEF RefusePlane, MapFailed
    <3> QED
      BY <1>5, <3>1, <3>2, <3>3, <3>4
  <2>2. pc' = "map" /\ Len(planes') = l + 1
    <3>1. PICK base \in Nat : KeepPlane(base)
      BY <2>1
    <3> QED
      BY <3>1, PlaneMore DEF Inv, KeepPlane, l
  <2>3. Left' = Tries(n - (l + 1)) + Tries(n) + 3
    BY <1>1, <2>2, LeftAtNext DEF Values, l, n
  <2>4. n - (l + 1) = n - l - 1
    BY <1>1
  <2>5. \/ Left = Tries(n - l) + Tries(n) + 3
        \/ Left = Tries(n - l - 1) + Tries(n) + 4 + Retries - counter
    BY <2>1, LeftAt DEF Values, l, n
  <2> QED
    BY <1>1, <1>2, <2>3, <2>4, <2>5
<1> QED
  BY <1>3, <1>4, <1>5

\* The steps of unmapping.
LEMMA UnmappingGetsLess ==
  ASSUME Inv, DmaBufUnmap \/ SyncEnd \/ GemUnmap \/ DumbUnmap \/ Return
  PROVE  Left' < Left
<1> DEFINE l == Len(planes)
<1>1. /\ l \in Nat /\ Retries \in Nat /\ counter \in 0 .. Retries
      /\ planes = << >> => l = 0
  BY CountsAre, EmptySeq
<1>2. CASE Return
  <2>1. pc = "unmap" /\ pc' = "idle"
    BY <1>2 DEF Return
  <2>2. Left = Tries(l) + 1 /\ Left' = 0 /\ Tries(l) \in Nat
    BY <1>1, <2>1, LeftAt, LeftAtNext, TriesType DEF Values
  <2> QED
    BY <2>2
<1>3. CASE ~Return
  <2>1. planes # << >> /\ l > 0
    <3>1. planes # << >>
      BY <1>3 DEF DmaBufUnmap, SyncEnd, GemUnmap, DumbUnmap, Unmapping, Inv, Progress
    <3> QED
      BY <1>1, <3>1, EmptySeq, LenProperties DEF Inv, TypeOK
  <2>2. /\ l - 1 \in Nat /\ Tries(l) \in Nat /\ Tries(l - 1) \in Nat
        /\ Tries(l - 1) = Tries(l) - (Retries + 2)
    BY <1>1, <2>1, TriesType, TriesLess
  <2>3. CASE DmaBufUnmap
    <3>1. pc = "unmap" /\ pc' = "sync_end" /\ planes' = planes /\ counter' = 0
      BY <2>3 DEF DmaBufUnmap, Unmapping
    <3>2. Left = Tries(l) + 1 /\ Left' = Tries(l - 1) + 2 + Retries - 0
      BY <3>1, LeftAt, LeftAtNext DEF Values
    <3> HIDE DEF l
    <3> QED
      BY <1>1, <2>2, <3>2
  <2>4. CASE SyncEnd \/ GemUnmap \/ DumbUnmap
    <3>1. pc \in {"unmap", "sync_end"} /\ pc' = "unmap" /\ planes' = Tail(planes)
      BY <2>4 DEF SyncEnd, GemUnmap, DumbUnmap, Unmapping
    <3>2. Len(planes') = l - 1
      BY <2>1, <3>1, PlaneLess DEF Inv
    <3>3. /\ Left = Tries(l) + 1 \/ Left = Tries(l - 1) + 2 + Retries - counter
          /\ Left' = Tries(l - 1) + 1
      BY <3>1, <3>2, LeftAt, LeftAtNext DEF Values
    <3> HIDE DEF l
    <3> QED
      BY <1>1, <2>2, <3>3
  <2> QED
    BY <1>3, <2>3, <2>4
<1> QED
  BY <1>2, <1>3

\* The other steps of a call.
LEMMA OthersGetLess ==
  ASSUME Inv, Interrupted \/ AllMapped \/ Draw
  PROVE  Left' < Left
<1> DEFINE l == Len(planes)
           n == num_planes
<1>1. /\ l \in Nat /\ n \in Nat /\ Retries \in Nat /\ counter \in 0 .. Retries
      /\ Tries(l) \in Nat /\ Tries(n) \in Nat
  BY CountsAre, TriesType
<1>2. CASE Interrupted
  <2>1. /\ pc \in {"sync_start", "sync_end"} /\ pc' = pc /\ counter' = counter + 1
        /\ planes' = planes /\ num_planes' = n
    BY <1>2 DEF Interrupted, TriesAgain
  <2>2. PICK k : /\ k \in Nat
                 /\ \/ Left = k + Tries(n) + 4 + Retries - counter
                       /\ Left' = k + Tries(n) + 4 + Retries - (counter + 1)
                    \/ Left = k + 2 + Retries - counter
                       /\ Left' = k + 2 + Retries - (counter + 1)
    <3>1. CASE pc = "sync_start"
      <4>1. n - l - 1 \in Nat
        BY <1>1, <3>1, CountsAre
      <4>2. Tries(n - l - 1) \in Nat
        BY <4>1, TriesType
      <4> QED
        BY <2>1, <3>1, <4>2, LeftAt, LeftAtNext DEF Values
    <3>2. CASE pc = "sync_end"
      <4>1. l - 1 \in Nat
        BY <1>1, <3>2, CountsAre
      <4>2. Tries(l - 1) \in Nat
        BY <4>1, TriesType
      <4> QED
        BY <2>1, <3>2, <4>2, LeftAt, LeftAtNext DEF Values
    <3> QED
      BY <2>1, <3>1, <3>2
  <2> HIDE DEF l, n
  <2> QED
    BY <1>1, <2>2
<1>3. CASE AllMapped
  <2>1. /\ pc = "map" /\ pc' = "draw" /\ planes' = planes /\ num_planes' = n
        /\ l = n
    BY <1>1, <1>3, CountsAre DEF AllMapped, plane
  <2>2. n - l \in Nat
    BY <1>1, <2>1
  <2>3. Tries(n - l) \in Nat
    BY <2>2, TriesType
  <2>4. Left = Tries(n - l) + Tries(n) + 3 /\ Left' = Tries(n) + 2
    BY <2>1, LeftAt, LeftAtNext DEF Values
  <2> HIDE DEF l, n
  <2> QED
    BY <1>1, <2>3, <2>4
<1>4. CASE Draw
  <2>1. pc = "draw" /\ pc' = "unmap" /\ planes' = planes
    BY <1>4 DEF Draw
  <2>2. Left = Tries(l) + 2 /\ Left' = Tries(l) + 1
    BY <2>1, LeftAt, LeftAtNext DEF Values
  <2> HIDE DEF l
  <2> QED
    BY <1>1, <2>2
<1> QED
  BY <1>2, <1>3, <1>4

\* For every buffer and bound of HANDLE_EINTR, whatever fails and however often
\* an ioctl is interrupted (mmap.c:12-21), every step of a call that maps, draws
\* to and unmaps planes (draw.c:173-196) brings its return nearer.
THEOREM CallsGetNearerTheirReturn ==
  Spec => [][Left' \in Nat /\ (pc # "idle" => Left' < Left)]_vars
<1>1. Inv => Left \in Nat
  BY LeftIsNatural
<1>2. ASSUME Inv, [Next]_vars, (Left \in Nat)'
      PROVE  [Left' \in Nat /\ (pc # "idle" => Left' < Left)]_vars
  <2>1. ASSUME Next, pc # "idle" PROVE Step
    BY <2>1 DEF Next, bs_mapper_new, bs_mapper_destroy, StartDraw
  <2>2. ASSUME Step PROVE Left' < Left
    BY <1>2, <2>2, MappingGetsLess, UnmappingGetsLess, OthersGetLess DEF Step
  <2> QED
    BY <1>2, <2>1, <2>2
<1> QED
  BY <1>1, <1>2, Invariance, PTL DEF Spec
=============================================================================
