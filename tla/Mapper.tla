------------------------------- MODULE Mapper -------------------------------
(***************************************************************************)
(* The mappers of bsdrm/src/mmap.c, and draw_color of bsdrm/src/draw.c     *)
(* that maps every plane of a buffer object, writes a picture to them and  *)
(* unmaps them.  Memory is the program's address space page by page; each  *)
(* page is free, in use for something else, or a page of a GEM object.     *)
(***************************************************************************)
EXTENDS DrawFormats

CONSTANTS
  Null,
  Free, Heap,     \* a page that is free, and one the program uses otherwise
  PageBytes,      \* bytes of a page
  Space,          \* pages of the address space
  Handles,        \* GEM handles
  Bos,            \* buffer objects: the sequences of their planes
  Pictures,       \* width, height and formats each of them may have
  Retries,        \* bound of HANDLE_EINTR: 100 in the code
  MaxDraws        \* bound: buffers drawn

Pages == 0 .. Space - 1
Plane == [handle : Handles, size : Nat \ {0}, offset : Nat, stride : Nat]

\* The loop of dma_buf_map: the bytes of b's first p planes that have a handle.
SizeUpTo(b, handle) ==
  LET sum[p \in 0 .. Len(b)] ==
        IF p = 0 THEN 0
        ELSE sum[p - 1] + (IF b[p].handle = handle THEN b[p].size ELSE 0)
  IN  sum

\* A buffer that GBM made for pictures of a format has its planes, and each of
\* them holds the rows of its samples.
Holds(b, picture, format) ==
  /\ DOMAIN FourccLayout[format] = DOMAIN b
  /\ \A p \in DOMAIN b :
       LET block == FourccLayout[format][p] IN
       /\ picture.width % block.columns = 0 /\ picture.height % block.rows = 0
       /\ Len(block.bytes) * (picture.width \div block.columns) <= b[p].stride
       /\ b[p].stride * (picture.height \div block.rows) <= b[p].size

\* Planes of one handle follow each other without gaps, as minigbm lays them
\* out.
ASSUME MapperAssumption ==
  /\ PageBytes \in Nat \ {0} /\ Space \in Nat
  /\ Retries \in Nat /\ MaxDraws \in Nat
  /\ Null \notin Bos \cup Nat
  /\ Free # Heap /\ Free \notin Handles \X Nat /\ Heap \notin Handles \X Nat
  /\ \A bo \in Bos :
       /\ bo \in Seq(Plane) /\ bo # << >>
       /\ \A p \in DOMAIN bo :
            bo[p].offset = SizeUpTo(bo, bo[p].handle)[p - 1]
  /\ Pictures \in
       [Bos -> [ width : Nat \ {0}, height : Nat \ {0},
                 formats : SUBSET DOMAIN bs_draw_formats ]]
  /\ \A bo \in Bos : \A format \in Pictures[bo].formats :
       Holds(bo, Pictures[bo], format)

VARIABLES
  kind,         \* which of the three mappers: never changes
  mapper,       \* whether there is a struct bs_mapper
  bo,           \* the buffer being drawn, or Null
  num_planes,   \* how many of its planes the caller wants
  planes,       \* struct bs_map_info of those mapped, in order
  pc,           \* where the call stands
  ptr,          \* of the plane being mapped, or Null for MAP_FAILED
  prime_fd,     \* whether the local drm_prime_fd is a descriptor
  counter,      \* eintr_wrapper_counter
  open_fds,     \* descriptors these functions have open
  memory,       \* the address space
  picture,      \* history: the bytes draw_color wrote, by their place
  started,      \* DMA_BUF_SYNC_STARTs less DMA_BUF_SYNC_ENDs
  clean,        \* history: no system call has failed so far
  draws         \* buffers drawn

local == <<bo, num_planes, planes, pc, ptr, prime_fd, counter>>
vars == <<kind, mapper, local, open_fds, memory, picture, started, clean, draws>>

NoPicture == [format |-> Null, bytes |-> {}]

Init ==
  /\ kind \in {"dma_buf", "gem", "dumb"}
  /\ mapper = FALSE
  /\ bo = Null /\ num_planes = 0 /\ planes = << >>
  /\ pc = "idle"
  /\ ptr = Null /\ prime_fd = FALSE /\ counter = 0
  /\ open_fds = 0
  /\ memory \in [Pages -> {Free, Heap}]
  /\ picture = NoPicture
  /\ started = 0
  /\ clean = TRUE
  /\ draws = 0

----------------------------------------------------------------------------
\* The system calls.

PagesOf(length) == (length + PageBytes - 1) \div PageBytes
Extent(base, length) == base .. base + PagesOf(length) - 1

\* Where mmap may put a mapping.
Rooms(length) ==
  {base \in Pages : \A page \in Extent(base, length) :
                      page \in Pages /\ memory[page] = Free}

\* memory after an mmap at base of a GEM object from its first byte.
Mapped(base, length, handle) ==
  [page \in Pages |-> IF page \in Extent(base, length)
                      THEN <<handle, page - base>> ELSE memory[page]]

\* Mutant: munmap of a page more than the length has.
Unmapped_OneMore(addr, length) ==
  [page \in Pages |-> IF page \in Extent(addr \div PageBytes, length + PageBytes)
                      THEN Free ELSE memory[page]]

\* memory after munmap: an address that is not that of a page is refused, a
\* length is rounded up to whole pages.
Unmapped(addr, length) ==
  IF addr % PageBytes # 0 THEN memory
  ELSE [page \in Pages |-> IF page \in Extent(addr \div PageBytes, length)
                           THEN Free ELSE memory[page]]

Count(b) == IF b THEN 1 ELSE 0

----------------------------------------------------------------------------
\* The mapper.  bs_mapper_dumb_new has a descriptor of its own.

bs_mapper_new ==
  /\ pc = "idle" /\ ~mapper
  /\ mapper' = TRUE
  /\ open_fds' = open_fds + Count(kind = "dumb")
  /\ UNCHANGED <<kind, local, memory, picture, started, clean, draws>>

bs_mapper_destroy ==
  /\ pc = "idle" /\ mapper
  /\ mapper' = FALSE
  /\ open_fds' = open_fds - Count(kind = "dumb")
  /\ UNCHANGED <<kind, local, memory, picture, started, clean, draws>>

\* draw_color maps every plane; other callers of bs_mapper_map only plane 0.
StartDraw ==
  /\ pc = "idle" /\ mapper
  /\ draws < MaxDraws
  /\ bo' \in Bos
  /\ num_planes' \in {1, Len(bo')}
  /\ pc' = "map"
  /\ draws' = draws + 1
  /\ UNCHANGED <<kind, mapper, planes, ptr, prime_fd, counter, open_fds,
                 memory, picture, started, clean>>

\* The plane bs_mapper_map is called for.
plane == Len(planes) + 1
Mapping(which) ==
  /\ pc = "map" /\ kind = which
  /\ plane <= num_planes

\* What bs_mapper_map and mmap_planes make of the result: the plane's
\* bs_map_info, or the earlier planes unmapped.
KeepPlane(result) ==
  /\ planes' = Append(planes, [plane_index |-> plane, ptr |-> result])
  /\ pc' = "map"
\* Mutant: a failure leaves the planes mapped before it as they are.
MapFailed_KeepsEarlier ==
  /\ pc' = "unmap"
  /\ planes' = << >>

MapFailed ==
  /\ pc' = "unmap"
  /\ UNCHANGED planes

\* How many bytes dma_buf_map maps.
dma_buf_length(p) == SizeUpTo(bo, bo[p].handle)[p]

\* dma_buf_map, up to mmap: without a descriptor mmap fails too.
DmaBufMap ==
  /\ Mapping("dma_buf")
  /\ LET length == dma_buf_length(plane) IN
     \/ \E base \in Rooms(length) :
          /\ ptr' = base * PageBytes + bo[plane].offset
          /\ memory' = Mapped(base, length, bo[plane].handle)
          /\ prime_fd' = TRUE
          /\ UNCHANGED clean
     \/ /\ ptr' = Null
        /\ prime_fd' \in BOOLEAN
        /\ clean' = FALSE
        /\ UNCHANGED memory
  /\ open_fds' = open_fds + Count(prime_fd')
  /\ pc' = "sync_start"
  /\ counter' = 0
  /\ UNCHANGED <<kind, mapper, bo, num_planes, planes, picture, started, draws>>

\* Mutants: the count begins anew; one try too many.
TriesAgain_Forever == counter' = (counter + 1) % (Retries + 1)
TriesAgain_OneMore ==
  /\ counter <= Retries
  /\ counter' = counter + 1

\* HANDLE_EINTR: the ioctl was interrupted and is tried again.
TriesAgain ==
  /\ counter < Retries
  /\ counter' = counter + 1

Interrupted ==
  /\ pc \in {"sync_start", "sync_end"} /\ prime_fd
  /\ TriesAgain
  /\ UNCHANGED <<kind, mapper, bo, num_planes, planes, pc, ptr, prime_fd,
                 open_fds, memory, picture, started, clean, draws>>

\* Mutant: the descriptor is closed only when the ioctl worked.
SyncAndClose_Late(change) ==
  /\ \/ /\ prime_fd /\ started' = started + change
        /\ open_fds' = open_fds - 1
        /\ UNCHANGED clean
     \/ clean' = FALSE /\ UNCHANGED <<started, open_fds>>
  /\ prime_fd' = FALSE

\* The ioctl's result, and close(drm_prime_fd).
SyncAndClose(change) ==
  /\ \/ prime_fd /\ started' = started + change /\ UNCHANGED clean
     \/ clean' = FALSE /\ UNCHANGED started
  /\ open_fds' = open_fds - Count(prime_fd)
  /\ prime_fd' = FALSE

\* dma_buf_map, from the ioctl on.
SyncStart ==
  /\ pc = "sync_start"
  /\ SyncAndClose(1)
  /\ IF ptr = Null THEN MapFailed ELSE KeepPlane(ptr)
  /\ UNCHANGED <<kind, mapper, bo, num_planes, ptr, counter, memory, picture, draws>>

\* gem_map: GBM maps the object up to the end of the plane.
GemMap ==
  /\ Mapping("gem")
  /\ LET length == bo[plane].offset + bo[plane].size IN
     \/ \E base \in Rooms(length) :
          /\ memory' = Mapped(base, length, bo[plane].handle)
          /\ KeepPlane(base * PageBytes + bo[plane].offset)
          /\ UNCHANGED clean
     \/ clean' = FALSE /\ MapFailed /\ UNCHANGED memory
  /\ UNCHANGED <<kind, mapper, bo, num_planes, ptr, prime_fd, counter,
                 open_fds, picture, started, draws>>

\* dumb_map: only plane 0.  A call that fails after gbm_bo_get_fd returns
\* without close(prime_fd).
RefusePlane ==
  /\ Mapping("dumb") /\ plane # 1
  /\ MapFailed
  /\ UNCHANGED <<kind, mapper, bo, num_planes, ptr, prime_fd, counter,
                 open_fds, memory, picture, started, clean, draws>>

DumbMap ==
  /\ Mapping("dumb") /\ plane = 1
  /\ \/ \E base \in Rooms(bo[1].size) :
          /\ memory' = Mapped(base, bo[1].size, bo[1].handle)
          /\ KeepPlane(base * PageBytes)
          /\ UNCHANGED <<open_fds, clean>>
     \/ /\ open_fds' \in {open_fds, open_fds + 1}
        /\ clean' = FALSE
        /\ MapFailed
        /\ UNCHANGED memory
  /\ UNCHANGED <<kind, mapper, bo, num_planes, ptr, prime_fd, counter,
                 picture, started, draws>>

AllMapped ==
  /\ pc = "map" /\ plane > num_planes
  /\ pc' = "draw"
  /\ UNCHANGED <<kind, mapper, bo, num_planes, planes, ptr, prime_fd, counter,
                 open_fds, memory, picture, started, clean, draws>>

\* Where in which object a byte of a mapped plane lies.
PlaceAt(addr) ==
  << IF addr \div PageBytes \in Pages THEN memory[addr \div PageBytes] ELSE Free,
     addr % PageBytes >>

Strides == [p \in DOMAIN bo |-> bo[p].stride]
Shape == Pictures[bo]

\* draw_color writes a picture; the callers that map plane 0 alone write what
\* they like.
Draw ==
  /\ pc = "draw"
  /\ IF num_planes = Len(bo)
     THEN \E format \in Shape.formats :
            picture' =
              [ format |-> format,
                bytes |-> { <<PlaceAt(planes[w.plane].ptr + w.byte), w.what>> :
                            w \in Written(format, Shape.width, Shape.height,
                                         Strides) } ]
     ELSE UNCHANGED picture
  /\ pc' = "unmap"
  /\ UNCHANGED <<kind, mapper, bo, num_planes, planes, ptr, prime_fd, counter,
                 open_fds, memory, started, clean, draws>>

----------------------------------------------------------------------------
\* unmmap_planes: the planes in the order they were mapped.

info == Head(planes)
size == bo[info.plane_index].size
Unmapping(which) == pc = "unmap" /\ kind = which /\ planes # << >>

\* dma_buf_unmap, up to the ioctl and from it on.
DmaBufUnmap ==
  /\ Unmapping("dma_buf")
  /\ prime_fd' \in BOOLEAN
  /\ open_fds' = open_fds + Count(prime_fd')
  /\ clean' = (clean /\ prime_fd')
  /\ counter' = 0
  /\ pc' = "sync_end"
  /\ UNCHANGED <<kind, mapper, bo, num_planes, planes, ptr, memory, picture, started,
                 draws>>

SyncEnd ==
  /\ pc = "sync_end"
  /\ SyncAndClose(-1)
  /\ memory' = Unmapped(info.ptr - bo[info.plane_index].offset, size)
  /\ planes' = Tail(planes)
  /\ pc' = "unmap"
  /\ UNCHANGED <<kind, mapper, bo, num_planes, ptr, counter, picture, draws>>

\* gem_unmap: GBM undoes what it mapped.
GemUnmap ==
  /\ Unmapping("gem")
  /\ LET offset == bo[info.plane_index].offset IN
       memory' = Unmapped(info.ptr - offset, offset + size)
  /\ planes' = Tail(planes)
  /\ UNCHANGED <<kind, mapper, bo, num_planes, pc, ptr, prime_fd, counter,
                 open_fds, picture, started, clean, draws>>

DumbUnmap ==
  /\ Unmapping("dumb")
  /\ memory' = Unmapped(info.ptr, size)
  /\ planes' = Tail(planes)
  /\ UNCHANGED <<kind, mapper, bo, num_planes, pc, ptr, prime_fd, counter,
                 open_fds, picture, started, clean, draws>>

Return ==
  /\ pc = "unmap" /\ planes = << >>
  /\ bo' = Null /\ num_planes' = 0 /\ ptr' = Null /\ counter' = 0
  /\ picture' = NoPicture
  /\ pc' = "idle"
  /\ UNCHANGED <<kind, mapper, planes, prime_fd, open_fds, memory, started,
                 clean, draws>>

Step ==
  \/ DmaBufMap \/ Interrupted \/ SyncStart \/ GemMap
  \/ RefusePlane \/ DumbMap \/ AllMapped \/ Draw
  \/ DmaBufUnmap \/ SyncEnd \/ GemUnmap \/ DumbUnmap \/ Return

Next == bs_mapper_new \/ bs_mapper_destroy \/ StartDraw \/ Step

\* The calls are sequential code: once begun they keep running.
Spec == Init /\ [][Next]_vars /\ WF_vars(Step)

----------------------------------------------------------------------------
TypeOK ==
  /\ kind \in {"dma_buf", "gem", "dumb"}
  /\ mapper \in BOOLEAN /\ prime_fd \in BOOLEAN /\ clean \in BOOLEAN
  /\ pc \in {"idle", "map", "sync_start", "draw", "unmap", "sync_end"}
  /\ bo \in Bos \cup {Null} /\ (bo = Null <=> pc = "idle")
  /\ num_planes \in Nat
  /\ planes \in Seq([plane_index : Nat, ptr : Nat])
  /\ ptr \in Nat \cup {Null}
  /\ counter \in 0 .. Retries
  /\ open_fds \in Nat
  /\ memory \in [Pages -> {Free, Heap} \cup (Handles \X Nat)]
  /\ picture.format \in DOMAIN bs_draw_formats \cup {Null}
  /\ started \in Int
  /\ draws \in 0 .. MaxDraws

\* The place of a plane's byte in its object.
PlaceIn(p, byte) ==
  LET place == bo[p].offset + byte IN
  << <<bo[p].handle, place \div PageBytes>>, place % PageBytes >>

\* While the planes are written to, every byte of every plane lies in the
\* program's memory at the place the pointer says, and is that byte of the
\* plane (lengths and offsets of dma_buf_map and dumb_map).  What draw_color has
\* written then is the picture in its format, each byte at the format's place in
\* the buffer object, made from the pixels it stands for, and nothing else.
PlanesVisible ==
  /\ pc = "draw" =>
       /\ Len(planes) = num_planes
       /\ \A p \in DOMAIN planes : \A byte \in 0 .. bo[p].size - 1 :
            PlaceAt(planes[p].ptr + byte) = PlaceIn(p, byte)
  /\ picture # NoPicture =>
       picture.bytes =
         { <<PlaceIn(w.plane, w.byte), w.what>> : w \in
           UNION { PlaneLayout(picture.format, p, Shape.width, Shape.height,
                               bo[p].stride) : p \in DOMAIN bo } }

Shared(handle) ==
  \E b \in Bos : \E p, q \in DOMAIN b :
    p # q /\ b[p].handle = handle /\ b[q].handle = handle

\* Between calls, however the last one ended, no page of a buffer is left
\* mapped unless dma_buf_map mapped a plane that shares its handle (it then
\* maps more than dma_buf_unmap undoes).
MappingsUndone ==
  pc = "idle" =>
    \A page \in Pages :
      \/ memory[page] \in {Free, Heap}
      \/ kind = "dma_buf" /\ Shared(memory[page][1])

\* Unmapping never takes a page of the program, nor one of another handle.
UnmapsOwn ==
  [][\A page \in Pages :
       (memory[page] # Free /\ memory'[page] = Free)
         => (memory[page] # Heap /\ memory[page][1] = bo[info.plane_index].handle)]_vars

\* Between calls the only descriptor open is the one of a dumb mapper, except
\* that a dumb_map that failed may have left one; a DMA buffer whose calls all
\* succeeded has its accesses started while it is drawn to, and ended after.
NothingLeftOpen ==
  /\ pc = "idle" /\ (kind # "dumb" \/ clean)
       => open_fds = Count(mapper /\ kind = "dumb")
  /\ clean /\ kind = "dma_buf"
       => /\ pc = "draw" => started = num_planes
          /\ pc = "idle" => started = 0

\* A drawing call returns although the ioctl is interrupted over and over.
DrawReturns == pc # "idle" ~> pc = "idle"

=============================================================================
