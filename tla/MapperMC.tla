------------------------------ MODULE MapperMC ------------------------------
\* Buffers for TLC: pages have four bytes, so planes begin and end within them.
EXTENDS Mapper

CONSTANTS h1, h2, h3, h4

P(handle, offset, bytes, stride) ==
  [handle |-> handle, size |-> bytes, offset |-> offset, stride |-> stride]

\* Packed formats of four and of three bytes, with a gap at the end of a row,
\* and with two pixels in four; NV12 and YVU420 in one object; YVU420 with its
\* last plane in an object of its own.
packed32 == << P(h1, 0, 8, 8) >>
packed24 == << P(h1, 0, 8, 4) >>
packed16 == << P(h1, 0, 4, 4) >>
nv12     == << P(h2, 0, 8, 2), P(h2, 8, 4, 2) >>
yvu420   == << P(h2, 0, 4, 2), P(h2, 4, 1, 1), P(h2, 5, 1, 1) >>
objects  == << P(h3, 0, 4, 2), P(h3, 4, 1, 1), P(h4, 0, 1, 1) >>

MCBos == {packed32, packed24, packed16, nv12, yvu420, objects}

MCPictures ==
  [b \in MCBos |->
     [ width |-> IF b = packed24 THEN 1 ELSE 2,
       height |-> IF b \in {packed32, packed16} THEN 1 ELSE IF b = nv12 THEN 4 ELSE 2,
       formats |->
         CASE b = packed32 -> {"ABGR8888", "ARGB8888", "XBGR8888", "XRGB8888"}
           [] b = packed24 -> {"BGR888", "RGB888"}
           [] b = packed16 -> {"UYVY", "YUYV"}
           [] b = nv12 -> {"NV12", "NV21"}
           [] OTHER -> {"YVU420"} ]]
=============================================================================
