---------------------------- MODULE DrawFormats ----------------------------
(***************************************************************************)
(* The table of formats of bsdrm/src/draw.c and what draw_color does with  *)
(* it: which byte of which plane it writes, from which pixels; and, beside *)
(* it, what the formats are, as the fourcc codes define them.              *)
(***************************************************************************)
EXTENDS Integers, Sequences

\* struct draw_format_component; the coefficients are those of "value".
Component(value, horizontal, vertical, skip, plane, offset) ==
  [ value |-> value, horizontal |-> horizontal, vertical |-> vertical,
    skip |-> skip, plane |-> plane, offset |-> offset ]

\* A byte of each pixel, one after the other.
Packed(values, skip) ==
  [c \in DOMAIN values |-> Component(values[c], 1, 1, skip, 0, c - 1)]

Luma == Component("Y", 1, 1, 1, 0, 0)

\* bs_draw_formats.
bs_draw_formats ==
  [ ABGR8888 |-> Packed(<<"R", "G", "B", "A">>, 4),
    ARGB8888 |-> Packed(<<"B", "G", "R", "A">>, 4),
    BGR888   |-> Packed(<<"R", "G", "B">>, 3),
    NV12     |-> << Luma, Component("U", 2, 2, 2, 1, 0),
                    Component("V", 2, 2, 2, 1, 1) >>,
    NV21     |-> << Luma, Component("V", 2, 2, 2, 1, 0),
                    Component("U", 2, 2, 2, 1, 1) >>,
    RGB888   |-> Packed(<<"B", "G", "R">>, 3),
    XBGR8888 |-> Packed(<<"R", "G", "B">>, 4),
    XRGB8888 |-> Packed(<<"B", "G", "R">>, 4),
    UYVY     |-> << Component("U", 2, 1, 4, 0, 0), Component("Y", 1, 1, 2, 0, 1),
                    Component("V", 2, 1, 4, 0, 2) >>,
    YUYV     |-> << Component("Y", 1, 1, 2, 0, 0), Component("U", 2, 1, 4, 0, 1),
                    Component("V", 2, 1, 4, 0, 3) >>,
    YVU420   |-> << Luma, Component("V", 2, 2, 1, 1, 0),
                    Component("U", 2, 2, 1, 2, 0) >> ]

\* The pixels whose converted colors are averaged for sample <<x, y>>, by their
\* index in converted_colors.
Samples(comp, x, y, width) ==
  { (y * comp.vertical + j) * width + x * comp.horizontal + i :
      i \in 0 .. comp.horizontal - 1, j \in 0 .. comp.vertical - 1 }

\* Mutant: the rows are those of the whole picture.
ByteOf_Row(comp, x, y, stride) ==
  comp.offset + stride * y * comp.vertical + x * comp.skip

ByteOf(comp, x, y, stride) == comp.offset + stride * y + x * comp.skip

\* All that draw_color writes to a picture of the given size: byte of plane,
\* and the value of which pixels.
Written(format, width, height, strides) ==
  UNION { { [ plane |-> comp.plane + 1,
              byte |-> ByteOf(comp, x, y, strides[comp.plane + 1]),
              what |-> <<comp.value, Samples(comp, x, y, width)>> ] :
            x \in 0 .. width \div comp.horizontal - 1,
            y \in 0 .. height \div comp.vertical - 1 } :
          comp \in {bs_draw_formats[format][c] :
                      c \in DOMAIN bs_draw_formats[format]} }

----------------------------------------------------------------------------
\* The formats by definition: for each plane the block of pixels that its bytes
\* repeat with, and of each byte the value and the columns of the block it is
\* of; "x" is not used.

Block(columns, rows, bytes) ==
  [columns |-> columns, rows |-> rows, bytes |-> bytes]
Pixel(values) == << Block(1, 1, [c \in DOMAIN values |-> <<values[c], {0}>>]) >>
Full == Block(1, 1, << <<"Y", {0}>> >>)
Chroma(values) == Block(2, 2, [c \in DOMAIN values |-> <<values[c], {0, 1}>>])

FourccLayout ==
  [ ABGR8888 |-> Pixel(<<"R", "G", "B", "A">>),
    ARGB8888 |-> Pixel(<<"B", "G", "R", "A">>),
    BGR888   |-> Pixel(<<"R", "G", "B">>),
    NV12     |-> << Full, Chroma(<<"U", "V">>) >>,
    NV21     |-> << Full, Chroma(<<"V", "U">>) >>,
    RGB888   |-> Pixel(<<"B", "G", "R">>),
    XBGR8888 |-> Pixel(<<"R", "G", "B", "x">>),
    XRGB8888 |-> Pixel(<<"B", "G", "R", "x">>),
    UYVY     |-> << Block(2, 1, << <<"U", {0, 1}>>, <<"Y", {0}>>,
                                   <<"V", {0, 1}>>, <<"Y", {1}>> >>) >>,
    YUYV     |-> << Block(2, 1, << <<"Y", {0}>>, <<"U", {0, 1}>>,
                                   <<"Y", {1}>>, <<"V", {0, 1}>> >>) >>,
    YVU420   |-> << Full, Chroma(<<"V">>), Chroma(<<"U">>) >> ]

\* The bytes of plane p of a picture whose sides the blocks divide.
PlaneLayout(format, p, width, height, stride) ==
  LET block == FourccLayout[format][p]
      columns == 0 .. width \div block.columns - 1
      rows == 0 .. height \div block.rows - 1
      Pixels(x, y, cs) ==
        { (y * block.rows + j) * width + x * block.columns + i :
            i \in cs, j \in 0 .. block.rows - 1 }
  IN  { [ plane |-> p,
          byte |-> stride * y + Len(block.bytes) * x + b - 1,
          what |-> <<block.bytes[b][1], Pixels(x, y, block.bytes[b][2])>> ] :
        x \in columns, y \in rows,
        b \in {c \in DOMAIN block.bytes : block.bytes[c][1] # "x"} }
=============================================================================
