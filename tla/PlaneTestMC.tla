---------------------------- MODULE PlaneTestMC ----------------------------
\* Cards and arguments for TLC: two formats, up to three planes.
EXTENDS PlaneTest

CONSTANTS rgb, nv12

P(on_crtc, overlay, formats) ==
  [on_crtc |-> on_crtc, overlay |-> overlay, formats |-> formats]

Both == P(TRUE, TRUE, {rgb, nv12})
Rgb == P(TRUE, TRUE, {rgb})

MCCards ==
  { << >>, <<Both, Rgb>>, <<Rgb, Both>>,
    <<P(TRUE, FALSE, {rgb, nv12}), Rgb, P(FALSE, TRUE, {rgb, nv12})>>,
    <<P(FALSE, TRUE, {rgb}), Both, Rgb>> }

O(format, position, translate, scale) ==
  [ format |-> format, position |-> position, size |-> [x |-> 4, y |-> 3],
    translate |-> translate, scale |-> scale ]

MCArguments ==
  { << O(rgb, Null, TRUE, Null) >>,
    << O(rgb, Null, TRUE, Null), O(nv12, Null, FALSE, <<2, 2>>) >>,
    << O(nv12, [x |-> -9, y |-> 1], TRUE, Null), O(rgb, [x |-> 2, y |-> 0], FALSE, Null) >>,
    << O(rgb, Null, FALSE, Null), O(rgb, [x |-> 1, y |-> 1], FALSE, Null) >>,
    << O(rgb, Null, TRUE, <<2, 0>>) >>, << O(nv12, Null, FALSE, <<0, 2>>) >> }

MCDisplay == [x |-> 8, y |-> 5]
=============================================================================
