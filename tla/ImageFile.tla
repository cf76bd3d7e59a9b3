------------------------------ MODULE ImageFile ------------------------------
(***************************************************************************)
(* The image of muxleq.c: alloc_muxleq, grow_muxleq and the cells          *)
(* load_muxleq stores, as operators on struct muxleq_image.  A token is    *)
(* what strtoll makes of it: whether it is a number to its last character, *)
(* and which.                                                              *)
(***************************************************************************)
EXTENDS Integers, Sequences

CONSTANTS
  Width,          \* bits of a cell
  MinCells,       \* MUX_MIN_CELLS
  MaxCells        \* MUX_MAX_CELLS

PowersOfTwo == {2 ^ k : k \in 0 .. Width}

(* "#error MUX_MAX_CELLS must be a power of two >= MUX_MIN_CELLS" *)
ASSUME CellsAssumption ==
  /\ Width \in Nat \ {0}
  /\ {MinCells, MaxCells} \subseteq PowersOfTwo /\ MinCells <= MaxCells

NoImage == [m |-> [i \in {} |-> 0], size |-> 0, mask |-> 0]

(* calloc, and the mask that goes with the size. *)
Zeroed(cells) == [m |-> [i \in 0 .. cells - 1 |-> 0], size |-> cells, mask |-> cells - 1]

(* alloc_muxleq *)
TooLong(cells)     == cells > MaxCells
SizeFor(cells)     == CHOOSE s \in PowersOfTwo :
                        /\ s >= MinCells /\ s >= cells
                        /\ \A r \in PowersOfTwo : r >= MinCells /\ r >= cells => s <= r
alloc_muxleq(cells) == Zeroed(SizeFor(cells))

(* Mutant of Grown: the mask stays that of the smaller image. *)
GrownMaskKept(img) ==
  [m |-> [i \in 0 .. 2 * img.size - 1 |-> IF i < img.size THEN img.m[i] ELSE 0],
   size |-> 2 * img.size, mask |-> img.mask]
Grown(img) ==
  [m |-> [i \in 0 .. 2 * img.size - 1 |-> IF i < img.size THEN img.m[i] ELSE 0],
   size |-> 2 * img.size, mask |-> 2 * img.size - 1]

(* grow_muxleq, where it does not die. *)
Full(img, n)        == n = img.size
CannotGrow(img)     == img.size >= MaxCells
Roomy(img, n)       == IF Full(img, n) THEN Grown(img) ELSE img

(* A cell in either spelling, signed or unsigned. *)
GoodCell(tok) == tok.number /\ tok.value \in -(2 ^ (Width - 1)) .. 2 ^ Width - 1
Cell(v)       == v % 2 ^ Width
Stored(img, n, tok) == [img EXCEPT !.m[n] = Cell(tok.value)]

(* load_default *)
Copied(img, cells) ==
  [img EXCEPT !.m = [i \in DOMAIN img.m |-> IF i < Len(cells) THEN cells[i + 1] ELSE 0]]
==============================================================================
