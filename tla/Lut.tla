--------------------------------- MODULE Lut ---------------------------------
(***************************************************************************)
(* How a column's palette indices become the pixels the panel reads:       *)
(* scripts/rgb_to_packed_rgb444.py packs a palette on the host, twelve     *)
(* bits a colour, and the firmware's lut.hpp looks the colours up in it and *)
(* writes every pixel twice.  One step is one round of lut's loop.         *)
(***************************************************************************)
EXTENDS Integers

CONSTANTS
  COLORS,      \* colours of a palette (256)
  HEIGHT,      \* pixels of a column as received, sizeof(pal_input_t) (48)
  COMPONENTS   \* values of a colour component that occur (all bytes)

ASSUME LutAssumption ==
  /\ COLORS \in Nat \ {0} /\ COLORS % 2 = 0
  /\ HEIGHT \in Nat \ {0} /\ 3 * HEIGHT =< 255
  /\ COMPONENTS \subseteq 0 .. 255

VARIABLES
  rgb,         \* the palette on the host: red, green, blue, red, ...
  input,       \* the column's palette indices
  output,      \* the bytes for the panel
  idi, ido     \* both uint8_t

lut_vars == <<rgb, input, output, idi, ido>>

(* Bytes are split with & and put together with << and |. *)
High(byte) == byte \div 16
Low(byte)  == byte % 16
Join(high, low) == 16 * high + low

(* rgb_to_packed_rgb444: the high halves of the components, two to a byte. *)
Packed(flat) ==
  [j \in 0 .. (3 * COLORS) \div 2 - 1 |->
     Join(High(flat[2 * j]), High(flat[2 * j + 1]))]

(* Two colours take three bytes; the second begins in the middle of one. *)
Color_even(palette, color) ==
  LET at == (color * 12) \div 8
  IN  <<High(palette[at]), Low(palette[at]), High(palette[at + 1])>>
Color(palette, color) ==
  LET at == (color * 12) \div 8
  IN  IF at % 3 = 0
      THEN <<High(palette[at]), Low(palette[at]), High(palette[at + 1])>>
      ELSE <<Low(palette[at]), High(palette[at + 1]), Low(palette[at + 1])>>

LutInit ==
  /\ rgb \in [0 .. 3 * COLORS - 1 -> COMPONENTS]
  /\ input \in [0 .. HEIGHT - 1 -> 0 .. COLORS - 1]
  /\ output = [j \in 0 .. 3 * HEIGHT - 1 |-> 0]
  /\ idi = 0 /\ ido = 0

(* ido is a uint8_t. *)
NextPixel_two_bytes(i) == (i + 2) % 256
NextPixel(i) == (i + 3) % 256

Round ==
  /\ idi < HEIGHT
  /\ LET c == Color(Packed(rgb), input[idi])
     IN  output' = [output EXCEPT ![ido]     = Join(c[1], c[2]),
                                  ![ido + 1] = Join(c[3], c[1]),
                                  ![ido + 2] = Join(c[2], c[3])]
  /\ idi' = idi + 1
  /\ ido' = NextPixel(ido)
  /\ UNCHANGED <<rgb, input>>

LutSpec == LutInit /\ [][Round]_lut_vars

------------------------------------------------------------------------------
(* Indices stay inside the palette, the column and the output. *)
TypeOK ==
  /\ rgb \in [0 .. 3 * COLORS - 1 -> COMPONENTS]
  /\ input \in [0 .. HEIGHT - 1 -> 0 .. COLORS - 1]
  /\ output \in [0 .. 3 * HEIGHT - 1 -> 0 .. 255]
  /\ idi \in 0 .. HEIGHT /\ ido = 3 * idi

(* The half byte the panel takes for the n-th component of the column. *)
Shown(n) == IF n % 2 = 0 THEN High(output[n \div 2]) ELSE Low(output[n \div 2])

(* Pixel y of the column is shown at y = 2k and at 2k + 1 in the colour the game
   gave it, as far as twelve bits can tell: what test_lut.py checks for some
   palettes, packing and lookup agree on for all.                             *)
PixelsDoubled ==
  \A k \in 0 .. idi - 1, twin \in {0, 1}, c \in {0, 1, 2} :
    Shown(3 * (2 * k + twin) + c) = High(rgb[3 * input[k] + c])
==============================================================================
