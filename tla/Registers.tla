----------------------------- MODULE Registers ------------------------------
(***************************************************************************)
(* A game writes bytes to the console's registers.  Each emulator keeps     *)
(* them decoded in its own way (Snes9x: shift amounts, bases and flags;     *)
(* ZSNES: byte addresses, tile counts and nibbles), and the two converters  *)
(* decode that again into the canonical state.  That is right when it gives *)
(* what the bytes mean to the console (Meaning), by both ways.              *)
(*                                                                          *)
(* r is a record of bytes, one per register that a field is made of; fields *)
(* that are copied as they are have none.                                   *)
(***************************************************************************)
EXTENDS Integers

RegisterNames ==
  {"inidisp", "obsel", "bgmode", "mosaic", "bg1sc", "bg4sc", "bg12nba",
   "bg34nba", "vmain", "vmaddh", "m7sel", "w12sel", "w34sel", "wobjsel",
   "wbglog", "wobjlog", "tm", "ts", "tmw", "tsw", "cgwsel", "cgadsub", "red",
   "green", "blue", "setini", "nmitimen", "dmap"}
RegisterValues == [RegisterNames -> 0..255]

Layer  == 0..3
Masked == 0..5   \* what a window masks: four layers, objects, colours

\* Bit i of b, and the n bits of b from bit i on.
Bit(b, i)     == (b \div 2^i) % 2 = 1
Bits(b, i, n) == (b \div 2^i) % 2^n

\* The screen bases of two layers are given, those of the others are zero.
ScreenBase(r, l)  == CASE l = 0 -> r.bg1sc [] l = 3 -> r.bg4sc [] OTHER -> 0
NameNibble(r, l)  == IF l < 2 THEN Bits(r.bg12nba, l * 4, 4)
                              ELSE Bits(r.bg34nba, (l - 2) * 4, 4)

Increment == [n \in 0..3 |-> CASE n = 0 -> 1 [] n = 1 -> 32 [] OTHER -> 128]

-----------------------------------------------------------------------------
(* What the bytes mean to the console.  Addresses count words of the 32K    *)
(* words of video memory.                                                   *)

\* The nibble of $2123-$2125 for what is masked: for each of two windows, a
\* bit that inverts it and then a bit that enables it.
WindowNibble(r, l) ==
  CASE l = 0 -> r.w12sel % 16  [] l = 1 -> r.w12sel \div 16
    [] l = 2 -> r.w34sel % 16  [] l = 3 -> r.w34sel \div 16
    [] l = 4 -> r.wobjsel % 16 [] l = 5 -> r.wobjsel \div 16

Meaning(r) ==
  [forced_blank |-> r.inidisp >= 128,
   brightness   |-> r.inidisp % 16,
   bg_mode      |-> r.bgmode % 8,
   mode1_bg3_priority |-> Bit(r.bgmode, 3),
   main_screen_layers |-> r.tm,
   sub_screen_layers  |-> r.ts,
   vram_addr         |-> (r.vmaddh * 256) % 32768,
   vram_increment    |-> Increment[r.vmain % 4],
   vram_remap        |-> Bits(r.vmain, 2, 2),
   vram_incr_on_high |-> r.vmain >= 128,
   oam_mode        |-> r.obsel \div 32,
   oam_base_addr   |-> ((r.obsel % 8) * 8192) % 32768,
   oam_addr_offset |-> (Bits(r.obsel, 3, 2) + 1) * 4096,
   mosaic_size    |-> r.mosaic \div 16 + 1,
   mosaic_enabled |-> r.mosaic % 16,
   hi_res           |-> Bit(r.setini, 3),
   screen_interlace |-> Bit(r.setini, 0),
   obj_interlace    |-> Bit(r.setini, 1),
   overscan         |-> Bit(r.setini, 2),
   ext_bg           |-> Bit(r.setini, 6),
   direct_color       |-> r.cgwsel % 2 = 1,
   color_add_subscreen |-> r.cgwsel % 4 >= 2,
   color_prevent_mode |-> (r.cgwsel % 64) \div 16,
   color_clip_mode    |-> r.cgwsel \div 64,
   color_math_enabled |-> r.cgadsub % 64,
   color_halve        |-> r.cgadsub % 128 >= 64,
   color_subtract     |-> r.cgadsub >= 128,
   fixed_color |-> (r.red % 32) + 32 * (r.green % 32) + 1024 * (r.blue % 32),
   mask_logic  |-> [l \in Masked |->
                      IF l < 4 THEN (r.wbglog \div 4^l) % 4
                               ELSE (r.wobjlog \div 4^(l - 4)) % 4],
   window_mask_main |-> [l \in 0..4 |-> Bit(r.tmw, l)],
   window_mask_sub  |-> [l \in 0..4 |-> Bit(r.tsw, l)],
   layers |-> [l \in Layer |->
     [tilemap_addr  |-> ((ScreenBase(r, l) \div 4) * 1024) % 32768,
      chr_addr      |-> (NameNibble(r, l) * 4096) % 32768,
      double_width  |-> ScreenBase(r, l) % 2 = 1,
      double_height |-> ScreenBase(r, l) % 4 >= 2,
      large_tiles   |-> Bit(r.bgmode, 4 + l)]],
   windows |-> [w \in 0..1 |->
     [active   |-> [l \in Masked |-> Bit(WindowNibble(r, l), 2 * w + 1)],
      inverted |-> [l \in Masked |-> Bit(WindowNibble(r, l), 2 * w)]]],
   large_map       |-> r.m7sel >= 128,
   fill_with_tile0 |-> r.m7sel >= 192,
   h_mirror        |-> Bit(r.m7sel, 0),
   v_mirror        |-> Bit(r.m7sel, 1),
   enable_nmi         |-> r.nmitimen >= 128,
   enable_h_irq       |-> Bit(r.nmitimen, 4),
   enable_v_irq       |-> Bit(r.nmitimen, 5),
   enable_auto_joypad |-> Bit(r.nmitimen, 0),
   transfer_mode    |-> r.dmap % 8,
   fixed_transfer   |-> Bit(r.dmap, 3),
   decrement        |-> Bit(r.dmap, 4),
   unused_flag      |-> Bit(r.dmap, 5),
   hdma_indirect    |-> Bit(r.dmap, 6),
   invert_direction |-> Bit(r.dmap, 7)]

-----------------------------------------------------------------------------
(* What the emulators keep of them, as the converters read it.              *)

Flag(b) == IF b THEN 1 ELSE 0

\* Snes9x: the bytes themselves in block FIL, and decoded in PPU and DMA.
Snes9xRegisters(r) ==
  [fr |-> r,
   ForcedBlanking |-> Flag(r.inidisp >= 128), Brightness |-> r.inidisp % 16,
   BGMode |-> r.bgmode % 8, BG3Priority |-> Flag(Bit(r.bgmode, 3)),
   BGSize |-> [l \in Layer |-> Flag(Bit(r.bgmode, 4 + l))],
   VMA_High |-> Flag(r.vmain >= 128), VMA_Address |-> r.vmaddh * 256,
   VMA_Increment |-> Increment[r.vmain % 4],
   VMA_Shift |-> LET n == Bits(r.vmain, 2, 2) IN IF n = 0 THEN 0 ELSE n + 4,
   SCBase   |-> [l \in Layer |-> ((ScreenBase(r, l) \div 4) % 32) * 1024],
   SCSize   |-> [l \in Layer |-> ScreenBase(r, l) % 4],
   NameBase |-> [l \in Layer |-> (NameNibble(r, l) % 8) * 4096],
   FixedColourRed |-> r.red % 32, FixedColourGreen |-> r.green % 32,
   FixedColourBlue |-> r.blue % 32,
   Mode7Repeat |-> LET n == r.m7sel \div 64 IN IF n = 1 THEN 0 ELSE n,
   Mode7HFlip |-> r.m7sel % 2, Mode7VFlip |-> Bits(r.m7sel, 1, 1),
   HTimerEnabled |-> Bits(r.nmitimen, 4, 1), VTimerEnabled |-> Bits(r.nmitimen, 5, 1),
   TransferMode |-> r.dmap % 8, AAddressFixed |-> Bits(r.dmap, 3, 1),
   AAddressDecrement |-> Bits(r.dmap, 4, 1), UnusedBit43x0 |-> Bits(r.dmap, 5, 1),
   HDMAIndirectAddressing |-> Bits(r.dmap, 6, 1), ReverseTransfer |-> r.dmap \div 128]

\* ZSNES: some bytes as written, addresses in bytes, sizes in tiles, window
\* registers in nibbles; of $2133 the interlace bit and the visible lines.
ObjectTiles ==
  <<<<1, 4>>, <<1, 16>>, <<1, 64>>, <<4, 16>>, <<4, 64>>, <<16, 64>>>>

ZsnesRegisters(r) ==
  [forceblnk |-> Flag(r.inidisp >= 128), vidbright |-> r.inidisp % 16,
   bgmode |-> r.bgmode % 8, bg3highst |-> Flag(Bit(r.bgmode, 3)),
   bgtilesz |-> r.bgmode \div 16,
   scrnon |-> r.tm + 256 * r.ts,
   vramaddr |-> ((r.vmaddh * 256) % 32768) * 2, vraminctype |-> r.vmain,
   addrincr |-> 2 * Increment[r.vmain % 4],
   objptr  |-> ((r.obsel % 4) * 8192) * 2,
   objptrn |-> ((r.obsel % 4) * 8192 + (Bits(r.obsel, 3, 2) + 1) * 4096) * 2,
   objsize |-> IF r.obsel \div 32 < 6 THEN ObjectTiles[r.obsel \div 32 + 1] ELSE <<1, 1>>,
   mosaicon |-> r.mosaic % 16, mosaicsz |-> r.mosaic \div 16,
   interlval |-> r.setini % 2, resolutn |-> IF Bit(r.setini, 2) THEN 239 ELSE 224,
   scaddset |-> r.cgwsel, scaddtype |-> r.cgadsub,
   coladdr |-> r.red, coladdg |-> r.green, coladdb |-> r.blue,
   winlogica |-> r.wbglog, winlogicb |-> r.wobjlog,
   winenabm |-> r.tmw, winenabs |-> r.tsw,
   winen |-> <<r.w12sel % 16, r.w12sel \div 16, r.w34sel % 16, r.w34sel \div 16,
               r.wobjsel % 16, r.wobjsel \div 16>>,
   bgptr    |-> [l \in Layer |-> ((ScreenBase(r, l) \div 4) % 32) * 2048],
   bgscsize |-> [l \in Layer |-> ScreenBase(r, l) % 4],
   bgobjptr |-> [l \in Layer |-> (NameNibble(r, l) % 8) * 8192],
   mode7set |-> r.m7sel, INTEnab |-> r.nmitimen, dmap |-> r.dmap]
=============================================================================
