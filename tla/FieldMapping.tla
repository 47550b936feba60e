---------------------------- MODULE FieldMapping ----------------------------
(***************************************************************************)
(* How the two converters fill the fields of the canonical state that are   *)
(* decoded from registers, and what the Mesen2 converter makes of them: it  *)
(* masks every number to the width of its key.                              *)
(***************************************************************************)
EXTENDS Registers

\* What both converters read off the same bytes.
WindowsOf(w12, w34, wobj) ==
  LET bits == [l \in Masked |-> (IF l < 2 THEN w12 ELSE IF l < 4 THEN w34 ELSE wobj)
                                  \div 16^(l % 2)]
  IN  [w \in 0..1 |-> [active   |-> [l \in Masked |-> Bit(bits[l], w * 2 + 1)],
                       inverted |-> [l \in Masked |-> Bit(bits[l], w * 2)]]]

\* Mutant: objects and colours take their logic from the layers' register.
MaskLogicOfLayers(bg, obj) == [l \in Masked |-> Bits(bg, (l % 4) * 2, 2)]

MaskLogic(bg, obj) ==
  [l \in Masked |-> IF l < 4 THEN Bits(bg, l * 2, 2) ELSE Bits(obj, (l - 4) * 2, 2)]

Colour(r, g, b) == (r % 32) + (g % 32) * 32 + (b % 32) * 1024

WindowMask(b) == [l \in 0..4 |-> Bit(b, l)]

-----------------------------------------------------------------------------
\* Mutant: the shift amount is taken for the mode.
ShiftAsMode(n) == n

\* Mutant: the lowest bits of the shift amount are.
ShiftMasked(n) == n % 4

\* shift_to_mode.get(n, 0)
ShiftToMode(n) == CASE n = 5 -> 1 [] n = 6 -> 2 [] n = 7 -> 3 [] OTHER -> 0

FromSnes9x(s) ==
  [forced_blank |-> s.ForcedBlanking # 0,
   brightness   |-> s.Brightness,
   bg_mode      |-> s.BGMode,
   mode1_bg3_priority |-> s.BG3Priority # 0,
   main_screen_layers |-> s.fr.tm,
   sub_screen_layers  |-> s.fr.ts,
   vram_addr         |-> s.VMA_Address,
   vram_increment    |-> s.VMA_Increment,
   vram_remap        |-> ShiftToMode(s.VMA_Shift),
   vram_incr_on_high |-> s.VMA_High # 0,
   oam_mode        |-> Bits(s.fr.obsel, 5, 3),
   oam_base_addr   |-> Bits(s.fr.obsel, 0, 3) * 8192,
   oam_addr_offset |-> (Bits(s.fr.obsel, 3, 2) + 1) * 4096,
   mosaic_size    |-> Bits(s.fr.mosaic, 4, 4) + 1,
   mosaic_enabled |-> Bits(s.fr.mosaic, 0, 4),
   hi_res           |-> Bit(s.fr.setini, 3),
   screen_interlace |-> Bit(s.fr.setini, 0),
   obj_interlace    |-> Bit(s.fr.setini, 1),
   overscan         |-> Bit(s.fr.setini, 2),
   ext_bg           |-> Bit(s.fr.setini, 6),
   direct_color        |-> Bit(s.fr.cgwsel, 0),
   color_add_subscreen |-> Bit(s.fr.cgwsel, 1),
   color_prevent_mode  |-> Bits(s.fr.cgwsel, 4, 2),
   color_clip_mode     |-> Bits(s.fr.cgwsel, 6, 2),
   color_math_enabled  |-> Bits(s.fr.cgadsub, 0, 6),
   color_halve         |-> Bit(s.fr.cgadsub, 6),
   color_subtract      |-> Bit(s.fr.cgadsub, 7),
   fixed_color |-> Colour(s.FixedColourRed, s.FixedColourGreen, s.FixedColourBlue),
   mask_logic       |-> MaskLogic(s.fr.wbglog, s.fr.wobjlog),
   window_mask_main |-> WindowMask(s.fr.tmw),
   window_mask_sub  |-> WindowMask(s.fr.tsw),
   layers |-> [l \in Layer |->
     [tilemap_addr  |-> s.SCBase[l],
      chr_addr      |-> s.NameBase[l],
      double_width  |-> Bit(s.SCSize[l], 0),
      double_height |-> Bit(s.SCSize[l], 1),
      large_tiles   |-> s.BGSize[l] # 0]],
   windows |-> WindowsOf(s.fr.w12sel, s.fr.w34sel, s.fr.wobjsel),
   large_map       |-> s.Mode7Repeat >= 2,
   fill_with_tile0 |-> s.Mode7Repeat = 0,
   h_mirror        |-> s.Mode7HFlip # 0,
   v_mirror        |-> s.Mode7VFlip # 0,
   enable_nmi         |-> Bit(s.fr.nmitimen, 7),
   enable_h_irq       |-> s.HTimerEnabled # 0,
   enable_v_irq       |-> s.VTimerEnabled # 0,
   enable_auto_joypad |-> Bit(s.fr.nmitimen, 0),
   transfer_mode    |-> s.TransferMode,
   fixed_transfer   |-> s.AAddressFixed # 0,
   decrement        |-> s.AAddressDecrement # 0,
   unused_flag      |-> s.UnusedBit43x0 # 0,
   hdma_indirect    |-> s.HDMAIndirectAddressing # 0,
   invert_direction |-> s.ReverseTransfer # 0]

-----------------------------------------------------------------------------
\* A byte address as a word address: (a >> 1) & 0x7FFF.
\* Mutant: addresses stay in bytes.
WordAddressKept(a) == a % 32768

WordAddress(a) == (a \div 2) % 32768

\* incr_map.get(n, 1)
\* Mutant: the table has increments in words.
IncrementOfWords(n) == CASE n = 32 -> 32 [] n = 128 -> 128 [] OTHER -> 1

IncrementOf(n) == CASE n = 2 -> 1 [] n = 64 -> 32 [] n \in {128, 256} -> 128 [] OTHER -> 1

\* size_mode_table.get(sizes, 0)
ObjectMode(sizes) ==
  LET table == <<<<1, 4>>, <<1, 16>>, <<1, 64>>, <<4, 16>>, <<4, 64>>, <<16, 64>>>>
      k     == {m \in 1..6 : table[m] = sizes}
  IN  IF k = {} THEN 0 ELSE (CHOOSE m \in k : TRUE) - 1

\* An arithmetic shift of the difference; what is not above zero becomes the
\* smallest offset.
NameOffset(ptr, ptrn) ==
  LET n == (ptrn - ptr) \div 2 IN (IF n <= 0 THEN 4096 ELSE n) % 32768

\* The nibbles of a window register put together again.
\* Mutant: the nibbles change places.
WindowRegisterSwapped(low, high) == (high % 16) + (low % 16) * 16

WindowRegister(low, high) == (low % 16) + (high % 16) * 16

FromZsnes(z) ==
  [forced_blank |-> z.forceblnk # 0,
   brightness   |-> z.vidbright,
   bg_mode      |-> z.bgmode,
   mode1_bg3_priority |-> z.bg3highst # 0,
   main_screen_layers |-> z.scrnon % 256,
   sub_screen_layers  |-> (z.scrnon \div 256) % 256,
   vram_addr         |-> WordAddress(z.vramaddr % 65536),
   vram_increment    |-> IncrementOf(z.addrincr),
   vram_remap        |-> Bits(z.vraminctype, 2, 2),
   vram_incr_on_high |-> Bit(z.vraminctype, 7),
   oam_mode        |-> ObjectMode(z.objsize),
   oam_base_addr   |-> WordAddress(z.objptr),
   oam_addr_offset |-> NameOffset(z.objptr, z.objptrn),
   mosaic_size    |-> (z.mosaicsz % 16) + 1,
   mosaic_enabled |-> z.mosaicon,
   hi_res           |-> FALSE,
   screen_interlace |-> z.interlval # 0,
   obj_interlace    |-> FALSE,
   overscan         |-> z.resolutn > 224,
   ext_bg           |-> FALSE,
   direct_color        |-> Bit(z.scaddset, 0),
   color_add_subscreen |-> Bit(z.scaddset, 1),
   color_prevent_mode  |-> Bits(z.scaddset, 4, 2),
   color_clip_mode     |-> Bits(z.scaddset, 6, 2),
   color_math_enabled  |-> Bits(z.scaddtype, 0, 6),
   color_halve         |-> Bit(z.scaddtype, 6),
   color_subtract      |-> Bit(z.scaddtype, 7),
   fixed_color |-> Colour(z.coladdr, z.coladdg, z.coladdb),
   mask_logic       |-> MaskLogic(z.winlogica, z.winlogicb),
   window_mask_main |-> WindowMask(z.winenabm),
   window_mask_sub  |-> WindowMask(z.winenabs),
   layers |-> [l \in Layer |->
     [tilemap_addr  |-> WordAddress(z.bgptr[l]),
      chr_addr      |-> WordAddress(z.bgobjptr[l]),
      double_width  |-> Bit(z.bgscsize[l], 0),
      double_height |-> Bit(z.bgscsize[l], 1),
      large_tiles   |-> Bit(z.bgtilesz, l)]],
   windows |-> WindowsOf(WindowRegister(z.winen[1], z.winen[2]),
                         WindowRegister(z.winen[3], z.winen[4]),
                         WindowRegister(z.winen[5], z.winen[6])),
   large_map       |-> Bit(z.mode7set, 7),
   fill_with_tile0 |-> Bits(z.mode7set, 6, 2) = 0,
   h_mirror        |-> Bit(z.mode7set, 0),
   v_mirror        |-> Bit(z.mode7set, 1),
   enable_nmi         |-> Bit(z.INTEnab, 7),
   enable_h_irq       |-> Bit(z.INTEnab, 4),
   enable_v_irq       |-> Bit(z.INTEnab, 5),
   enable_auto_joypad |-> Bit(z.INTEnab, 0),
   transfer_mode    |-> z.dmap % 8,
   fixed_transfer   |-> Bit(z.dmap, 3),
   decrement        |-> Bit(z.dmap, 4),
   unused_flag      |-> Bit(z.dmap, 5),
   hdma_indirect    |-> Bit(z.dmap, 6),
   invert_direction |-> Bit(z.dmap, 7)]

-----------------------------------------------------------------------------
(* mesen2/converter.convert: flags are bytes 0 and 1, enums four bytes, and *)
(* the numbers are masked to one byte or two.                               *)

\* Mutant: offsets are written as bytes.
WidthOfByte(f) == 8

WidthOf(f) ==
  IF f \in {"vram_addr", "oam_base_addr", "oam_addr_offset", "fixed_color"}
  THEN 16 ELSE 8

Numbers ==
  {"brightness", "bg_mode", "main_screen_layers", "sub_screen_layers", "vram_addr",
   "vram_increment", "vram_remap", "oam_mode", "oam_base_addr", "oam_addr_offset",
   "mosaic_size", "mosaic_enabled", "color_math_enabled", "fixed_color",
   "transfer_mode"}

ToMesen(c) ==
  [f \in DOMAIN c |->
     IF f \in Numbers THEN c[f] % 2^WidthOf(f)
     ELSE IF f = "layers"
     THEN [l \in Layer |-> [c.layers[l] EXCEPT !.tilemap_addr = @ % 65536,
                                               !.chr_addr = @ % 65536]]
     ELSE c[f]]
=============================================================================
