--------------------------- MODULE TransferProofs ---------------------------
(***************************************************************************)
(* Transfer, for every moment of every console.  The clocks that TLC        *)
(* evaluates line by line follow from arithmetic on the alignment and on    *)
(* the two ratios; the registers that it evaluates byte by byte follow      *)
(* field by field: what an emulator keeps of a byte, read again, is what    *)
(* the byte meant, and the writer's masks leave it alone.                   *)
(***************************************************************************)
EXTENDS Transfer, TLAPS

-----------------------------------------------------------------------------
(* Lines and alignment.                                                     *)

\* Aligning a line's clock to 8 moves it by less than 8.
LEMMA Aligned ==
  ASSUME NEW l \in Nat
  PROVE  LET a == ((l * 1364 + 7) \div 8) * 8 IN
           /\ a \in Nat /\ a % 8 = 0
           /\ l * 1364 <= a /\ a <= l * 1364 + 7
  OBVIOUS

\* Dividing a clock by the length of a line gives the line back.
LEMMA LineOfClock ==
  ASSUME NEW l \in Nat, NEW x \in Nat, x < 1364
  PROVE  (l * 1364 + x) \div 1364 = l /\ (l * 1364 + x) % 1364 = x
  OBVIOUS

\* The quotient taken in steps is that of the ratio 68352/715909.
LEMMA NtscRatio ==
  ASSUME NEW a \in Nat
  PROVE  /\ NtscSpc(a) \in Nat
         /\ 715909 * NtscSpc(a) <= 68352 * a
         /\ 68352 * a < 715909 * (NtscSpc(a) + 1)
<1> DEFINE q == a \div 715909
           r == a % 715909
           u == r \div 32
           v == r % 32
           t == u * 68352
           k == t \div 715909
           s == t % 715909
           e == 32 * s + v * 68352
           w == e \div 715909
<1>1. /\ q \in Nat /\ r \in Nat /\ a = q * 715909 + r
  OBVIOUS
<1>2. /\ u \in Nat /\ v \in Nat /\ r = u * 32 + v
  BY <1>1
<1>3. t \in Nat
  BY <1>2
<1>4. /\ k \in Nat /\ s \in Nat /\ t = k * 715909 + s
  BY <1>3
<1>5. e \in Nat
  BY <1>2, <1>4
<1>6. /\ w \in Nat /\ w * 715909 <= e /\ e < (w + 1) * 715909
  BY <1>5
<1>7. NtscSpc(a) = q * 68352 + 32 * k + w
  BY DEF NtscSpc
<1> HIDE DEF q, r, u, v, k, s, w
<1>8. 68352 * a = (q * 68352 + 32 * k) * 715909 + e
  BY <1>1, <1>2, <1>4
<1> QED
  BY <1>1, <1>4, <1>5, <1>6, <1>7, <1>8

\* The same for the ratio 5340/64081.
LEMMA PalRatio ==
  ASSUME NEW a \in Nat
  PROVE  /\ PalSpc(a) \in Nat
         /\ 64081 * PalSpc(a) <= 5340 * a
         /\ 5340 * a < 64081 * (PalSpc(a) + 1)
<1> DEFINE q == a \div 64081
           r == a % 64081
           e == r * 5340
           w == e \div 64081
<1>1. /\ q \in Nat /\ r \in Nat /\ a = q * 64081 + r
  OBVIOUS
<1>2. /\ w \in Nat /\ w * 64081 <= e /\ e < (w + 1) * 64081
  BY <1>1
<1>3. PalSpc(a) = q * 5340 + w
  BY DEF PalSpc
<1> HIDE DEF q, r, w
<1> QED
  BY <1>1, <1>2, <1>3

-----------------------------------------------------------------------------
(* The steps carry the moment through the save and the canonical state.     *)

SavedTime == IF emu = "snes9x" THEN Snes9xTime(moment, moment.tim) ELSE ZsnesTime(moment)
ReadTime  == IF emu = "snes9x" THEN FromSnes9xTime(SavedTime) ELSE FromZsnesTime(SavedTime)

SavedRegisters == IF emu = "snes9x" THEN Snes9xRegisters(moment.regs)
                  ELSE ZsnesRegisters(moment.regs)
ReadRegisters  == IF emu = "snes9x" THEN FromSnes9x(SavedRegisters)
                  ELSE FromZsnes(SavedRegisters)

Carried ==
  /\ moment \in Moments
  /\ emu \in {"snes9x", "zsnes"}
  /\ emu = "snes9x" => moment.line = FirstBlankLine(moment.overscan)
  /\ pc \in {"save", "convert", "write", "done"}
  /\ pc = "convert" => save.time = SavedTime /\ save.regs = SavedRegisters
  /\ pc \in {"write", "done"} => canon.time = ReadTime /\ canon.regs = ReadRegisters
  /\ pc = "done" => /\ mesen.time = MesenTime(canon.time)
                    /\ mesen.regs = ToMesen(canon.regs)

\* Nothing is saved yet.
LEMMA CarriedInit == Init => Carried
  BY DEF Init, Carried

\* Each step fills the next stage from the one before and leaves the others.
LEMMA CarriedNext == Carried /\ [Next]_vars => Carried'
<1> SUFFICES ASSUME Carried, [Next]_vars PROVE Carried'
  OBVIOUS
<1> USE DEF Carried, Step, SavedTime, ReadTime, SavedRegisters, ReadRegisters
<1>1. CASE SaveSnes9x
  BY <1>1 DEF SaveSnes9x
<1>2. CASE SaveZsnes
  BY <1>2 DEF SaveZsnes
<1>3. CASE ConvertSnes9x
  BY <1>3 DEF ConvertSnes9x
<1>4. CASE ConvertZsnes
  BY <1>4 DEF ConvertZsnes
<1>5. CASE WriteMesen2
  BY <1>5 DEF WriteMesen2
<1>6. CASE UNCHANGED vars
  BY <1>6 DEF vars
<1> QED
  BY <1>1, <1>2, <1>3, <1>4, <1>5, <1>6 DEF Next

\* In every reachable state each stage holds what is made of the one before.
THEOREM AllCarried == Spec => []Carried
  BY CarriedInit, CarriedNext, PTL DEF Spec

\* What both readers make of the moment.
LEMMA ReadsMoment ==
  ASSUME Carried
  PROVE  /\ ReadTime.scanline = moment.line
         /\ ReadTime.overscan = moment.overscan
         /\ ReadTime.is_pal \in BOOLEAN
         /\ ReadTime.nmi_flag = (moment.line >= FirstBlankLine(moment.overscan))
         /\ emu = "snes9x" /\ moment.tim => ReadTime.is_pal = moment.pal
<1>1. moment.line \in Nat /\ moment.overscan \in BOOLEAN /\ moment.pal \in BOOLEAN
  BY MomentsAssumption DEF Carried
<1>2. CASE emu = "snes9x"
  <2>1. ReadTime = FromSnes9xTime(Snes9xTime(moment, moment.tim))
    BY <1>2 DEF ReadTime, SavedTime
  <2>2. /\ ReadTime.scanline = FirstBlankLine(moment.overscan)
        /\ ReadTime.overscan = moment.overscan
        /\ ReadTime.is_pal = ((IF moment.tim THEN LinesOf(moment.pal) ELSE 0) > 262)
        /\ ReadTime.nmi_flag = TRUE
    BY <2>1 DEF FromSnes9xTime, Snes9xTime
  <2>3. moment.line = FirstBlankLine(moment.overscan)
    BY <1>2 DEF Carried
  <2>4. (moment.line >= FirstBlankLine(moment.overscan)) = TRUE
    BY <1>1, <2>3
  <2>5. /\ ReadTime.is_pal \in BOOLEAN
        /\ moment.tim => ReadTime.is_pal = moment.pal
    BY <1>1, <2>2 DEF LinesOf
  <2> QED
    BY <2>2, <2>3, <2>4, <2>5
<1>3. CASE emu = "zsnes"
  <2>1. ReadTime = FromZsnesTime(ZsnesTime(moment))
    BY <1>3 DEF ReadTime, SavedTime
  <2> DEFINE z == ZsnesTime(moment)
  <2>2. z.curypos = moment.line /\ z.resolutn = IF moment.overscan THEN 239 ELSE 224
    BY DEF ZsnesTime
  <2>3. z.resolutn \in {224, 239} /\ (z.resolutn > 224) = moment.overscan
    BY <1>1, <2>2
  <2>4. /\ ReadTime.scanline = z.curypos
        /\ ReadTime.overscan = (z.resolutn > 224)
        /\ ReadTime.is_pal = (z.resolutn > 262)
        /\ ReadTime.nmi_flag = (z.curypos >= FirstBlankLine(z.resolutn > 224))
    BY <2>1 DEF FromZsnesTime
  <2>5. ReadTime.nmi_flag = (moment.line >= FirstBlankLine(moment.overscan))
    BY <2>2, <2>3, <2>4
  <2>6. ReadTime.is_pal \in BOOLEAN
    BY <2>4
  <2> QED
    BY <1>3, <2>2, <2>3, <2>4, <2>5, <2>6
<1> QED
  BY <1>2, <1>3 DEF Carried

-----------------------------------------------------------------------------
(* The clocks.                                                              *)

\* The clocks of a line: inside it, behind its refresh, and 0 to 7 clocks of
\* alignment away from hClock.
LEMMA ClocksOfLine ==
  ASSUME NEW t, t.scanline \in Nat, t.scanline < 65535, t.is_pal \in BOOLEAN
  PROVE  LET x == MesenTime(t) IN
           /\ x.masterClock \in Nat
           /\ x.cycleCount = x.masterClock
           /\ x.scanline = t.scanline /\ x.vblankStart = t.scanline
           /\ x.masterClock \div H_PERIOD = t.scanline
           /\ (x.masterClock % H_PERIOD) - x.hClock \in 0..7
           /\ x.dramRefresh + 40 <= x.hClock /\ x.hClock < x.nextEventClock
           /\ x.nextEventClock < H_PERIOD
           /\ x.spcCycle = SpcCycles(x.masterClock, t.is_pal)
<1> DEFINE l == t.scanline
           a == ((l * 1364 + 7) \div 8) * 8
           x == MesenTime(t)
<1>1. /\ a \in Nat /\ a % 8 = 0 /\ l * 1364 <= a /\ a <= l * 1364 + 7
  BY Aligned
<1>2. /\ x.masterClock = a + 578 /\ x.cycleCount = a + 578
      /\ x.hClock = 578 /\ x.dramRefresh = 538 /\ x.nextEventClock = 1360
      /\ x.scanline = l /\ x.vblankStart = l
      /\ x.spcCycle = SpcCycles(a + 578, t.is_pal)
  <2>1. H_PERIOD = 1364
    BY DEF H_PERIOD
  <2>2. /\ U16(578) = 578 /\ U16(538) = 538 /\ U16(l) = l
    BY DEF U16
  <2>3. 538 - (a % 8) = 538 /\ 538 + 40 = 578 /\ a + 538 + 40 = a + 578
    BY <1>1
  <2> QED
    BY <2>1, <2>2, <2>3 DEF MesenTime
<1> DEFINE d == a + 578 - l * 1364
<1>3. d \in Nat /\ 578 <= d /\ d <= 585 /\ a + 578 = l * 1364 + d
  BY <1>1
<1> HIDE DEF a, x, d
<1>4. (a + 578) \div 1364 = l /\ (a + 578) % 1364 = d
  <2> HIDE DEF l
  <2>1. l \in Nat /\ d \in Nat /\ d < 1364
    BY <1>3 DEF l
  <2>2. (l * 1364 + d) \div 1364 = l /\ (l * 1364 + d) % 1364 = d
    BY <2>1, LineOfClock
  <2> QED
    BY <1>3, <2>2
<1> HIDE DEF l
<1>5. H_PERIOD = 1364
  BY DEF H_PERIOD
<1>6. (d - 578) \in 0..7
  BY <1>3
<1> QED
  BY <1>1, <1>2, <1>4, <1>5, <1>6 DEF l, x

\* The SPC's share of the master clock, in both regions.
LEMMA SpcShare ==
  ASSUME NEW c \in Nat, NEW pal \in BOOLEAN
  PROVE  LET slow == IF pal THEN 13 ELSE 11 IN
           /\ (slow - 1) * SpcCycles(c, pal) <= c
           /\ c < slow * (SpcCycles(c, pal) + 1)
<1>1. CASE pal
  BY <1>1, PalRatio DEF SpcCycles
<1>2. CASE ~pal
  BY <1>2, NtscRatio DEF SpcCycles
<1> QED
  BY <1>1, <1>2

\* The clocks of every converted save belong to the moment it was saved at.
THEOREM ClocksAgree == Spec => []OneMoment
<1>1. Carried => OneMoment
  <2> SUFFICES ASSUME Carried, Written PROVE OneMoment!2
    BY DEF OneMoment
  <2>1. /\ mesen.time = MesenTime(ReadTime) /\ canon.time = ReadTime
    BY DEF Carried, Written
  <2>2. ReadTime.scanline = moment.line /\ ReadTime.is_pal \in BOOLEAN
    BY ReadsMoment
  <2>3. moment.line \in Nat /\ moment.line < 65535
    BY MomentsAssumption DEF Carried
  <2> QED
    BY <2>1, <2>2, <2>3, ClocksOfLine, SpcShare
<1> QED
  BY <1>1, AllCarried, PTL

\* The NMI flag says whether the line is in vertical blanking.
THEOREM NmiFlagIsTrue == Spec => []NmiFlagTrue
<1>1. Carried => NmiFlagTrue
  <2> SUFFICES ASSUME Carried, Written PROVE NmiFlagTrue
    BY DEF NmiFlagTrue
  <2>1. mesen.time = MesenTime(ReadTime)
    BY DEF Carried, Written
  <2>2. moment.line \in Nat /\ moment.line < 65535
    BY MomentsAssumption DEF Carried
  <2>3. /\ mesen.time.overscanMode = ReadTime.overscan
        /\ mesen.time.nmiFlag = ReadTime.nmi_flag
        /\ mesen.time.scanline = moment.line
    BY <2>1, <2>2, ReadsMoment DEF MesenTime, U16
  <2> QED
    BY <2>3, ReadsMoment DEF NmiFlagTrue
<1> QED
  BY <1>1, AllCarried, PTL

\* A Snes9x save becomes the first blank line of a frame of its region.
THEOREM Snes9xFrameRight == Spec => []Snes9xFrame
<1>1. Carried => Snes9xFrame
  <2> SUFFICES ASSUME Carried, Written, emu = "snes9x" PROVE Snes9xFrame
    BY DEF Snes9xFrame
  <2>1. mesen.time = MesenTime(ReadTime)
    BY DEF Carried, Written
  <2>2. /\ moment.line = FirstBlankLine(moment.overscan)
        /\ moment.line \in Nat /\ moment.line < 65535
    BY MomentsAssumption DEF Carried
  <2>3. /\ mesen.time.scanline = moment.line
        /\ mesen.time.vblankStart = moment.line
        /\ mesen.time.vblankEnd = IF ReadTime.is_pal THEN 311 ELSE 261
    BY <2>1, <2>2, ReadsMoment DEF MesenTime, U16
  <2> QED
    BY <2>2, <2>3, ReadsMoment DEF Snes9xFrame, FirstBlankLine, LinesOf
<1> QED
  BY <1>1, AllCarried, PTL
-----------------------------------------------------------------------------
(* Registers.  A field of the canonical state comes over when the writer's  *)
(* mask does not cut it and it is what the registers mean; addresses and    *)
(* layers may differ by what wraps around.                                  *)

Addresses == {"vram_addr", "oam_base_addr"}
Wide      == {"oam_addr_offset", "fixed_color"}
Narrow    == {"brightness", "bg_mode", "main_screen_layers", "sub_screen_layers",
              "vram_increment", "vram_remap", "oam_mode", "mosaic_size",
              "mosaic_enabled", "color_math_enabled", "transfer_mode"}
Copied    == {"forced_blank", "mode1_bg3_priority", "vram_incr_on_high", "hi_res",
              "screen_interlace", "obj_interlace", "overscan", "ext_bg",
              "direct_color", "color_add_subscreen", "color_prevent_mode",
              "color_clip_mode", "color_halve", "color_subtract", "mask_logic",
              "window_mask_main", "window_mask_sub", "windows", "large_map",
              "fill_with_tile0", "h_mirror", "v_mirror", "enable_nmi",
              "enable_h_irq", "enable_v_irq", "enable_auto_joypad",
              "fixed_transfer", "decrement", "unused_flag", "hdma_indirect",
              "invert_direction"}
FieldNames == Addresses \cup Wide \cup Narrow \cup Copied \cup {"layers"}

\* A layer by its fields.
LayerOf(a, b, w, h, g) ==
  [tilemap_addr |-> a, chr_addr |-> b, double_width |-> w, double_height |-> h,
   large_tiles |-> g]

LayerComes(p, q) ==
  \E a, b \in Nat : \E w, h, g :
    /\ a < 65536 /\ b < 65536
    /\ p = LayerOf(a, b, w, h, g)
    /\ q = LayerOf(a % 32768, b % 32768, w, h, g)

LayersCome(p, q) ==
  /\ q = [l \in Layer |-> q[l]]
  /\ \A l \in Layer : LayerComes(p[l], q[l])

Comes(c, m, f) ==
  /\ f \in Addresses => c[f] \in Nat /\ c[f] < 65536 /\ c[f] % 32768 = m[f]
  /\ f \in Wide   => c[f] \in Nat /\ c[f] < 65536 /\ c[f] = m[f]
  /\ f \in Narrow => c[f] \in Nat /\ c[f] < 256 /\ c[f] = m[f]
  /\ f \in Copied => c[f] = m[f]
  /\ f = "layers" => LayersCome(c[f], m[f])

\* What the writer's mask leaves is below this.
Limit(f) == 2^WidthOf(f)

\* Which fields the writer masks, and to what.
LEMMA Masks ==
  /\ \A f \in Narrow : f \in Numbers /\ Limit(f) = 256
  /\ \A f \in Wide : f \in Numbers /\ Limit(f) = 65536
  /\ \A f \in Addresses : f \in Numbers /\ Limit(f) = 65536
  /\ \A f \in Copied : f \notin Numbers /\ f # "layers"
  /\ "layers" \notin Numbers
<1>1. \A f \in Narrow : f \in Numbers /\ WidthOf(f) = 8
  BY DEF Narrow, Numbers, WidthOf
<1>2. \A f \in Wide \cup Addresses : f \in Numbers /\ WidthOf(f) = 16
  BY DEF Wide, Addresses, Numbers, WidthOf
<1>3. \A f \in Copied : f \notin Numbers /\ f # "layers"
  BY DEF Copied, Numbers
<1>4. "layers" \notin Numbers
  BY DEF Numbers
<1>5. ASSUME NEW n \in Int, n = 8 PROVE 2^n = 256
  BY <1>5
<1>6. ASSUME NEW n \in Int, n = 16 PROVE 2^n = 65536
  BY <1>6
<1>7. ASSUME NEW f \in Narrow PROVE Limit(f) = 256
  BY <1>1, <1>5 DEF Limit
<1>8. ASSUME NEW f \in Wide \cup Addresses PROVE Limit(f) = 65536
  BY <1>2, <1>6 DEF Limit
<1> QED
  BY <1>1, <1>2, <1>3, <1>4, <1>7, <1>8

\* No field is of two kinds.
LEMMA Apart ==
  /\ \A f \in Wide \cup Narrow \cup Copied : f \notin Addresses /\ f # "layers"
  /\ \A f \in Addresses : f # "layers"
  BY DEF Addresses, Wide, Narrow, Copied

Cut(x, k) == [x EXCEPT !.tilemap_addr = @ % k, !.chr_addr = @ % k]

\* Cutting touches a layer's addresses only.
LEMMA LayerCut ==
  ASSUME NEW a, NEW b, NEW w, NEW h, NEW g, NEW k,
         NEW x, x = LayerOf(a, b, w, h, g),
         NEW y, y = Cut(x, k),
         NEW z, z = LayerOf(a % k, b % k, w, h, g)
  PROVE  y = z
<1> DEFINE N == {"tilemap_addr", "chr_addr", "double_width", "double_height", "large_tiles"}
<1>1. DOMAIN x = N /\ DOMAIN z = N
  BY DEF LayerOf
<1>2. /\ x.tilemap_addr = a /\ x.chr_addr = b
      /\ x.double_width = w /\ x.double_height = h /\ x.large_tiles = g
  BY DEF LayerOf
<1>3. /\ z.tilemap_addr = a % k /\ z.chr_addr = b % k
      /\ z.double_width = w /\ z.double_height = h /\ z.large_tiles = g
  BY DEF LayerOf
<1>4. \A f \in DOMAIN x : y[f] = IF f = "tilemap_addr" \/ f = "chr_addr" THEN x[f] % k ELSE x[f]
  BY <1>1 DEF Cut
<1>5. \A f \in DOMAIN x : y[f] = z[f]
  BY <1>1, <1>2, <1>3, <1>4
<1>6. y = [f \in DOMAIN x |-> y[f]]
  BY DEF Cut
<1>7. z = [f \in DOMAIN x |-> z[f]]
  BY <1>1 DEF LayerOf
<1> QED
  BY <1>5, <1>6, <1>7

\* Wrapping a layer is cutting it to 32K words.
LEMMA WrapIsCut == \A x : WrapLayer(x) = Cut(x, 32768)
  BY DEF WrapLayer, Cut

\* The layers that are written, with their addresses wrapped.
LEMMA LayersWritten ==
  ASSUME NEW x, NEW y, LayersCome(x, y),
         NEW p, p = [l \in Layer |-> Cut(x[l], 65536)],
         NEW q, q = [l \in Layer |-> WrapLayer(p[l])]
  PROVE  q = y
<1>1. /\ y = [l \in Layer |-> y[l]]
      /\ \A l \in Layer : LayerComes(x[l], y[l])
  BY DEF LayersCome
<1>2. ASSUME NEW l \in Layer PROVE q[l] = y[l]
  <2>0. LayerComes(x[l], y[l])
    BY <1>1
  <2>1. PICK a \in Nat, b \in Nat : \E w, h, g :
           /\ a < 65536 /\ b < 65536
           /\ x[l] = LayerOf(a, b, w, h, g)
           /\ y[l] = LayerOf(a % 32768, b % 32768, w, h, g)
    BY <2>0 DEF LayerComes
  <2>2. PICK w, h, g :
           /\ a < 65536 /\ b < 65536
           /\ x[l] = LayerOf(a, b, w, h, g)
           /\ y[l] = LayerOf(a % 32768, b % 32768, w, h, g)
    BY <2>1
  <2>3. a % 65536 = a /\ b % 65536 = b
    BY <2>2
  <2>4. Cut(LayerOf(a, b, w, h, g), 65536) = LayerOf(a, b, w, h, g)
    BY <2>3, LayerCut
  <2>5. Cut(LayerOf(a, b, w, h, g), 32768) = LayerOf(a % 32768, b % 32768, w, h, g)
    BY LayerCut
  <2>6. p[l] = Cut(x[l], 65536) /\ q[l] = WrapLayer(p[l])
    OBVIOUS
  <2>7. WrapLayer(p[l]) = Cut(p[l], 32768)
    BY WrapIsCut
  <2> QED
    BY <2>2, <2>4, <2>5, <2>6, <2>7
<1>3. q = [l \in Layer |-> q[l]]
  OBVIOUS
<1>4. [l \in Layer |-> q[l]] = [l \in Layer |-> y[l]]
  BY <1>2
<1> QED
  BY <1>1, <1>3, <1>4

\* What wrapping does to each field.
LEMMA Wrapped ==
  ASSUME NEW t, DOMAIN t = FieldNames
  PROVE  \A k \in FieldNames :
           Wrap(t)[k] = IF k = "layers" THEN [l \in Layer |-> WrapLayer(t.layers[l])]
                        ELSE IF k \in Addresses THEN t[k] % 32768
                        ELSE t[k]
<1> DEFINE u == [l \in Layer |-> WrapLayer(t.layers[l])]
           v == t["vram_addr"] % 32768
           w == t["oam_base_addr"] % 32768
<1>1. Wrap(t) = [t EXCEPT !.vram_addr = v, !.oam_base_addr = w, !.layers = u]
  BY DEF Wrap
<1>2. ASSUME NEW k \in FieldNames
      PROVE  Wrap(t)[k] = IF k = "layers" THEN u
                          ELSE IF k = "vram_addr" THEN v
                          ELSE IF k = "oam_base_addr" THEN w
                          ELSE t[k]
  <2> HIDE DEF u, v, w
  <2> QED
    BY <1>1
<1> QED
  BY <1>2 DEF Addresses

\* What comes over is written.
LEMMA ComesOver ==
  ASSUME NEW c, NEW m, NEW f \in FieldNames, DOMAIN c = FieldNames, Comes(c, m, f)
  PROVE  Wrap(ToMesen(c))[f] = m[f]
<1> DEFINE t == ToMesen(c)
           p == [l \in Layer |-> Cut(c.layers[l], 65536)]
           u == [l \in Layer |-> WrapLayer(t.layers[l])]
<1>1. /\ DOMAIN t = FieldNames
      /\ \A k \in FieldNames : t[k] = IF k \in Numbers THEN c[k] % Limit(k)
                                      ELSE IF k = "layers" THEN p ELSE c[k]
  BY DEF ToMesen, Cut, Limit
<1>2. \A k \in FieldNames : Wrap(t)[k] = IF k = "layers" THEN u
                                       ELSE IF k \in Addresses THEN t[k] % 32768
                                       ELSE t[k]
  BY <1>1, Wrapped
<1>3. /\ f \notin Addresses /\ f # "layers" => Wrap(t)[f] = t[f]
      /\ f \in Addresses => Wrap(t)[f] = t[f] % 32768
      /\ f = "layers" => Wrap(t)[f] = u
  <2> HIDE DEF t, u
  <2> QED
    BY <1>1, <1>2, Apart
<1> SUFFICES Wrap(t)[f] = m[f]
  OBVIOUS
<1> HIDE DEF t, u, p
<1>4. CASE f \in Narrow
  <2>1. t[f] = c[f] % 256
    BY <1>1, <1>4, Masks
  <2>2. c[f] \in Nat /\ c[f] < 256 /\ c[f] = m[f]
    BY <1>4 DEF Comes
  <2> QED
    BY <1>3, <1>4, <2>1, <2>2, Apart
<1>5. CASE f \in Wide
  <2>1. t[f] = c[f] % 65536
    BY <1>1, <1>5, Masks
  <2>2. c[f] \in Nat /\ c[f] < 65536 /\ c[f] = m[f]
    BY <1>5 DEF Comes
  <2> QED
    BY <1>3, <1>5, <2>1, <2>2, Apart
<1>6. CASE f \in Addresses
  <2>1. t[f] = c[f] % 65536
    BY <1>1, <1>6, Masks
  <2>2. c[f] \in Nat /\ c[f] < 65536 /\ c[f] % 32768 = m[f]
    BY <1>6 DEF Comes
  <2> QED
    BY <1>3, <1>6, <2>1, <2>2
<1>7. CASE f \in Copied
  <2>1. t[f] = c[f]
    BY <1>1, <1>7, Masks
  <2> QED
    BY <1>3, <1>7, <2>1, Apart DEF Comes
<1>8. CASE f = "layers"
  <2>1. t.layers = p
    BY <1>1, <1>8, Masks
  <2>2. LayersCome(c.layers, m.layers)
    BY <1>8 DEF Comes
  <2>3. u = m.layers
    BY <2>1, <2>2, LayersWritten DEF p, u
  <2> QED
    BY <1>3, <1>8, <2>3
<1> QED
  BY <1>4, <1>5, <1>6, <1>7, <1>8 DEF FieldNames

-----------------------------------------------------------------------------
(* Bytes and their bits.                                                    *)

Byte(b) == b \in Nat /\ b < 256

\* Each register holds a byte.
LEMMA RegistersAreBytes ==
  ASSUME NEW r \in RegisterValues, NEW f \in RegisterNames
  PROVE  Byte(r[f])
  BY DEF RegisterValues, Byte

\* The powers that bits, nibbles and pairs of bits stand at.
LEMMA Powers ==
  /\ 2^0 = 1 /\ 2^1 = 2 /\ 2^2 = 4 /\ 2^3 = 8 /\ 2^4 = 16 /\ 2^5 = 32 /\ 2^6 = 64 /\ 2^7 = 128
  /\ 4^0 = 1 /\ 4^1 = 4 /\ 4^2 = 16 /\ 4^3 = 64 /\ 16^0 = 1 /\ 16^1 = 16
  OBVIOUS

\* The fields of a byte, by what is left and what is above.
LEMMA BitsOfByte ==
  ASSUME NEW b, Byte(b)
  PROVE  /\ Bit(b, 0) = (b % 2 = 1)
         /\ Bit(b, 1) = (b % 4 >= 2)
         /\ Bit(b, 6) = (b % 128 >= 64)
         /\ Bit(b, 7) = (b >= 128)
         /\ Bits(b, 0, 3) = b % 8 /\ Bits(b, 0, 4) = b % 16 /\ Bits(b, 0, 6) = b % 64
         /\ Bits(b, 4, 2) = (b % 64) \div 16 /\ Bits(b, 6, 2) = b \div 64
         /\ Bits(b, 5, 3) = b \div 32 /\ Bits(b, 4, 4) = b \div 16
<1>1. /\ Bit(b, 0) = ((b \div 1) % 2 = 1) /\ Bit(b, 1) = ((b \div 2) % 2 = 1)
      /\ Bit(b, 6) = ((b \div 64) % 2 = 1) /\ Bit(b, 7) = ((b \div 128) % 2 = 1)
  BY Powers DEF Bit
<1>2. /\ Bits(b, 0, 3) = (b \div 1) % 8 /\ Bits(b, 0, 4) = (b \div 1) % 16
      /\ Bits(b, 0, 6) = (b \div 1) % 64 /\ Bits(b, 4, 2) = (b \div 16) % 4
      /\ Bits(b, 6, 2) = (b \div 64) % 4 /\ Bits(b, 5, 3) = (b \div 32) % 8
      /\ Bits(b, 4, 4) = (b \div 16) % 16
  BY Powers DEF Bits
<1>3. b \in Nat /\ b < 256
  BY DEF Byte
<1>4. /\ (b \div 1) = b /\ ((b \div 2) % 2 = 1) = (b % 4 >= 2)
      /\ ((b \div 64) % 2 = 1) = (b % 128 >= 64) /\ ((b \div 128) % 2 = 1) = (b >= 128)
  BY <1>3
<1>5. /\ (b \div 16) % 4 = (b % 64) \div 16 /\ (b \div 64) % 4 = b \div 64
      /\ (b \div 32) % 8 = b \div 32 /\ (b \div 16) % 16 = b \div 16
  BY <1>3
<1> QED
  BY <1>1, <1>2, <1>4, <1>5

\* A bit that is kept as 0 or 1.
LEMMA FlagOfBit == \A b, i : (Flag(Bit(b, i)) # 0) = Bit(b, i)
  BY DEF Flag, Bit

\* The same, taken out of its byte.
LEMMA BitIsFlag ==
  ASSUME NEW b, Byte(b)
  PROVE  /\ (Bits(b, 1, 1) # 0) = Bit(b, 1) /\ (Bits(b, 3, 1) # 0) = Bit(b, 3)
         /\ (Bits(b, 4, 1) # 0) = Bit(b, 4) /\ (Bits(b, 5, 1) # 0) = Bit(b, 5)
         /\ (Bits(b, 6, 1) # 0) = Bit(b, 6)
<1>1. /\ Bits(b, 1, 1) = (b \div 2) % 2 /\ Bits(b, 3, 1) = (b \div 8) % 2
      /\ Bits(b, 4, 1) = (b \div 16) % 2 /\ Bits(b, 5, 1) = (b \div 32) % 2
      /\ Bits(b, 6, 1) = (b \div 64) % 2
  BY Powers DEF Bits
<1>2. /\ Bit(b, 1) = ((b \div 2) % 2 = 1) /\ Bit(b, 3) = ((b \div 8) % 2 = 1)
      /\ Bit(b, 4) = ((b \div 16) % 2 = 1) /\ Bit(b, 5) = ((b \div 32) % 2 = 1)
      /\ Bit(b, 6) = ((b \div 64) % 2 = 1)
  BY Powers DEF Bit
<1> QED
  BY <1>1, <1>2 DEF Byte

\* The sizes of a screen, from the two bits that are kept of it.
LEMMA SizeOfByte ==
  ASSUME NEW b, Byte(b)
  PROVE  /\ Bit(b % 4, 0) = (b % 2 = 1)
         /\ Bit(b % 4, 1) = (b % 4 >= 2)
<1>1. /\ Bit(b % 4, 0) = (((b % 4) \div 1) % 2 = 1)
      /\ Bit(b % 4, 1) = (((b % 4) \div 2) % 2 = 1)
  BY Powers DEF Bit
<1> QED
  BY <1>1 DEF Byte

\* Two bits a layer, and two for objects and colours in a register of their own.
LEMMA LogicOfMasked ==
  ASSUME NEW bg, NEW obj
  PROVE  MaskLogic(bg, obj) =
           [l \in Masked |-> IF l < 4 THEN (bg \div 4^l) % 4 ELSE (obj \div 4^(l - 4)) % 4]
<1>1. /\ 2^(0 * 2) = 4^0 /\ 2^(1 * 2) = 4^1 /\ 2^(2 * 2) = 4^2 /\ 2^(3 * 2) = 4^3
      /\ 2^((4 - 4) * 2) = 4^(4 - 4) /\ 2^((5 - 4) * 2) = 4^(5 - 4) /\ 2^2 = 4
  OBVIOUS
<1>2. ASSUME NEW l \in Masked
      PROVE  /\ l < 4 => 2^(l * 2) = 4^l
             /\ ~(l < 4) => 2^((l - 4) * 2) = 4^(l - 4)
  <2>1. l = 0 \/ l = 1 \/ l = 2 \/ l = 3 \/ l = 4 \/ l = 5
    BY DEF Masked
  <2>2. /\ l = 0 => 2^(l * 2) = 4^l
        /\ l = 1 => 2^(l * 2) = 4^l
        /\ l = 2 => 2^(l * 2) = 4^l
        /\ l = 3 => 2^(l * 2) = 4^l
        /\ l = 4 => 2^((l - 4) * 2) = 4^(l - 4)
        /\ l = 5 => 2^((l - 4) * 2) = 4^(l - 4)
    BY <1>1, Zenon
  <2> QED
    BY <2>1, <2>2
<1>3. ASSUME NEW l \in Masked
      PROVE  (IF l < 4 THEN Bits(bg, l * 2, 2) ELSE Bits(obj, (l - 4) * 2, 2))
               = (IF l < 4 THEN (bg \div 4^l) % 4 ELSE (obj \div 4^(l - 4)) % 4)
  BY <1>1, <1>2 DEF Bits
<1> QED
  BY <1>3 DEF MaskLogic

\* A nibble of the window registers says the same as the byte moved down to it.
LEMMA BitsOfNibble ==
  ASSUME NEW b, Byte(b), NEW w \in 0..1
  PROVE  /\ Bit(b \div 16^0, w * 2) = Bit(b % 16, 2 * w)
         /\ Bit(b \div 16^0, w * 2 + 1) = Bit(b % 16, 2 * w + 1)
         /\ Bit(b \div 16^1, w * 2) = Bit(b \div 16, 2 * w)
         /\ Bit(b \div 16^1, w * 2 + 1) = Bit(b \div 16, 2 * w + 1)
<1>1. b \in Nat /\ b < 256 /\ b \div 16^0 = b /\ b \div 16^1 = b \div 16
  BY Powers DEF Byte
<1>2. w = 0 \/ w = 1
  OBVIOUS
<1>3. ASSUME NEW x \in Nat
      PROVE  /\ Bit(x, 0) = (x % 2 = 1) /\ Bit(x, 1) = ((x \div 2) % 2 = 1)
             /\ Bit(x, 2) = ((x \div 4) % 2 = 1) /\ Bit(x, 3) = ((x \div 8) % 2 = 1)
  BY Powers DEF Bit
<1>4. /\ b % 2 = (b % 16) % 2 /\ (b \div 2) % 2 = ((b % 16) \div 2) % 2
      /\ (b \div 4) % 2 = ((b % 16) \div 4) % 2 /\ (b \div 8) % 2 = ((b % 16) \div 8) % 2
      /\ b % 16 \in Nat /\ b \div 16 \in Nat
  BY <1>1
<1>5. /\ Bit(b, 0) = Bit(b % 16, 0) /\ Bit(b, 1) = Bit(b % 16, 1)
      /\ Bit(b, 2) = Bit(b % 16, 2) /\ Bit(b, 3) = Bit(b % 16, 3)
  BY <1>1, <1>3, <1>4
<1> QED
  BY <1>1, <1>2, <1>5

\* What masks what, as the converters read it off the three registers.
LEMMA WindowsOfRegisters ==
  ASSUME NEW r \in RegisterValues
  PROVE  WindowsOf(r.w12sel, r.w34sel, r.wobjsel) =
           [w \in 0..1 |->
              [active   |-> [l \in Masked |-> Bit(WindowNibble(r, l), 2 * w + 1)],
               inverted |-> [l \in Masked |-> Bit(WindowNibble(r, l), 2 * w)]]]
<1> DEFINE b == [l \in Masked |-> (IF l < 2 THEN r.w12sel ELSE IF l < 4 THEN r.w34sel
                                   ELSE r.wobjsel) \div 16^(l % 2)]
<1>1. Byte(r.w12sel) /\ Byte(r.w34sel) /\ Byte(r.wobjsel)
  BY RegistersAreBytes DEF RegisterNames
<1>2. ASSUME NEW w \in 0..1, NEW l \in Masked
      PROVE  /\ Bit(b[l], w * 2) = Bit(WindowNibble(r, l), 2 * w)
             /\ Bit(b[l], w * 2 + 1) = Bit(WindowNibble(r, l), 2 * w + 1)
  <2>1. l = 0 \/ l = 1 \/ l = 2 \/ l = 3 \/ l = 4 \/ l = 5
    BY DEF Masked
  <2>2. /\ b[0] = r.w12sel \div 16^0 /\ b[1] = r.w12sel \div 16^1
        /\ b[2] = r.w34sel \div 16^0 /\ b[3] = r.w34sel \div 16^1
        /\ b[4] = r.wobjsel \div 16^0 /\ b[5] = r.wobjsel \div 16^1
    BY DEF Masked
  <2>3. /\ WindowNibble(r, 0) = r.w12sel % 16 /\ WindowNibble(r, 1) = r.w12sel \div 16
        /\ WindowNibble(r, 2) = r.w34sel % 16 /\ WindowNibble(r, 3) = r.w34sel \div 16
        /\ WindowNibble(r, 4) = r.wobjsel % 16 /\ WindowNibble(r, 5) = r.wobjsel \div 16
    BY DEF WindowNibble
  <2> HIDE DEF b
  <2> QED
    BY <1>1, <2>1, <2>2, <2>3, BitsOfNibble
<1>3. WindowsOf(r.w12sel, r.w34sel, r.wobjsel) =
        [w \in 0..1 |-> [active   |-> [l \in Masked |-> Bit(b[l], w * 2 + 1)],
                         inverted |-> [l \in Masked |-> Bit(b[l], w * 2)]]]
  BY DEF WindowsOf
<1> HIDE DEF b
<1>4. ASSUME NEW w \in 0..1
      PROVE  /\ [l \in Masked |-> Bit(b[l], w * 2)]
                  = [l \in Masked |-> Bit(WindowNibble(r, l), 2 * w)]
             /\ [l \in Masked |-> Bit(b[l], w * 2 + 1)]
                  = [l \in Masked |-> Bit(WindowNibble(r, l), 2 * w + 1)]
  BY <1>2
<1>5. ASSUME NEW w \in 0..1
      PROVE  [active   |-> [l \in Masked |-> Bit(b[l], w * 2 + 1)],
              inverted |-> [l \in Masked |-> Bit(b[l], w * 2)]]
             = [active   |-> [l \in Masked |-> Bit(WindowNibble(r, l), 2 * w + 1)],
                inverted |-> [l \in Masked |-> Bit(WindowNibble(r, l), 2 * w)]]
  BY <1>4
<1> QED
  BY <1>3, <1>5

\* The same of the other window registers.
LEMMA MeaningOfWindows ==
  ASSUME NEW r \in RegisterValues, NEW m, m = Meaning(r)
  PROVE  /\ m.mask_logic = MaskLogic(r.wbglog, r.wobjlog)
         /\ m.window_mask_main = WindowMask(r.tmw) /\ m.window_mask_sub = WindowMask(r.tsw)
         /\ m.windows = WindowsOf(r.w12sel, r.w34sel, r.wobjsel)
<1>1. /\ m.mask_logic = [l \in Masked |-> IF l < 4 THEN (r.wbglog \div 4^l) % 4
                                          ELSE (r.wobjlog \div 4^(l - 4)) % 4]
      /\ m.window_mask_main = [l \in 0..4 |-> Bit(r.tmw, l)]
      /\ m.window_mask_sub = [l \in 0..4 |-> Bit(r.tsw, l)]
  BY DEF Meaning
<1>2. m.windows = [w \in 0..1 |->
                    [active   |-> [l \in Masked |-> Bit(WindowNibble(r, l), 2 * w + 1)],
                     inverted |-> [l \in Masked |-> Bit(WindowNibble(r, l), 2 * w)]]]
  BY DEF Meaning
<1>3. MaskLogic(r.wbglog, r.wobjlog)
        = [l \in Masked |-> IF l < 4 THEN (r.wbglog \div 4^l) % 4
                            ELSE (r.wobjlog \div 4^(l - 4)) % 4]
  BY LogicOfMasked
<1>4. m.windows = WindowsOf(r.w12sel, r.w34sel, r.wobjsel)
  BY <1>2, WindowsOfRegisters
<1> QED
  BY <1>1, <1>3, <1>4 DEF WindowMask

-----------------------------------------------------------------------------
(* The layers.                                                              *)

\* Bases and nibbles are in range.
LEMMA LayerNumbers ==
  ASSUME NEW r \in RegisterValues, NEW l \in Layer
  PROVE  Byte(ScreenBase(r, l)) /\ NameNibble(r, l) \in Nat /\ NameNibble(r, l) < 16
<1>1. /\ Byte(r.bg1sc) /\ Byte(r.bg4sc) /\ Byte(r.bg12nba) /\ Byte(r.bg34nba)
  BY RegistersAreBytes DEF RegisterNames
<1>2. Byte(ScreenBase(r, l))
  <2>1. Byte(0)
    BY DEF Byte
  <2>2. ScreenBase(r, l) = IF l = 0 THEN r.bg1sc ELSE IF l = 3 THEN r.bg4sc ELSE 0
    BY DEF ScreenBase
  <2> QED
    BY <1>1, <2>1, <2>2
<1>3. ASSUME NEW b, Byte(b)
      PROVE  /\ Bits(b, 0 * 4, 4) \in Nat /\ Bits(b, 0 * 4, 4) < 16
             /\ Bits(b, 1 * 4, 4) \in Nat /\ Bits(b, 1 * 4, 4) < 16
  <2>1. Bits(b, 0 * 4, 4) = (b \div 1) % 16 /\ Bits(b, 1 * 4, 4) = (b \div 16) % 16
    BY Powers DEF Bits
  <2> QED
    BY <1>3, <2>1 DEF Byte
<1>4. /\ NameNibble(r, 0) = Bits(r.bg12nba, 0 * 4, 4)
      /\ NameNibble(r, 1) = Bits(r.bg12nba, 1 * 4, 4)
      /\ NameNibble(r, 2) = Bits(r.bg34nba, (2 - 2) * 4, 4)
      /\ NameNibble(r, 3) = Bits(r.bg34nba, (3 - 2) * 4, 4)
      /\ 2 - 2 = 0 /\ 3 - 2 = 1
  BY DEF NameNibble
<1>5. l = 0 \/ l = 1 \/ l = 2 \/ l = 3
  BY DEF Layer
<1> QED
  BY <1>1, <1>2, <1>3, <1>4, <1>5

\* Words and their wrapping: masked before they are shifted, or after.
LEMMA LayerAddresses ==
  ASSUME NEW s, Byte(s), NEW n \in Nat, n < 16
  PROVE  /\ ((s \div 4) % 32) * 1024 \in Nat /\ ((s \div 4) % 32) * 1024 < 65536
         /\ (((s \div 4) % 32) * 1024) % 32768 = ((s \div 4) * 1024) % 32768
         /\ (n % 8) * 4096 \in Nat /\ (n % 8) * 4096 < 65536
         /\ ((n % 8) * 4096) % 32768 = (n * 4096) % 32768
<1>1. s \in Nat /\ s < 256
  BY DEF Byte
<1>2. s \div 4 \in Nat /\ s \div 4 < 64
  BY <1>1
<1>3. ASSUME NEW q \in Nat, q < 64
      PROVE  /\ (q % 32) * 1024 \in Nat /\ (q % 32) * 1024 < 65536
             /\ ((q % 32) * 1024) % 32768 = (q * 1024) % 32768
  BY <1>3
<1> QED
  BY <1>2, <1>3

\* The layers, as both converters read them.
LayersOf(r) ==
  [l \in Layer |->
     LayerOf(((ScreenBase(r, l) \div 4) % 32) * 1024, (NameNibble(r, l) % 8) * 4096,
             ScreenBase(r, l) % 2 = 1, ScreenBase(r, l) % 4 >= 2, Bit(r.bgmode, 4 + l))]

\* What both read of the layers comes over.
LEMMA LayersOfRegisters ==
  ASSUME NEW r \in RegisterValues, NEW m, m = Meaning(r)
  PROVE  LayersCome(LayersOf(r), m.layers)
<1>1. m.layers =
        [l \in Layer |->
           LayerOf(((ScreenBase(r, l) \div 4) * 1024) % 32768,
                   (NameNibble(r, l) * 4096) % 32768, ScreenBase(r, l) % 2 = 1,
                   ScreenBase(r, l) % 4 >= 2, Bit(r.bgmode, 4 + l))]
  BY DEF Meaning, LayerOf
<1>2. ASSUME NEW l \in Layer
      PROVE  LayerComes(LayersOf(r)[l], m.layers[l])
  <2> DEFINE a == ((ScreenBase(r, l) \div 4) % 32) * 1024
             b == (NameNibble(r, l) % 8) * 4096
             d == ((ScreenBase(r, l) \div 4) * 1024) % 32768
             e == (NameNibble(r, l) * 4096) % 32768
             w == ScreenBase(r, l) % 2 = 1
             h == ScreenBase(r, l) % 4 >= 2
             g == Bit(r.bgmode, 4 + l)
  <2>1. a \in Nat /\ b \in Nat /\ a < 65536 /\ b < 65536 /\ d = a % 32768 /\ e = b % 32768
    BY LayerNumbers, LayerAddresses
  <2>2. LayersOf(r)[l] = LayerOf(a, b, w, h, g) /\ m.layers[l] = LayerOf(d, e, w, h, g)
    BY <1>1 DEF LayersOf
  <2> HIDE DEF a, b, d, e, w, h, g
  <2>3. m.layers[l] = LayerOf(a % 32768, b % 32768, w, h, g)
    BY <2>1, <2>2
  <2> QED
    BY <2>1, <2>2, <2>3 DEF LayerComes
<1>3. m.layers = [l \in Layer |-> m.layers[l]]
  BY <1>1
<1> QED
  BY <1>2, <1>3 DEF LayersCome

-----------------------------------------------------------------------------
(* The numbers.                                                             *)

\* What the registers mean fits where the canonical state and the writer keep it.
LEMMA NumbersFit ==
  ASSUME NEW r \in RegisterValues, NEW m, m = Meaning(r)
  PROVE  /\ m.vram_increment \in {1, 32, 128} /\ m.vram_remap \in 0..3
         /\ m.mosaic_size \in 1..16
         /\ m.fixed_color \in Nat /\ m.fixed_color < 32768
         /\ \A f \in Narrow : m[f] \in Nat /\ m[f] < 256
         /\ \A f \in Wide : m[f] \in Nat /\ m[f] < 65536
<1>1. /\ Byte(r.inidisp) /\ Byte(r.obsel) /\ Byte(r.bgmode) /\ Byte(r.mosaic)
      /\ Byte(r.vmain) /\ Byte(r.tm) /\ Byte(r.ts) /\ Byte(r.cgadsub) /\ Byte(r.red)
      /\ Byte(r.green) /\ Byte(r.blue) /\ Byte(r.dmap)
  BY RegistersAreBytes DEF RegisterNames
<1>2. /\ m.brightness = r.inidisp % 16 /\ m.bg_mode = r.bgmode % 8
      /\ m.main_screen_layers = r.tm /\ m.sub_screen_layers = r.ts
      /\ m.vram_increment = Increment[r.vmain % 4] /\ m.vram_remap = Bits(r.vmain, 2, 2)
      /\ m.oam_mode = r.obsel \div 32 /\ m.mosaic_size = r.mosaic \div 16 + 1
      /\ m.mosaic_enabled = r.mosaic % 16 /\ m.color_math_enabled = r.cgadsub % 64
      /\ m.transfer_mode = r.dmap % 8
      /\ m.oam_addr_offset = (Bits(r.obsel, 3, 2) + 1) * 4096
      /\ m.fixed_color = (r.red % 32) + 32 * (r.green % 32) + 1024 * (r.blue % 32)
  BY DEF Meaning
<1>3. ASSUME NEW b, Byte(b)
      PROVE  /\ Bits(b, 2, 2) \in 0..3 /\ Bits(b, 3, 2) \in 0..3
             /\ b \div 16 + 1 \in 1..16
             /\ b \in Nat /\ b < 256 /\ b % 8 < 8 /\ b % 8 \in Nat
             /\ b % 16 < 16 /\ b % 16 \in Nat /\ b % 64 < 64 /\ b % 64 \in Nat
             /\ b % 32 < 32 /\ b % 32 \in Nat /\ b \div 32 < 8 /\ b \div 32 \in Nat
             /\ b % 4 \in 0..3
  <2>1. /\ Bits(b, 2, 2) = (b \div 4) % 4 /\ Bits(b, 3, 2) = (b \div 8) % 4
    BY Powers DEF Bits
  <2> QED
    BY <1>3, <2>1 DEF Byte
<1>4. \A n \in 0..3 : Increment[n] \in {1, 32, 128}
  BY DEF Increment
<1>5. /\ m.vram_increment \in {1, 32, 128} /\ m.vram_remap \in 0..3
      /\ m.mosaic_size \in 1..16
  BY <1>1, <1>2, <1>3, <1>4
<1>6. m.fixed_color \in Nat /\ m.fixed_color < 32768
  BY <1>1, <1>2, <1>3
<1>7. m.oam_addr_offset \in Nat /\ m.oam_addr_offset < 65536
  <2>1. Bits(r.obsel, 3, 2) \in 0..3
    BY <1>1, <1>3
  <2> QED
    BY <1>2, <2>1
<1>8. /\ m.brightness \in Nat /\ m.brightness < 256 /\ m.bg_mode \in Nat /\ m.bg_mode < 256
      /\ m.main_screen_layers \in Nat /\ m.main_screen_layers < 256
      /\ m.sub_screen_layers \in Nat /\ m.sub_screen_layers < 256
      /\ m.oam_mode \in Nat /\ m.oam_mode < 256
      /\ m.mosaic_enabled \in Nat /\ m.mosaic_enabled < 256
      /\ m.color_math_enabled \in Nat /\ m.color_math_enabled < 256
      /\ m.transfer_mode \in Nat /\ m.transfer_mode < 256
  <2>1. /\ r.inidisp % 16 \in Nat /\ r.inidisp % 16 < 256
        /\ r.bgmode % 8 \in Nat /\ r.bgmode % 8 < 256
        /\ r.tm \in Nat /\ r.tm < 256 /\ r.ts \in Nat /\ r.ts < 256
        /\ r.obsel \div 32 \in Nat /\ r.obsel \div 32 < 256
        /\ r.mosaic % 16 \in Nat /\ r.mosaic % 16 < 256
        /\ r.cgadsub % 64 \in Nat /\ r.cgadsub % 64 < 256
        /\ r.dmap % 8 \in Nat /\ r.dmap % 8 < 256
    BY <1>1 DEF Byte
  <2> QED
    BY <1>2, <2>1
<1>9. \A f \in Narrow : m[f] \in Nat /\ m[f] < 256
  <2>1. /\ m.vram_increment \in Nat /\ m.vram_increment < 256
        /\ m.vram_remap \in Nat /\ m.vram_remap < 256
        /\ m.mosaic_size \in Nat /\ m.mosaic_size < 256
    BY <1>5
  <2> QED
    BY <1>8, <2>1 DEF Narrow
<1>10. \A f \in Wide : m[f] \in Nat /\ m[f] < 65536
  BY <1>6, <1>7 DEF Wide
<1> QED
  BY <1>5, <1>6, <1>9, <1>10

-----------------------------------------------------------------------------
(* What the converters make of the registers.                               *)

\* Of a Snes9x save everything comes over but how Mode 7 is filled.
LEMMA Snes9xComesOver ==
  ASSUME NEW r \in RegisterValues,
         NEW s, s = Snes9xRegisters(r), NEW c, c = FromSnes9x(s), NEW m, m = Meaning(r)
  PROVE  \A f \in FieldNames \ {"fill_with_tile0"} : Comes(c, m, f)
<1>1. /\ Byte(r.inidisp) /\ Byte(r.obsel) /\ Byte(r.bgmode) /\ Byte(r.mosaic)
      /\ Byte(r.vmain) /\ Byte(r.vmaddh) /\ Byte(r.m7sel) /\ Byte(r.tm) /\ Byte(r.ts)
      /\ Byte(r.cgwsel) /\ Byte(r.cgadsub) /\ Byte(r.red) /\ Byte(r.green)
      /\ Byte(r.blue) /\ Byte(r.setini) /\ Byte(r.nmitimen) /\ Byte(r.dmap)
  BY RegistersAreBytes DEF RegisterNames
<1>2. /\ c.forced_blank = m.forced_blank /\ c.mode1_bg3_priority = m.mode1_bg3_priority
      /\ c.vram_incr_on_high = m.vram_incr_on_high
  <2>1. /\ c.forced_blank = (Flag(r.inidisp >= 128) # 0)
        /\ m.forced_blank = (r.inidisp >= 128)
        /\ c.mode1_bg3_priority = (Flag(Bit(r.bgmode, 3)) # 0)
        /\ m.mode1_bg3_priority = Bit(r.bgmode, 3)
        /\ c.vram_incr_on_high = (Flag(r.vmain >= 128) # 0)
        /\ m.vram_incr_on_high = (r.vmain >= 128)
    BY DEF FromSnes9x, Snes9xRegisters, Meaning
  <2>2. /\ (Flag(r.inidisp >= 128) # 0) = (r.inidisp >= 128)
        /\ (Flag(r.vmain >= 128) # 0) = (r.vmain >= 128)
        /\ (Flag(Bit(r.bgmode, 3)) # 0) = Bit(r.bgmode, 3)
    BY SMTT(30) DEF Flag, Bit
  <2> QED
    BY <2>1, <2>2
<1>3. /\ c.hi_res = m.hi_res /\ c.screen_interlace = m.screen_interlace
      /\ c.obj_interlace = m.obj_interlace /\ c.overscan = m.overscan
      /\ c.ext_bg = m.ext_bg /\ c.enable_auto_joypad = m.enable_auto_joypad
  BY SMTT(30) DEF FromSnes9x, Snes9xRegisters, Meaning
<1>4. /\ c.direct_color = m.direct_color /\ c.color_add_subscreen = m.color_add_subscreen
      /\ c.color_prevent_mode = m.color_prevent_mode
      /\ c.color_clip_mode = m.color_clip_mode
      /\ c.color_halve = m.color_halve /\ c.color_subtract = m.color_subtract
      /\ c.enable_nmi = m.enable_nmi
  BY <1>1, BitsOfByte DEF FromSnes9x, Snes9xRegisters, Meaning
<1>5. /\ c.enable_h_irq = m.enable_h_irq /\ c.enable_v_irq = m.enable_v_irq
      /\ c.fixed_transfer = m.fixed_transfer /\ c.decrement = m.decrement
      /\ c.unused_flag = m.unused_flag /\ c.hdma_indirect = m.hdma_indirect
      /\ c.v_mirror = m.v_mirror
  <2>1. /\ c.enable_h_irq = (Bits(r.nmitimen, 4, 1) # 0)
        /\ c.enable_v_irq = (Bits(r.nmitimen, 5, 1) # 0)
        /\ c.fixed_transfer = (Bits(r.dmap, 3, 1) # 0)
        /\ c.decrement = (Bits(r.dmap, 4, 1) # 0)
        /\ c.unused_flag = (Bits(r.dmap, 5, 1) # 0)
        /\ c.hdma_indirect = (Bits(r.dmap, 6, 1) # 0)
        /\ c.v_mirror = (Bits(r.m7sel, 1, 1) # 0)
    BY DEF FromSnes9x, Snes9xRegisters
  <2>2. /\ m.enable_h_irq = Bit(r.nmitimen, 4) /\ m.enable_v_irq = Bit(r.nmitimen, 5)
        /\ m.fixed_transfer = Bit(r.dmap, 3) /\ m.decrement = Bit(r.dmap, 4)
        /\ m.unused_flag = Bit(r.dmap, 5) /\ m.hdma_indirect = Bit(r.dmap, 6)
        /\ m.v_mirror = Bit(r.m7sel, 1)
    BY DEF Meaning
  <2> QED
    BY <1>1, <2>1, <2>2, BitIsFlag
<1>6. /\ c.h_mirror = m.h_mirror /\ c.large_map = m.large_map
      /\ c.invert_direction = m.invert_direction
  <2>1. /\ c.h_mirror = (r.m7sel % 2 # 0) /\ c.invert_direction = (r.dmap \div 128 # 0)
        /\ c.large_map = ((LET n == r.m7sel \div 64 IN IF n = 1 THEN 0 ELSE n) >= 2)
    BY DEF FromSnes9x, Snes9xRegisters
  <2>2. /\ m.h_mirror = (r.m7sel % 2 = 1) /\ m.invert_direction = (r.dmap >= 128)
        /\ m.large_map = (r.m7sel >= 128)
    BY <1>1, BitsOfByte DEF Meaning
  <2>3. ASSUME NEW b, Byte(b)
        PROVE  /\ (b % 2 # 0) = (b % 2 = 1) /\ (b \div 128 # 0) = (b >= 128)
               /\ ((LET n == b \div 64 IN IF n = 1 THEN 0 ELSE n) >= 2) = (b >= 128)
    BY <2>3 DEF Byte
  <2>4. /\ (r.m7sel % 2 # 0) = (r.m7sel % 2 = 1) /\ (r.dmap \div 128 # 0) = (r.dmap >= 128)
        /\ ((LET n == r.m7sel \div 64 IN IF n = 1 THEN 0 ELSE n) >= 2) = (r.m7sel >= 128)
    BY <1>1, <2>3
  <2> QED
    BY <2>1, <2>2, <2>4
<1>7. /\ c.mask_logic = m.mask_logic /\ c.window_mask_main = m.window_mask_main
      /\ c.window_mask_sub = m.window_mask_sub /\ c.windows = m.windows
    <2>1. /\ c.mask_logic = MaskLogic(r.wbglog, r.wobjlog)
        /\ c.window_mask_main = WindowMask(r.tmw) /\ c.window_mask_sub = WindowMask(r.tsw)
        /\ c.windows = WindowsOf(r.w12sel, r.w34sel, r.wobjsel)
    BY DEF FromSnes9x, Snes9xRegisters
  <2> QED
    BY <2>1, MeaningOfWindows
<1>8. ASSUME NEW f \in Narrow PROVE c[f] = m[f]
  <2>1. /\ c.brightness = m.brightness /\ c.bg_mode = m.bg_mode
        /\ c.main_screen_layers = m.main_screen_layers
        /\ c.sub_screen_layers = m.sub_screen_layers
        /\ c.vram_increment = m.vram_increment /\ c.transfer_mode = m.transfer_mode
    BY SMTT(30) DEF FromSnes9x, Snes9xRegisters, Meaning
  <2>2. /\ c.oam_mode = m.oam_mode /\ c.mosaic_size = m.mosaic_size
        /\ c.mosaic_enabled = m.mosaic_enabled
        /\ c.color_math_enabled = m.color_math_enabled
    BY <1>1, BitsOfByte DEF FromSnes9x, Snes9xRegisters, Meaning
  <2>3. c.vram_remap = m.vram_remap
    <3>1. /\ c.vram_remap = ShiftToMode(LET n == Bits(r.vmain, 2, 2)
                                        IN  IF n = 0 THEN 0 ELSE n + 4)
          /\ m.vram_remap = Bits(r.vmain, 2, 2)
      BY DEF FromSnes9x, Snes9xRegisters, Meaning
    <3>2. m.vram_remap \in 0..3
      BY NumbersFit
    <3> QED
      BY <3>1, <3>2 DEF ShiftToMode
  <2> QED
    BY <2>1, <2>2, <2>3, SMTT(30) DEF Narrow
<1>9. ASSUME NEW f \in Wide PROVE c[f] = m[f]
  <2>1. /\ c.oam_addr_offset = (Bits(r.obsel, 3, 2) + 1) * 4096
        /\ m.oam_addr_offset = (Bits(r.obsel, 3, 2) + 1) * 4096
        /\ c.fixed_color = Colour(r.red % 32, r.green % 32, r.blue % 32)
        /\ m.fixed_color = (r.red % 32) + 32 * (r.green % 32) + 1024 * (r.blue % 32)
    BY DEF FromSnes9x, Snes9xRegisters, Meaning
  <2>2. c.fixed_color = m.fixed_color
    BY <1>1, <2>1 DEF Colour, Byte
  <2> QED
    BY <2>1, <2>2 DEF Wide
<1>10. ASSUME NEW f \in Addresses
       PROVE  c[f] \in Nat /\ c[f] < 65536 /\ c[f] % 32768 = m[f]
  <2>1. /\ c.vram_addr = r.vmaddh * 256 /\ m.vram_addr = (r.vmaddh * 256) % 32768
        /\ m.oam_base_addr = ((r.obsel % 8) * 8192) % 32768
    BY DEF FromSnes9x, Snes9xRegisters, Meaning
  <2>2. c.oam_base_addr = (r.obsel % 8) * 8192
    BY <1>1, BitsOfByte DEF FromSnes9x, Snes9xRegisters
  <2>3. /\ r.vmaddh * 256 \in Nat /\ r.vmaddh * 256 < 65536
        /\ (r.obsel % 8) * 8192 \in Nat /\ (r.obsel % 8) * 8192 < 65536
    BY <1>1 DEF Byte
  <2> QED
    BY <2>1, <2>2, <2>3 DEF Addresses
<1>11. LayersCome(c.layers, m.layers)
  <2>1. c.layers =
          [l \in Layer |->
             LayerOf(((ScreenBase(r, l) \div 4) % 32) * 1024, (NameNibble(r, l) % 8) * 4096,
                     Bit(ScreenBase(r, l) % 4, 0), Bit(ScreenBase(r, l) % 4, 1),
                     Flag(Bit(r.bgmode, 4 + l)) # 0)]
    BY DEF FromSnes9x, Snes9xRegisters, LayerOf
  <2>2. ASSUME NEW l \in Layer
        PROVE  /\ Bit(ScreenBase(r, l) % 4, 0) = (ScreenBase(r, l) % 2 = 1)
               /\ Bit(ScreenBase(r, l) % 4, 1) = (ScreenBase(r, l) % 4 >= 2)
               /\ (Flag(Bit(r.bgmode, 4 + l)) # 0) = Bit(r.bgmode, 4 + l)
    BY LayerNumbers, SizeOfByte, FlagOfBit
  <2>3. c.layers = LayersOf(r)
    BY <2>1, <2>2 DEF LayersOf
  <2> QED
    BY <2>3, LayersOfRegisters
<1>12. ASSUME NEW f \in Copied \ {"fill_with_tile0"} PROVE c[f] = m[f]
  BY <1>2, <1>3, <1>4, <1>5, <1>6, <1>7 DEF Copied
<1> QED
  BY <1>8, <1>9, <1>10, <1>11, <1>12, NumbersFit, Apart DEF Comes

\* Two bytes of a word.
LEMMA BytesOfWord ==
  ASSUME NEW a, NEW b, Byte(a), Byte(b)
  PROVE  (a + 256 * b) % 256 = a /\ ((a + 256 * b) \div 256) % 256 = b
  BY DEF Byte

\* The nibbles of a window register give the register back.
LEMMA NibblesOfByte ==
  ASSUME NEW b, Byte(b)
  PROVE  WindowRegister(b % 16, b \div 16) = b
  BY DEF WindowRegister, Byte

\* Doubled to a byte address and halved again.
LEMMA WordOfBytes ==
  ASSUME NEW a \in Nat, a < 32768
  PROVE  WordAddress(a * 2) = a
  BY DEF WordAddress

\* The sizes of objects tell six of the modes.
LEMMA ModeOfSizes ==
  ASSUME NEW n \in 0..5
  PROVE  ObjectMode(ObjectTiles[n + 1]) = n
<1> DEFINE table == <<<<1, 4>>, <<1, 16>>, <<1, 64>>, <<4, 16>>, <<4, 64>>, <<16, 64>>>>
           k == {m \in 1..6 : table[m] = ObjectTiles[n + 1]}
<1>1. ObjectMode(ObjectTiles[n + 1]) = IF k = {} THEN 0 ELSE (CHOOSE m \in k : TRUE) - 1
  BY DEF ObjectMode
<1>2. \A i, j \in 1..6 : table[i] = ObjectTiles[j] => i = j
  BY DEF ObjectTiles
<1>3. \A i \in 1..6 : table[i] = ObjectTiles[i]
  BY DEF ObjectTiles
<1> HIDE DEF table
<1>4. n + 1 \in 1..6
  OBVIOUS
<1>5. k = {n + 1}
  BY <1>2, <1>3, <1>4
<1> HIDE DEF k
<1>6. (CHOOSE m \in k : TRUE) = n + 1
  BY <1>5
<1>7. ObjectMode(ObjectTiles[n + 1]) = (n + 1) - 1
  BY <1>1, <1>5, <1>6
<1> QED
  BY <1>7

\* Large tiles: the upper nibble of the mode, moved down.
LEMMA TilesOfNibble ==
  ASSUME NEW b, Byte(b), NEW l \in Layer
  PROVE  Bit(b \div 16, l) = Bit(b, 4 + l)
<1>1. /\ Bit(b \div 16, 0) = (((b \div 16) \div 1) % 2 = 1)
      /\ Bit(b \div 16, 1) = (((b \div 16) \div 2) % 2 = 1)
      /\ Bit(b \div 16, 2) = (((b \div 16) \div 4) % 2 = 1)
      /\ Bit(b \div 16, 3) = (((b \div 16) \div 8) % 2 = 1)
  BY Powers DEF Bit
<1>2. /\ Bit(b, 4 + 0) = ((b \div 16) % 2 = 1) /\ Bit(b, 4 + 1) = ((b \div 32) % 2 = 1)
      /\ Bit(b, 4 + 2) = ((b \div 64) % 2 = 1) /\ Bit(b, 4 + 3) = ((b \div 128) % 2 = 1)
  BY Powers DEF Bit
<1>3. b \in Nat
  BY DEF Byte
<1>4. /\ (b \div 16) \div 1 = b \div 16 /\ (b \div 16) \div 2 = b \div 32
      /\ (b \div 16) \div 4 = b \div 64 /\ (b \div 16) \div 8 = b \div 128
  BY <1>3
<1>5. l = 0 \/ l = 1 \/ l = 2 \/ l = 3
  BY DEF Layer
<1>6. /\ Bit(b \div 16, 0) = Bit(b, 4 + 0) /\ Bit(b \div 16, 1) = Bit(b, 4 + 1)
      /\ Bit(b \div 16, 2) = Bit(b, 4 + 2) /\ Bit(b \div 16, 3) = Bit(b, 4 + 3)
  BY <1>1, <1>2, <1>4
<1> QED
  BY <1>5, <1>6

\* What ZSNES has no field for.
LostByZsnes(r) ==
  {"fill_with_tile0", "hi_res", "obj_interlace", "ext_bg"}
    \cup IF r.obsel >= 192 THEN {"oam_mode"} ELSE {}

\* Of a ZSNES save everything that it has a field for comes over.
LEMMA ZsnesComesOver ==
  ASSUME NEW r \in RegisterValues,
         NEW z, z = ZsnesRegisters(r), NEW c, c = FromZsnes(z), NEW m, m = Meaning(r)
  PROVE  \A f \in FieldNames \ LostByZsnes(r) : Comes(c, m, f)
<1>1. /\ Byte(r.inidisp) /\ Byte(r.obsel) /\ Byte(r.bgmode) /\ Byte(r.mosaic)
      /\ Byte(r.vmain) /\ Byte(r.vmaddh) /\ Byte(r.m7sel) /\ Byte(r.tm) /\ Byte(r.ts)
      /\ Byte(r.cgwsel) /\ Byte(r.cgadsub) /\ Byte(r.red) /\ Byte(r.green)
      /\ Byte(r.blue) /\ Byte(r.setini) /\ Byte(r.nmitimen) /\ Byte(r.dmap)
      /\ Byte(r.w12sel) /\ Byte(r.w34sel) /\ Byte(r.wobjsel)
  BY RegistersAreBytes DEF RegisterNames
<1>2. /\ c.forced_blank = m.forced_blank /\ c.mode1_bg3_priority = m.mode1_bg3_priority
  <2>1. /\ c.forced_blank = (Flag(r.inidisp >= 128) # 0)
        /\ m.forced_blank = (r.inidisp >= 128)
        /\ c.mode1_bg3_priority = (Flag(Bit(r.bgmode, 3)) # 0)
        /\ m.mode1_bg3_priority = Bit(r.bgmode, 3)
    BY DEF FromZsnes, ZsnesRegisters, Meaning
  <2>2. (Flag(r.inidisp >= 128) # 0) = (r.inidisp >= 128)
    BY DEF Flag
  <2> QED
    BY <2>1, <2>2, FlagOfBit, SMTT(30)
<1>3. /\ c.enable_h_irq = m.enable_h_irq /\ c.enable_v_irq = m.enable_v_irq
      /\ c.enable_auto_joypad = m.enable_auto_joypad
      /\ c.h_mirror = m.h_mirror /\ c.v_mirror = m.v_mirror
      /\ c.fixed_transfer = m.fixed_transfer /\ c.decrement = m.decrement
      /\ c.unused_flag = m.unused_flag /\ c.hdma_indirect = m.hdma_indirect
      /\ c.invert_direction = m.invert_direction
  <2>1. /\ c.enable_h_irq = Bit(r.nmitimen, 4) /\ c.enable_v_irq = Bit(r.nmitimen, 5)
        /\ c.enable_auto_joypad = Bit(r.nmitimen, 0)
        /\ c.h_mirror = Bit(r.m7sel, 0) /\ c.v_mirror = Bit(r.m7sel, 1)
        /\ c.fixed_transfer = Bit(r.dmap, 3) /\ c.decrement = Bit(r.dmap, 4)
        /\ c.unused_flag = Bit(r.dmap, 5) /\ c.hdma_indirect = Bit(r.dmap, 6)
        /\ c.invert_direction = Bit(r.dmap, 7)
    BY DEF FromZsnes, ZsnesRegisters
  <2>2. /\ m.enable_h_irq = Bit(r.nmitimen, 4) /\ m.enable_v_irq = Bit(r.nmitimen, 5)
        /\ m.enable_auto_joypad = Bit(r.nmitimen, 0)
        /\ m.h_mirror = Bit(r.m7sel, 0) /\ m.v_mirror = Bit(r.m7sel, 1)
        /\ m.fixed_transfer = Bit(r.dmap, 3) /\ m.decrement = Bit(r.dmap, 4)
        /\ m.unused_flag = Bit(r.dmap, 5) /\ m.hdma_indirect = Bit(r.dmap, 6)
        /\ m.invert_direction = Bit(r.dmap, 7)
    BY DEF Meaning
  <2> QED
    BY <2>1, <2>2
<1>4. /\ c.direct_color = m.direct_color /\ c.color_add_subscreen = m.color_add_subscreen
      /\ c.color_prevent_mode = m.color_prevent_mode
      /\ c.color_clip_mode = m.color_clip_mode
      /\ c.color_halve = m.color_halve /\ c.color_subtract = m.color_subtract
      /\ c.enable_nmi = m.enable_nmi /\ c.vram_incr_on_high = m.vram_incr_on_high
      /\ c.large_map = m.large_map
  <2>1. /\ c.direct_color = Bit(r.cgwsel, 0) /\ c.color_add_subscreen = Bit(r.cgwsel, 1)
        /\ c.color_prevent_mode = Bits(r.cgwsel, 4, 2)
        /\ c.color_clip_mode = Bits(r.cgwsel, 6, 2)
        /\ c.color_halve = Bit(r.cgadsub, 6) /\ c.color_subtract = Bit(r.cgadsub, 7)
        /\ c.enable_nmi = Bit(r.nmitimen, 7) /\ c.vram_incr_on_high = Bit(r.vmain, 7)
        /\ c.large_map = Bit(r.m7sel, 7)
    BY DEF FromZsnes, ZsnesRegisters
  <2>2. /\ m.direct_color = (r.cgwsel % 2 = 1)
        /\ m.color_add_subscreen = (r.cgwsel % 4 >= 2)
        /\ m.color_prevent_mode = (r.cgwsel % 64) \div 16
        /\ m.color_clip_mode = r.cgwsel \div 64
        /\ m.color_halve = (r.cgadsub % 128 >= 64) /\ m.color_subtract = (r.cgadsub >= 128)
        /\ m.enable_nmi = (r.nmitimen >= 128) /\ m.vram_incr_on_high = (r.vmain >= 128)
        /\ m.large_map = (r.m7sel >= 128)
    BY DEF Meaning
  <2> QED
    BY <1>1, <2>1, <2>2, BitsOfByte
<1>5. c.screen_interlace = m.screen_interlace /\ c.overscan = m.overscan
  <2>1. /\ c.screen_interlace = (r.setini % 2 # 0) /\ m.overscan = Bit(r.setini, 2)
        /\ c.overscan = ((IF Bit(r.setini, 2) THEN 239 ELSE 224) > 224)
    BY DEF FromZsnes, ZsnesRegisters, Meaning
  <2>2. m.screen_interlace = (r.setini % 2 = 1)
    BY <1>1, BitsOfByte DEF Meaning
  <2>3. (r.setini % 2 # 0) = (r.setini % 2 = 1)
    BY <1>1 DEF Byte
  <2>4. ((IF Bit(r.setini, 2) THEN 239 ELSE 224) > 224) = Bit(r.setini, 2)
    BY DEF Bit
  <2> QED
    BY <2>1, <2>2, <2>3, <2>4, SMTT(30)
<1>6. /\ c.mask_logic = m.mask_logic /\ c.window_mask_main = m.window_mask_main
      /\ c.window_mask_sub = m.window_mask_sub /\ c.windows = m.windows
  <2>1. /\ c.mask_logic = MaskLogic(r.wbglog, r.wobjlog)
        /\ c.window_mask_main = WindowMask(r.tmw) /\ c.window_mask_sub = WindowMask(r.tsw)
        /\ c.windows = WindowsOf(WindowRegister(r.w12sel % 16, r.w12sel \div 16),
                                 WindowRegister(r.w34sel % 16, r.w34sel \div 16),
                                 WindowRegister(r.wobjsel % 16, r.wobjsel \div 16))
    BY DEF FromZsnes, ZsnesRegisters
  <2>2. /\ WindowRegister(r.w12sel % 16, r.w12sel \div 16) = r.w12sel
        /\ WindowRegister(r.w34sel % 16, r.w34sel \div 16) = r.w34sel
        /\ WindowRegister(r.wobjsel % 16, r.wobjsel \div 16) = r.wobjsel
    BY <1>1, NibblesOfByte
  <2>3. c.windows = WindowsOf(r.w12sel, r.w34sel, r.wobjsel)
    BY <2>1, <2>2
  <2> QED
    BY <2>1, <2>3, MeaningOfWindows
<1>7. ASSUME NEW f \in Narrow \ LostByZsnes(r) PROVE c[f] = m[f]
  <2>1. /\ c.brightness = m.brightness /\ c.bg_mode = m.bg_mode
        /\ c.vram_remap = m.vram_remap /\ c.mosaic_enabled = m.mosaic_enabled
        /\ c.transfer_mode = m.transfer_mode
    BY SMTT(30) DEF FromZsnes, ZsnesRegisters, Meaning
  <2>2. c.color_math_enabled = m.color_math_enabled
    BY <1>1, BitsOfByte, SMTT(30) DEF FromZsnes, ZsnesRegisters, Meaning
  <2>3. /\ c.main_screen_layers = m.main_screen_layers
        /\ c.sub_screen_layers = m.sub_screen_layers /\ c.mosaic_size = m.mosaic_size
    <3>1. /\ c.main_screen_layers = (r.tm + 256 * r.ts) % 256
          /\ c.sub_screen_layers = ((r.tm + 256 * r.ts) \div 256) % 256
          /\ c.mosaic_size = ((r.mosaic \div 16) % 16) + 1
          /\ m.main_screen_layers = r.tm /\ m.sub_screen_layers = r.ts
          /\ m.mosaic_size = r.mosaic \div 16 + 1
      BY DEF FromZsnes, ZsnesRegisters, Meaning
    <3>2. (r.tm + 256 * r.ts) % 256 = r.tm /\ ((r.tm + 256 * r.ts) \div 256) % 256 = r.ts
      BY <1>1, BytesOfWord
    <3>3. (r.mosaic \div 16) % 16 = r.mosaic \div 16
      BY <1>1 DEF Byte
    <3> QED
      BY <3>1, <3>2, <3>3
  <2>4. c.vram_increment = m.vram_increment
    <3>1. /\ c.vram_increment = IncrementOf(2 * Increment[r.vmain % 4])
          /\ m.vram_increment = Increment[r.vmain % 4]
      BY DEF FromZsnes, ZsnesRegisters, Meaning
    <3>2. \A n \in {1, 32, 128} : IncrementOf(2 * n) = n
      BY DEF IncrementOf
    <3> QED
      BY <3>1, <3>2, NumbersFit, SMTT(30)
  <2>5. r.obsel < 192 => c.oam_mode = m.oam_mode
    <3>1. /\ c.oam_mode = ObjectMode(IF r.obsel \div 32 < 6
                                     THEN ObjectTiles[r.obsel \div 32 + 1] ELSE <<1, 1>>)
          /\ m.oam_mode = r.obsel \div 32
      BY DEF FromZsnes, ZsnesRegisters, Meaning
    <3>2. r.obsel < 192 => r.obsel \div 32 \in 0..5
      BY <1>1 DEF Byte
    <3>3. r.obsel \div 32 \in 0..5 => r.obsel \div 32 < 6
      OBVIOUS
    <3> QED
      BY <3>1, <3>2, <3>3, ModeOfSizes, SMTT(30)
  <2>6. r.obsel < 192 \/ r.obsel >= 192
    BY <1>1 DEF Byte
  <2> QED
    BY <2>1, <2>2, <2>3, <2>4, <2>5, <2>6, SMTT(30) DEF Narrow, LostByZsnes
<1>8. ASSUME NEW f \in Wide PROVE c[f] = m[f]
  <2>1. /\ c.oam_addr_offset =
             NameOffset(((r.obsel % 4) * 8192) * 2,
                        ((r.obsel % 4) * 8192 + (Bits(r.obsel, 3, 2) + 1) * 4096) * 2)
        /\ m.oam_addr_offset = (Bits(r.obsel, 3, 2) + 1) * 4096
        /\ c.fixed_color = Colour(r.red, r.green, r.blue)
        /\ m.fixed_color = (r.red % 32) + 32 * (r.green % 32) + 1024 * (r.blue % 32)
    BY DEF FromZsnes, ZsnesRegisters, Meaning
  <2>2. c.fixed_color = m.fixed_color
    BY <1>1, <2>1 DEF Colour, Byte
  <2>3. Bits(r.obsel, 3, 2) \in 0..3
    <3>1. Bits(r.obsel, 3, 2) = (r.obsel \div 8) % 4
      BY Powers DEF Bits
    <3> QED
      BY <1>1, <3>1 DEF Byte
  <2>4. ASSUME NEW p \in Nat, NEW n \in 0..3
        PROVE  NameOffset(p * 2, (p + (n + 1) * 4096) * 2) = ((n + 1) * 4096) % 32768
    <3>1. ((p + (n + 1) * 4096) * 2 - p * 2) \div 2 = (n + 1) * 4096
      OBVIOUS
    <3> QED
      BY <3>1 DEF NameOffset
  <2>5. c.oam_addr_offset = m.oam_addr_offset
    <3>1. (r.obsel % 4) * 8192 \in Nat
      BY <1>1 DEF Byte
    <3>2. c.oam_addr_offset = ((Bits(r.obsel, 3, 2) + 1) * 4096) % 32768
      BY <2>1, <2>3, <2>4, <3>1
    <3> QED
      BY <2>1, <2>3, <3>2
  <2> QED
    BY <2>2, <2>5, SMTT(30) DEF Wide
<1>9. ASSUME NEW f \in Addresses
      PROVE  c[f] \in Nat /\ c[f] < 65536 /\ c[f] % 32768 = m[f]
  <2>1. /\ c.vram_addr = WordAddress((((r.vmaddh * 256) % 32768) * 2) % 65536)
        /\ c.oam_base_addr = WordAddress(((r.obsel % 4) * 8192) * 2)
        /\ m.vram_addr = (r.vmaddh * 256) % 32768
        /\ m.oam_base_addr = ((r.obsel % 8) * 8192) % 32768
    BY DEF FromZsnes, ZsnesRegisters, Meaning
  <2>2. /\ (r.vmaddh * 256) % 32768 \in Nat /\ (r.vmaddh * 256) % 32768 < 32768
        /\ (((r.vmaddh * 256) % 32768) * 2) % 65536 = ((r.vmaddh * 256) % 32768) * 2
        /\ (r.obsel % 4) * 8192 \in Nat /\ (r.obsel % 4) * 8192 < 32768
        /\ (r.obsel % 4) * 8192 = ((r.obsel % 8) * 8192) % 32768
    BY <1>1 DEF Byte
  <2>3. c.vram_addr = m.vram_addr /\ c.oam_base_addr = m.oam_base_addr
    BY <2>1, <2>2, WordOfBytes
  <2>4. /\ m.vram_addr \in Nat /\ m.vram_addr < 32768
        /\ m.oam_base_addr \in Nat /\ m.oam_base_addr < 32768
    BY <2>1, <2>2
  <2>5. ASSUME NEW x \in Nat, x < 32768 PROVE x < 65536 /\ x % 32768 = x
    BY <2>5
  <2> QED
    BY <2>3, <2>4, <2>5, SMTT(30) DEF Addresses
<1>10. LayersCome(c.layers, m.layers)
  <2>1. c.layers =
          [l \in Layer |->
             LayerOf(WordAddress(((ScreenBase(r, l) \div 4) % 32) * 2048),
                     WordAddress((NameNibble(r, l) % 8) * 8192),
                     Bit(ScreenBase(r, l) % 4, 0), Bit(ScreenBase(r, l) % 4, 1),
                     Bit(r.bgmode \div 16, l))]
    BY DEF FromZsnes, ZsnesRegisters, LayerOf
  <2>2. ASSUME NEW l \in Layer
        PROVE  /\ WordAddress(((ScreenBase(r, l) \div 4) % 32) * 2048)
                    = ((ScreenBase(r, l) \div 4) % 32) * 1024
               /\ WordAddress((NameNibble(r, l) % 8) * 8192) = (NameNibble(r, l) % 8) * 4096
    <3>1. ASSUME NEW s, Byte(s), NEW n \in Nat
          PROVE  /\ WordAddress(((s \div 4) % 32) * 2048) = ((s \div 4) % 32) * 1024
                 /\ WordAddress((n % 8) * 8192) = (n % 8) * 4096
      BY <3>1 DEF WordAddress, Byte
    <3> QED
      BY <3>1, LayerNumbers
  <2>3. ASSUME NEW l \in Layer
        PROVE  /\ Bit(ScreenBase(r, l) % 4, 0) = (ScreenBase(r, l) % 2 = 1)
               /\ Bit(ScreenBase(r, l) % 4, 1) = (ScreenBase(r, l) % 4 >= 2)
               /\ Bit(r.bgmode \div 16, l) = Bit(r.bgmode, 4 + l)
    BY <1>1, LayerNumbers, SizeOfByte, TilesOfNibble
  <2>4. c.layers = LayersOf(r)
    BY <2>1, <2>2, <2>3 DEF LayersOf
  <2> QED
    BY <2>4, LayersOfRegisters
<1>11. ASSUME NEW f \in Copied \ LostByZsnes(r) PROVE c[f] = m[f]
  BY <1>2, <1>3, <1>4, <1>5, <1>6 DEF Copied, LostByZsnes
<1> QED
  BY <1>7, <1>8, <1>9, <1>10, <1>11, NumbersFit, Apart DEF Comes

-----------------------------------------------------------------------------
(* The whole way.                                                           *)

\* All three have the same fields.
LEMMA SameFields ==
  /\ \A r : DOMAIN Meaning(r) = FieldNames
  /\ \A s : DOMAIN FromSnes9x(s) = FieldNames
  /\ \A z : DOMAIN FromZsnes(z) = FieldNames
<1>1. ASSUME NEW r PROVE DOMAIN Meaning(r) = FieldNames
  BY DEF Meaning, FieldNames, Addresses, Wide, Narrow, Copied
<1>2. ASSUME NEW s PROVE DOMAIN FromSnes9x(s) = FieldNames
  BY DEF FromSnes9x, FieldNames, Addresses, Wide, Narrow, Copied
<1>3. ASSUME NEW z PROVE DOMAIN FromZsnes(z) = FieldNames
  BY DEF FromZsnes, FieldNames, Addresses, Wide, Narrow, Copied
<1> QED
  BY <1>1, <1>2, <1>3

\* Writing and wrapping keep the fields.
LEMMA FieldsWritten ==
  ASSUME NEW c, DOMAIN c = FieldNames
  PROVE  DOMAIN Wrap(ToMesen(c)) = FieldNames
<1>1. DOMAIN ToMesen(c) = FieldNames
  BY DEF ToMesen
<1> QED
  BY <1>1 DEF Wrap

\* What is read from a save of either emulator comes over.
LEMMA ReadRegistersComeOver ==
  ASSUME Carried
  PROVE  /\ DOMAIN ReadRegisters = FieldNames
         /\ \A f \in FieldNames \ Lost : Comes(ReadRegisters, Meaning(moment.regs), f)
<1>1. moment.regs \in RegisterValues
  BY MomentsAssumption DEF Carried
<1>2. CASE emu = "snes9x"
  <2>1. ReadRegisters = FromSnes9x(Snes9xRegisters(moment.regs))
    BY <1>2 DEF ReadRegisters, SavedRegisters
  <2>2. Lost = {"fill_with_tile0"}
    BY <1>2 DEF Lost
  <2> QED
    BY <1>1, <1>2, <2>1, <2>2, Snes9xComesOver, SameFields
<1>3. CASE emu = "zsnes"
  <2>1. ReadRegisters = FromZsnes(ZsnesRegisters(moment.regs))
    BY <1>3 DEF ReadRegisters, SavedRegisters
  <2>2. Lost = LostByZsnes(moment.regs)
    BY <1>3 DEF Lost, LostByZsnes
  <2> QED
    BY <1>1, <1>3, <2>1, <2>2, ZsnesComesOver, SameFields
<1> QED
  BY <1>2, <1>3 DEF Carried

\* Every field of registers that an emulator's save has means what it meant.
THEOREM RegistersAreKept == Spec => []RegistersKept
<1>1. Carried => RegistersKept
  <2> SUFFICES ASSUME Carried, Written PROVE RegistersKept!2
    BY DEF RegistersKept
  <2> DEFINE d == Wrap(mesen.regs)
             m == Meaning(moment.regs)
  <2>1. mesen.regs = ToMesen(ReadRegisters)
    BY DEF Carried, Written
  <2>2. DOMAIN d = FieldNames /\ DOMAIN m = FieldNames
    BY <2>1, ReadRegistersComeOver, FieldsWritten, SameFields
  <2>3. ASSUME NEW f \in FieldNames \ Lost PROVE d[f] = m[f]
    BY <2>1, ReadRegistersComeOver, ComesOver
  <2> HIDE DEF d, m
  <2>4. DOMAIN d = DOMAIN m /\ \A f \in DOMAIN d \ Lost : d[f] = m[f]
    BY <2>2, <2>3
  <2> QED
    BY <2>4 DEF d, m
<1> QED
  BY <1>1, AllCarried, PTL

\* Types, and with them the ranges of the canonical state's fields.
THEOREM TypeCorrect == Spec => []TypeOK
<1>1. Carried => TypeOK
  <2> SUFFICES ASSUME Carried PROVE TypeOK
    OBVIOUS
  <2>1. ASSUME pc \in {"write", "done"}
        PROVE  /\ canon.time.scanline \in Nat /\ canon.time.is_pal \in BOOLEAN
               /\ canon.regs.vram_increment \in {1, 32, 128}
               /\ canon.regs.vram_remap \in 0..3
               /\ canon.regs.mosaic_size \in 1..16
               /\ canon.regs.fixed_color \in Nat /\ canon.regs.fixed_color < 32768
    <3> DEFINE c == canon.regs
               m == Meaning(moment.regs)
    <3>1. canon.time = ReadTime /\ c = ReadRegisters
      BY <2>1 DEF Carried
    <3>2. ReadTime.scanline \in Nat /\ ReadTime.is_pal \in BOOLEAN
      BY ReadsMoment, MomentsAssumption DEF Carried
    <3>3. {"vram_increment", "vram_remap", "mosaic_size"} \subseteq Narrow \ Lost
      BY DEF Narrow, Lost
    <3>4. "fixed_color" \in Wide \ Lost
      BY DEF Wide, Lost
    <3>5. /\ c["vram_increment"] = m["vram_increment"] /\ c["vram_remap"] = m["vram_remap"]
          /\ c["mosaic_size"] = m["mosaic_size"] /\ c["fixed_color"] = m["fixed_color"]
      BY <3>1, <3>3, <3>4, ReadRegistersComeOver DEF Comes, FieldNames
    <3>6. moment.regs \in RegisterValues
      BY MomentsAssumption DEF Carried
    <3>7. /\ m.vram_increment \in {1, 32, 128} /\ m.vram_remap \in 0..3
          /\ m.mosaic_size \in 1..16 /\ m.fixed_color \in Nat /\ m.fixed_color < 32768
      BY <3>6, NumbersFit
    <3> HIDE DEF m
    <3> QED
      BY <3>1, <3>2, <3>5, <3>7
  <2> QED
    BY <2>1 DEF TypeOK, Carried
<1> QED
  BY <1>1, AllCarried, PTL
=============================================================================
