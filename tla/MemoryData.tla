------------------------------ MODULE MemoryData ------------------------------
(***************************************************************************)
(* MemoryData.v: the byte lanes of one word.  `width` is funct3 of the     *)
(* instruction: bit 0 selects a half, else bit 1 a word, else a byte; bit  *)
(* 2 asks for zero instead of sign extension on a read.  The low two bits  *)
(* of the address never select a lane.                                     *)
(***************************************************************************)
EXTENDS Machine

IsHalf(width)   == width % 2 = 1
IsWord(width)   == ~IsHalf(width) /\ (width \div 2) % 2 = 1
ToExtend(width) == (width \div 4) % 2 = 0

(* The low m values of w, its top bit repeated through the word if asked.  *)
Extend(w, m, signed) ==
  IF signed /\ (w % m) >= m \div 2 THEN WordMod - m + (w % m) ELSE w % m

ReadLanes(width, w) ==
  CASE IsHalf(width) -> Extend(w, HalfMod, ToExtend(width))
    [] IsWord(width) -> w
    [] OTHER         -> Extend(w, ByteMod, ToExtend(width))

(* The low m values of WD over those of old.                               *)
Merge(old, WD, m) == old - (old % m) + (WD % m)

WriteLanes(width, old, WD) ==
  CASE IsHalf(width) -> Merge(old, WD, HalfMod)
    [] IsWord(width) -> WD
    [] OTHER         -> Merge(old, WD, ByteMod)
==============================================================================
