----------------------------- MODULE MCDatapath -----------------------------
(* Four-bit registers, and far immediates with at most two ones or at most *)
(* two zeros above the bits that an instruction leaves out.                *)
EXTENDS Datapath

Few == {{}} \cup {{a, b} : a, b \in 0 .. 31}

MCOffsets ==
  UNION {{ones, high .. 31 \cup ones, (low .. 31) \ ones} :
           ones \in Few, high \in {11, 12, 20}, low \in {0, 1, 12}}
==============================================================================
