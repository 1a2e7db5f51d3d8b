----------------------------- MODULE MCSymbolFile -----------------------------
(* Values of the constants of SymbolFile: two names in the same bucket of  *)
(* either hash table.                                                      *)
EXTENDS SymbolFile

MCNames == {<<1>>, <<1, 3>>}
MCTypes == {R_386_32, R_386_PC32}

==============================================================================
