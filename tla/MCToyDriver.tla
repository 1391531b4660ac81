----------------------------- MODULE MCToyDriver -----------------------------
(* The compiler over the programs of MCToyVisitor, with every -emit, -x and   *)
(* -opt.                                                                      *)
EXTENDS MCToyVisitor, ToyDriver
==============================================================================
