-------------------------- MODULE MCVisitorCodeGen --------------------------
(* Modules of one or two ops, with every kind of operand type, named and not, *)
(* and rules that name a default builder, a custom one, both, or an op that   *)
(* is not defined.                                                            *)
EXTENDS VisitorCodeGen

Given == <<"n", 0>>   \* a name the source gives
MCOpNames == {"X", "Y", "Z"}
MCOperandNames == {NoName, Given}
Operand(type, name) == [type |-> type, name |-> name]
AllOperands == {Operand(type, name) : type \in Types, name \in {NoName, Given}}
FewOperands == {Operand(type, name) : type \in {"mapped", "anyUnbracketed"},
                                      name \in {NoName, Given}}
MCResults == {NULL} \cup BoundedSeq(AllOperands, 1)
MCArguments == {NULL} \cup BoundedSeq(FewOperands, 2)
MCBuilders == {<<>>, <<NULL>>,
               <<<<Operand("mapped", NoName), Operand("mapped", Given)>>>>,
               <<<<Operand("unmapped", NoName), Operand("mapped", NoName)>>>>,
               <<<<>>, <<Operand("mapped", Given), Operand("unmapped", NoName)>>>>}

RefTo(name, index) == [op |-> name, index |-> index]
MCRules == {<<<<<<RefTo("X", 0), RefTo("Y", 0)>>>>>>,
            <<<<<<RefTo("X", 1)>>, <<>>, <<RefTo("X", 0)>>>>, <<<<RefTo("X", 2)>>>>>>,
            <<<<<<RefTo("Z", 0)>>>>, <<<<RefTo("X", 0)>>>>>>}
OpY == [name |-> "Y", arguments |-> <<Operand("mapped", NoName)>>, results |-> NULL,
        builders |-> <<>>]

MCAsts ==
  {[rules |-> rules, dialect |-> dialect,
    ops |-> <<[name |-> "X", arguments |-> arguments, results |-> results,
               builders |-> builders], OpY>>] :
     rules \in MCRules, dialect \in {"named", "unnamed", "none"},
     arguments \in MCArguments, results \in MCResults, builders \in MCBuilders}
=============================================================================
