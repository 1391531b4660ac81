-------------------------- MODULE MCFrontendParser --------------------------
(* FrontendParser on two vocabularies: the texts with rules and dialects,    *)
(* and those with an op, its dags and its builders.                          *)
EXTENDS FrontendParser

MCIdents == Words \cup {"b", "B", "Return", "b_0", "b_x"}
MCUnderscored == {"b_0", "b_x"}
MCBuilderRefs == {"b_0"}
MCBuiltin == {"Return"}
MCLowerFirst == [x \in MCIdents |-> CASE x = "B" -> "b" [] OTHER -> "not a text"]

RuleLexemes == {"rule", "dialect", "b", "B", "Return", ":", ";", "'", "+", "{", "}",
                "builder", "=", "b_0", "b_x", ",", "name", "\"", "7"}
OpLexemes == {"op", "b", ":", ";", "arguments", "results", "builders", "OpBuilder", "=",
              "(", ")", "$", "<", ">", "[", "]", ",", "\"", "AnyTypeOf", "CArg"}
=============================================================================
