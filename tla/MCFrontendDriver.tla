-------------------------- MODULE MCFrontendDriver --------------------------
(* FrontendDriver on texts with rules and dialects, which are bounded by     *)
(* ShortRules, and with ops and their builders, bounded by MaxLexemes.       *)
EXTENDS FrontendDriver

CONSTANT MaxRuleLexemes

MCIdents == Words \cup {"b", "B", "Return", "b_0"}
MCRefs == {"b_0"}
MCBuiltin == {"Return"}
MCLowerFirst == [x \in MCIdents |-> CASE x = "B" -> "b" [] OTHER -> "not a text"]
MCUpperFirst == [x \in {"b"} |-> "B"]
MCBuiltinWords == [name \in MCBuiltin |-> {"return"}]

MCLexemes == {"rule", "dialect", "b", "B", ":", ";", "'", "{", "}", "builder", "b_0",
              "op", "builders", "OpBuilder", "=", "[", "]", "<", ">", "(", ")", "AnyTypeOf"}

ShortRules == used > MaxRuleLexemes => allocated["rule"] + allocated["dialect"] = 0
=============================================================================
