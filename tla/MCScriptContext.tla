-------------------------- MODULE MCScriptContext --------------------------
(***************************************************************************)
(* Instance of ScriptContext for TLC: a function of one variable, which is *)
(* its argument, one of two variables, one an argument, and one that is    *)
(* too large for the working area.                                         *)
(***************************************************************************)
EXTENDS ScriptContext

CONSTANTS leaf, inner, huge

MCFunctions == {leaf, inner, huge}
MCSize == [f \in MCFunctions |-> IF f = leaf THEN 1 ELSE IF f = inner THEN 2 ELSE 5]
MCNumArgs == [f \in MCFunctions |-> IF f = huge THEN 0 ELSE 1]
MCLength == [f \in MCFunctions |-> IF f = leaf THEN 2 ELSE 3]

=============================================================================
