----------------------------- MODULE MCToolAgent -----------------------------
(* Two tools, the policies of main and of a handler, and every text of up  *)
(* to two lines that matter.                                               *)
EXTENDS ToolAgent

CONSTANTS light, door, mains, handlers

Line(key, value) == [key |-> key, value |-> value]

SomeLines ==
    {Line("tool", light), Line("tool", door), Line("tool", NoName),
     Line("confidence", "0.82"), Line("confidence", "high")}

SomeTexts == UNION {[1 .. n -> SomeLines] : n \in 0 .. 2}
=============================================================================
