----------------------------- MODULE MCModeView -----------------------------
(* The values of ModeView's constants for TLC. *)
EXTENDS ModeView, MCStore

CONSTANTS r1, r2   \* readers

MCNameOrder == <<"coder", "planner">>

(* A list with a name twice, a name nobody serves and an item that is no
   name, and the list that clears it. *)
Mixed == <<"planner", "coder", NotString, "planner">>
MCLists == {Mixed, <<>>}

ListPut(m, v) == PutMode(m, Sets("agents", v))

ViewRequests ==
  {Post("planner", Good), Delete("coder"),
   ListPut("flat", Mixed), ListPut("flat", <<>>), ListPut("pipeline", Mixed)}

=============================================================================
