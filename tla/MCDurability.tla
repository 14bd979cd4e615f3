---------------------------- MODULE MCDurability ----------------------------
(* The values of Durability's constants for TLC. *)
EXTENDS Durability, MCStore

RegisterRemove == {Post("coder", Busy), Post("planner", Good), Post("planner", BadPort),
                   Delete("coder"), Delete("planner")}
TwoPosts == {Post("coder", Busy), Post("planner", Good)}
OnePost == {Post("planner", Good)}
OnePrompt == {Prompt("coder", "p")}
=============================================================================
