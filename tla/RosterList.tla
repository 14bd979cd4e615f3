----------------------------- MODULE RosterList -----------------------------
(***************************************************************************)
(* The list GET /api/agents serves.  swarm-config.json may name an agent   *)
(* several times; base holds the first record of each name, which is the   *)
(* one findAgentLocked stops at, and later the ones after it.  The list is *)
(* sorted by name, so it is what it holds under each name.                 *)
(***************************************************************************)
EXTENDS Roster, SequencesExt

Records(base, later, n) == IF base[n] = NoAgent THEN <<>> ELSE <<base[n]>> \o later[n]

(* Defects that the runs have to notice. *)

ListUnseen(fromBase, over, n) == IF over[n] = NoAgent THEN fromBase ELSE fromBase \o <<over[n]>>

-----------------------------------------------------------------------------

(* The loop over baseAgents: an override takes the place of every record. *)
InPlace(records, over, n) ==
  IF over[n] = NoAgent THEN records ELSE [i \in DOMAIN records |-> over[n]]

(* The loop over agentOver: what the first loop has not seen is appended. *)
Appended(fromBase, over, n) ==
  IF over[n] = NoAgent \/ fromBase # <<>> THEN fromBase ELSE <<over[n]>>

rebuildList(base, later, over, removed) ==
  [n \in Names |->
     IF n \in removed THEN <<>>
     ELSE Appended(InPlace(Records(base, later, n), over, n), over, n)]

=============================================================================
