------------------------------- MODULE Roster -------------------------------
(***************************************************************************)
(* The agent record of internal/roster, what a registration must carry,    *)
(* and the effective roster: swarm-config agents, overridden by the        *)
(* dynamic registrations, minus the tombstoned names.                      *)
(*                                                                         *)
(* A roster maps a name to its agent or to NoAgent.  Of an agent's fields  *)
(* only those the code reads or writes on its own are kept: the two that   *)
(* ValidateAgent inspects and the prompt that SetPrompt rewrites.          *)
(***************************************************************************)
EXTENDS Integers

CONSTANTS
  Names,         \* agent names clients and swarm-config use
  BlankNames,    \* those that are empty once trimmed
  Ports,
  Engines,
  BlankEngines,  \* engines that are empty once trimmed
  Prompts,
  EmptyPrompt,   \* the prompt ""
  NoAgent        \* marks a name that a map has no entry for

Agent == [port : Ports, engine : Engines, prompt : Prompts]

Rosters == [Names -> Agent \cup {NoAgent}]

ASSUME RosterAssumption ==
  /\ BlankNames \subseteq Names
  /\ Ports \subseteq Int
  /\ EmptyPrompt \in Prompts
  /\ NoAgent \notin Agent

EmptyRoster == [n \in Names |-> NoAgent]

-----------------------------------------------------------------------------
(* Defects that the runs have to notice. *)

ValidateNameOnly(name, a) == name \notin BlankNames

RebuildKeepingTombstoned(base, over, removed) ==
  [n \in Names |->
     IF over[n] # NoAgent THEN over[n]
     ELSE IF n \in removed THEN NoAgent ELSE base[n]]

FindOverridesOnly(base, over, removed, name) ==
  IF name \in removed THEN NoAgent ELSE over[name]

-----------------------------------------------------------------------------

ValidateAgent(name, a) ==
  /\ name \notin BlankNames
  /\ a.port > 0
  /\ a.engine \notin BlankEngines

(* The roster GET /api/agents lists, as a map: of the records of one name the
   first, the rest is in RosterList; the order of the list is left out. *)
rebuildAgentsLocked(base, over, removed) ==
  [n \in Names |->
     IF n \in removed THEN NoAgent
     ELSE IF over[n] # NoAgent THEN over[n] ELSE base[n]]

(* The agent the other handlers look up, computed from the same three
   maps on a path of its own. *)
findAgentLocked(base, over, removed, name) ==
  IF over[name] # NoAgent /\ name \notin removed THEN over[name]
  ELSE IF base[name] # NoAgent /\ name \notin removed THEN base[name]
  ELSE NoAgent

=============================================================================
