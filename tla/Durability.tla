----------------------------- MODULE Durability -----------------------------
(***************************************************************************)
(* Store with a history variable: what the clients may count on.  acked[n] *)
(* is what the restart served under n or what the last request on n left,  *)
(* once that was answered with success and no other request on n is under  *)
(* way; Open otherwise.                                                    *)
(***************************************************************************)
EXTENDS Store

CONSTANT Open

ASSUME OpenAssumption == Open \notin Agent \cup {NoAgent}

VARIABLE acked

dvars == <<vars, acked>>

Mutating(h) == pc[h] # "idle" /\ req[h].op \in {"post", "prompt", "delete"}

(* A handler that leaves "reply" normally answers the status it holds. *)
Answered(h, n) ==
  pc[h] = "reply" /\ pc'[h] = "idle" /\ up' /\ Mutating(h) /\ req[h].name = n

Pending(h, n) == pc'[h] # "idle" /\ req'[h].op \in {"post", "prompt", "delete"} /\ req'[h].name = n

Note(n) ==
  IF ~up /\ up' THEN agents'[n]
  ELSE IF \E h \in Handlers : Pending(h, n) THEN Open
  ELSE IF \E h \in Handlers : Answered(h, n) /\ status[h] \in {200, 201} THEN agents[n]
  ELSE acked[n]

DInit == Init /\ acked = [n \in Names |-> Open]

DNext == Next /\ acked' = [n \in Names |-> Note(n)]

DSpec == DInit /\ [][DNext]_dvars

(* An answered registration, edit or removal is in force after a restart. *)
Kept == \A n \in Names : acked[n] \in {Open, agents'[n]}

(* "Agents can be upserted/removed over HTTP and survive restarts via
   overrides.json" (agents_override.go:10-11). *)
SurvivesRestart == [][~up /\ up' => Kept]_dvars

(* The same of the restarts that find the file as some write left it whole. *)
SurvivesCleanRestart == [][~up /\ up' /\ file \notin {Empty, Garbage} => Kept]_dvars

=============================================================================
