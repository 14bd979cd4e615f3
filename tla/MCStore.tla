------------------------------- MODULE MCStore -------------------------------
(* The values of Store's constants for TLC. *)
EXTENDS Store, TLC

CONSTANTS h1, h2   \* handlers

(* One valid engine and one blank one, a port that is not an address. *)
MCPorts == {0, 8080}
MCEngines == {"mlx", ""}
MCBlankEngines == {""}
MCPrompts == {"", "p"}
MCModeNames == KnownModes \cup {"", "bogus"}
Two == {"coder", "planner"}
Blanks == {" "}
NoBlanks == {}

Rec(port, engine, prompt) == [port |-> port, engine |-> engine, prompt |-> prompt]
Good == Rec(8080, "mlx", "")
Busy == Rec(8080, "mlx", "p")
BadPort == Rec(0, "mlx", "")
BadEngine == Rec(8080, "", "")

Doc(agentsMap, modesMap, default) ==
  [agents |-> agentsMap, modes |-> modesMap, default_mode |-> default]

OneBase == [n \in Names |-> IF n = "coder" THEN Good ELSE NoAgent]
(* swarm-config agents are not validated: one without an engine. *)
HalfBase == [n \in Names |-> IF n = "coder" THEN BadEngine ELSE NoAgent]

With(m, c) == [NoModes EXCEPT ![m] = c]
Sets(k, v) == [EmptyObject EXCEPT ![k] = v]

Post(n, a) == [op |-> "post", name |-> n, agent |-> a]
Prompt(n, p) == [op |-> "prompt", name |-> n, prompt |-> p]
Get(n) == [op |-> "get", name |-> n]
Delete(n) == [op |-> "delete", name |-> n]
Active(m) == [op |-> "active", mode |-> m]
PutMode(m, b) == [op |-> "putmode", mode |-> m, body |-> b]
List == [op |-> "list"]

PlainConfigs == {Doc(OneBase, NoModes, "flat")}
HalfConfigs == {Doc(HalfBase, NoModes, "flat")}
NullConfigs == {Doc(OneBase, With("flat", Null), "flat")}
ScalarConfigs == {Doc(OneBase, With("flat", Scalar), "flat")}

AgentRequests ==
  {Post("coder", Good), Post("planner", Good), Post("planner", BadPort),
   Prompt("coder", "p"), Get("planner"), Delete("coder")}

LiveRequests ==
  {Post("planner", Good), List, Active("cascade"), PutMode("flat", Sets("agents", "v"))}

Perms == Permutations(Handlers)
=============================================================================
