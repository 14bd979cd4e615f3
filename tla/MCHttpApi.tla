----------------------------- MODULE MCHttpApi -----------------------------
(* The values of HttpApi's constants for TLC. *)
EXTENDS HttpApi, MCStore

Four == {"coder", "planner", " ", "coder/x"}
(* A path is split after it was decoded. *)
MCSegments == [n \in Four |-> IF n = "coder/x" THEN <<"coder", "x">> ELSE <<n>>]

Ask(method, path, body, about) ==
  [method |-> method, path |-> path, body |-> body, about |-> about]

PostAgent(n, a) == Ask("POST", <<"agents">>, [name |-> n, agent |-> a], n)
PutPrompt(n, p) == Ask("PUT", Append(Url(n), "prompt"), p, n)
DeleteAgent(n) == Ask("DELETE", Url(n), Malformed, n)
GetAgent(n) == Ask("GET", Url(n), Malformed, n)
ModesAsk(method, rest, body) == Ask(method, <<"modes">> \o rest, body, Nobody)

MCHttpRequests ==
  {PostAgent("coder", Good), PostAgent("planner", Good), PostAgent("planner", BadPort),
   PostAgent(" ", Good), PostAgent("coder/x", Good),
   PutPrompt("coder", "p"), PutPrompt("coder", ""), PutPrompt("planner", "p"),
   PutPrompt("coder/x", "p"), PutPrompt("coder", Malformed),
   GetAgent("coder"), GetAgent("coder/x"), DeleteAgent("coder"), DeleteAgent("planner"),
   DeleteAgent("coder/x"), Ask("GET", <<"agents">>, Malformed, Nobody),
   Ask("POST", <<"agents">>, Malformed, Nobody), Ask("PUT", Url("coder"), Malformed, "coder"),
   Ask("DELETE", <<"agents">>, Malformed, Nobody), Ask("GET", <<"agents", "">>, Malformed, Nobody),
   Ask("DELETE", Append(Url("coder"), "prompt"), Malformed, "coder"),
   ModesAsk("GET", <<>>, Malformed), ModesAsk("GET", <<"active">>, Malformed),
   ModesAsk("POST", <<"active">>, "cascade"), ModesAsk("POST", <<"active">>, ""),
   ModesAsk("POST", <<"active">>, "bogus"), ModesAsk("PUT", <<"active">>, Malformed),
   ModesAsk("PUT", <<"flat", "agents">>, Sets("agents", "v")),
   ModesAsk("PUT", <<"flat", "agents">>, EmptyObject),
   ModesAsk("PUT", <<"bogus", "agents">>, EmptyObject),
   ModesAsk("DELETE", <<"flat", "agents">>, Malformed), ModesAsk("GET", <<"flat">>, Malformed)}

RoutedRequests == {Handler(r) : r \in {q \in MCHttpRequests : ToStore(q)}}

(* A swarm-config that names coder twice, and one whose only record of it
   has no engine. *)
TwiceBase == [n \in Names |-> IF n = "coder" THEN Good ELSE NoAgent]
HttpConfigs ==
  {Doc(TwiceBase, With("flat", Null), "flat"), Doc(HalfBase, With("flat", Scalar), "")}
MCLater == [roster \in {s.agents : s \in HttpConfigs} |->
  [n \in Names |-> IF n = "coder" /\ roster = TwiceBase THEN <<Busy>> ELSE <<>>]]

=============================================================================
