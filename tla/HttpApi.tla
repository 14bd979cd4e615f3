------------------------------- MODULE HttpApi -------------------------------
(***************************************************************************)
(* The HTTP interface of Store: what a request's method, path and body     *)
(* make of it, and the list of agents it serves.  Routing keeps no state:  *)
(* the behaviours are Store's, with the requests that the routes produce.  *)
(*                                                                         *)
(* A path is the sequence of its segments after /api, decoded.  A name     *)
(* that contains slashes has several segments.                             *)
(***************************************************************************)
EXTENDS Store, RosterList

CONSTANTS
  HttpRequests, \* what clients may send (a bound on the inputs)
  Later,        \* per roster of swarm-config: the records of a name after the first
  Segments,     \* of a name in a path: the name split at its slashes
  Nobody,       \* whom a request is about that is about no agent
  Malformed     \* a body that does not decode

Methods == {"GET", "POST", "PUT", "DELETE"}

-----------------------------------------------------------------------------
(* Defects that the runs have to notice. *)

SubPathIgnored(parts) == Len(parts) >= 1

-----------------------------------------------------------------------------
(* Routing: a request becomes one of Store's, a read of the store that no
   other model follows further, or a status. *)

Reply(code) == [op |-> "reply", code |-> code]
ReadOnly == [op |-> "read"]
Decoded(r, request) == IF r.body = Malformed THEN Reply(400) ELSE request

handleAgents(r) ==
  CASE r.method = "GET" -> [op |-> "list"]
    [] r.method = "POST" ->
         IF r.body = Malformed THEN Reply(400)
         ELSE [op |-> "post", name |-> r.body.name, agent |-> r.body.agent]
    [] OTHER -> Reply(405)

handleAgentPrompt(r, name) ==
  IF r.method # "PUT" THEN Reply(405)
  ELSE Decoded(r, [op |-> "prompt", name |-> name, prompt |-> r.body])

OneName(parts) == Len(parts) = 1

handleAgentSub(r, parts) ==
  CASE parts[1] = "" -> Reply(404)
    [] parts[1] # "" /\ Len(parts) = 2 /\ parts[2] = "prompt" -> handleAgentPrompt(r, parts[1])
    [] OTHER ->
         IF ~OneName(parts) THEN Reply(404)
         ELSE CASE r.method = "GET" -> [op |-> "get", name |-> parts[1]]
                [] r.method = "DELETE" -> [op |-> "delete", name |-> parts[1]]
                [] OTHER -> Reply(405)

handleActive(r) ==
  CASE r.method = "GET" -> ReadOnly
    [] r.method = "POST" -> Decoded(r, [op |-> "active", mode |-> r.body])
    [] OTHER -> Reply(405)

(* GET of a mode's roster is followed in ModeView. *)
handleModeSub(r, parts) ==
  IF Len(parts) # 2 THEN Reply(404)
  ELSE IF parts[2] # "agents" \/ ~Known(parts[1]) THEN Reply(404)
  ELSE CASE r.method = "GET" -> ReadOnly
         [] r.method = "PUT" -> Decoded(r, [op |-> "putmode", mode |-> parts[1], body |-> r.body])
         [] OTHER -> Reply(405)

Handler(r) ==
  CASE r.path = <<"agents">> -> handleAgents(r)
    [] r.path = <<"modes">> -> ReadOnly
    [] r.path = <<"modes", "active">> -> handleActive(r)
    [] r.path = <<"health">> -> Reply(200)
    [] OTHER ->
         IF Len(r.path) > 1 /\ Head(r.path) = "agents" THEN handleAgentSub(r, Tail(r.path))
         ELSE IF Len(r.path) > 1 /\ Head(r.path) = "modes" THEN handleModeSub(r, Tail(r.path))
         ELSE Reply(404)

ToStore(r) == Handler(r).op \notin {"reply", "read"}

(* How clients build a request that changes an agent: a POST names it in its
   body, and the other two in their path, a PUT for its prompt.  A client that
   forgets the suffix has a name without slashes (or it would edit another). *)
Url(n) == <<"agents">> \o Segments[n]

Aimed(r) ==
  /\ r.method = "POST" /\ r.path = <<"agents">> /\ r.body # Malformed => r.body.name = r.about
  /\ r.method \in {"PUT", "DELETE"} /\ Len(r.path) > 1 /\ Head(r.path) = "agents" =>
       /\ r.about \in Names
       /\ r.path \in {Url(r.about), Append(Url(r.about), "prompt")}
       /\ r.method = "PUT" /\ r.path = Url(r.about) => Len(Segments[r.about]) = 1

(* Store's requests are what the routes make of the clients'. *)
ASSUME HttpAssumption ==
  /\ Requests = {Handler(r) : r \in {q \in HttpRequests : ToStore(q)}}
  /\ \A r \in HttpRequests : r.about \in Names \cup {Nobody} /\ r.method \in Methods
  /\ \A s \in SwarmConfigs : Later[s.agents] \in [Names -> Seq(Agent)]
  /\ \A s \in SwarmConfigs, n \in Names : s.agents[n] = NoAgent => Later[s.agents][n] = <<>>
  /\ Nobody \notin Names

ASSUME ClientAssumption ==
  /\ \A n \in Names :
       /\ Segments[n] \in Seq(STRING) /\ Segments[n] # <<>>
       /\ Len(Segments[n]) = 1 => Segments[n] = <<n>>
  /\ \A r \in HttpRequests : r.path \in Seq(STRING) /\ Aimed(r)

-----------------------------------------------------------------------------
(* Properties. *)

(* The list and the lookup are separate code, and only the list knows of
   names that swarm-config repeats: under each name it shows what a lookup
   finds, an override in place of every record, and never more records than
   swarm-config has, or one. *)
ListShowsLookup ==
  up => \A n \in Names :
    LET found == findAgentLocked(base, over, removed, n)
        shown == rebuildList(base, Later[base], over, removed)[n]
    IN IF found = NoAgent THEN shown = <<>>
       ELSE /\ found \in Range(shown)
            /\ over[n] # NoAgent => Range(shown) = {found}
            /\ Len(shown) <= 1 + Len(Later[base][n])

(* However a path is split, what changes an agent in the roster is a request
   that its client meant for that agent, whichever request it was that the
   routes turned into the one being served. *)
OnlyNamedChanges ==
  [][up /\ up' => \A n \in Names : agents'[n] # agents[n] =>
       \E h \in Handlers :
         pc[h] = "begin" /\ \A r \in HttpRequests : Handler(r) = req[h] => r.about = n]_vars

=============================================================================
