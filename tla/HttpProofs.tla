----------------------------- MODULE HttpProofs -----------------------------
(* The served list and the lookup, for a swarm-config that repeats names, and
   which agent a request changes, whatever its path. *)
EXTENDS HttpApi, StoreProofs

(* One override in place of each record: as many as there were, all of it. *)
LEMMA InPlaceRecords ==
  ASSUME NEW ov \in Rosters, NEW n \in Names, ov[n] # NoAgent,
         NEW first \in Agent, NEW rest \in Seq(Agent)
  PROVE  /\ Range(InPlace(<<first>> \o rest, ov, n)) = {ov[n]}
         /\ Len(InPlace(<<first>> \o rest, ov, n)) = 1 + Len(rest)
         /\ InPlace(<<first>> \o rest, ov, n) # <<>>
<1> DEFINE s == <<first>> \o rest
<1>1. s \in Seq(Agent) /\ Len(s) = 1 + Len(rest) /\ DOMAIN s = 1..(1 + Len(rest))
  OBVIOUS
<1>2. InPlace(s, ov, n) = [i \in 1..(1 + Len(rest)) |-> ov[n]]
  BY <1>1 DEF InPlace
<1>3. InPlace(s, ov, n) \in Seq({ov[n]}) /\ Len(InPlace(s, ov, n)) = 1 + Len(rest)
  BY <1>2
<1>4. 1 \in 1..(1 + Len(rest)) /\ Len(rest) \in Nat
  OBVIOUS
<1>5. Range(InPlace(s, ov, n)) = {ov[n]}
  BY <1>2, <1>4 DEF Range
<1> QED
  BY <1>3, <1>4, <1>5

(* Whatever is overridden, tombstoned or repeated, the list shows under a name
   what the lookup finds there. *)
LEMMA ListedIsFound ==
  ASSUME NEW bs \in Rosters, NEW ov \in Rosters, NEW rem \in SUBSET Names,
         NEW more \in [Names -> Seq(Agent)], NEW n \in Names,
         bs[n] = NoAgent => more[n] = <<>>
  PROVE  LET found == findAgentLocked(bs, ov, rem, n)
             shown == rebuildList(bs, more, ov, rem)[n]
         IN IF found = NoAgent THEN shown = <<>>
            ELSE /\ found \in Range(shown)
                 /\ ov[n] # NoAgent => Range(shown) = {found}
                 /\ Len(shown) <= 1 + Len(more[n])
<1> DEFINE shown == rebuildList(bs, more, ov, rem)[n]
           whole == <<bs[n]>> \o more[n]
<1>1. shown = IF n \in rem THEN <<>>
              ELSE Appended(InPlace(Records(bs, more, n), ov, n), ov, n)
  BY DEF rebuildList
<1>2. more[n] \in Seq(Agent) /\ Len(more[n]) \in Nat /\ NoAgent \notin Agent
  BY RosterAssumption
<1>3. CASE n \in rem
  BY <1>1, <1>3 DEF findAgentLocked
<1>4. CASE n \notin rem /\ bs[n] = NoAgent
  <2>1. InPlace(Records(bs, more, n), ov, n) = <<>>
    BY <1>4 DEF Records, InPlace
  <2>2. shown = IF ov[n] = NoAgent THEN <<>> ELSE <<ov[n]>>
    BY <1>1, <1>4, <2>1 DEF Appended
  <2>3. Range(<<ov[n]>>) = {ov[n]} /\ Len(<<ov[n]>>) = 1
    BY DEF Range
  <2> QED
    BY <1>2, <1>4, <2>2, <2>3 DEF findAgentLocked
<1>5. CASE n \notin rem /\ bs[n] # NoAgent /\ ov[n] = NoAgent
  <2>1. bs[n] \in Agent /\ whole \in Seq(Agent) /\ Len(whole) = 1 + Len(more[n])
    BY <1>2, <1>5 DEF Rosters
  <2>2. shown = whole
    BY <1>1, <1>5, <2>1 DEF Appended, InPlace, Records
  <2>3. whole[1] = bs[n] /\ 1 \in DOMAIN whole
    BY <1>2, <2>1
  <2>4. bs[n] \in Range(whole)
    BY <2>3 DEF Range
  <2> QED
    BY <1>2, <1>5, <2>1, <2>2, <2>4 DEF findAgentLocked
<1>6. CASE n \notin rem /\ bs[n] # NoAgent /\ ov[n] # NoAgent
  <2> DEFINE inPlace == InPlace(whole, ov, n)
  <2>1. bs[n] \in Agent
    BY <1>6 DEF Rosters
  <2>2. Range(inPlace) = {ov[n]} /\ Len(inPlace) = 1 + Len(more[n]) /\ inPlace # <<>>
    BY <1>2, <1>6, <2>1, InPlaceRecords, Zenon
  <2>3. shown = inPlace
    BY <1>1, <1>6, <2>2 DEF Appended, Records
  <2> QED
    BY <1>2, <1>6, <2>2, <2>3 DEF findAgentLocked
<1> QED
  BY <1>3, <1>4, <1>5, <1>6

-----------------------------------------------------------------------------
(* In every reachable state the list that GET /api/agents serves shows, under
   each name, what GET of that name finds. *)
THEOREM ListShowsWhatIsFound == Spec => []ListShowsLookup
<1>1. TypeOK /\ BaseWasRead => ListShowsLookup
  <2> SUFFICES ASSUME TypeOK, BaseWasRead, up, NEW n \in Names
               PROVE  LET found == findAgentLocked(base, over, removed, n)
                          shown == rebuildList(base, Later[base], over, removed)[n]
                      IN IF found = NoAgent THEN shown = <<>>
                         ELSE /\ found \in Range(shown)
                              /\ over[n] # NoAgent => Range(shown) = {found}
                              /\ Len(shown) <= 1 + Len(Later[base][n])
    BY DEF ListShowsLookup
  <2>1. PICK s \in SwarmConfigs : base = s.agents
    BY DEF BaseWasRead
  <2>2. /\ Later[base] \in [Names -> Seq(Agent)]
        /\ base[n] = NoAgent => Later[base][n] = <<>>
    BY <2>1, HttpAssumption
  <2>3. base \in Rosters /\ over \in Rosters /\ removed \in SUBSET Names
    BY DEF TypeOK
  <2> QED
    BY <2>2, <2>3, ListedIsFound
<1> QED
  BY <1>1, TypeCorrect, AlwaysBaseWasRead, PTL

-----------------------------------------------------------------------------
(* Which agent a request changes. *)

(* Lengths and first items of the paths that clients build. *)
LEMMA PathLengths ==
  ASSUME NEW S, NEW s \in Seq(S), s # <<>>, NEW x, NEW y
  PROVE  /\ Len(<<x>> \o s) = 1 + Len(s) /\ Len(Append(<<x>> \o s, y)) = 2 + Len(s)
         /\ Len(s) >= 1
         /\ Len(s) = 1 => (<<x>> \o s)[2] = s[1] /\ Append(<<x>> \o s, y)[2] = s[1]
OBVIOUS

LEMMA OneSegment ==
  ASSUME NEW k \in Nat, NEW l \in Nat, NEW i, NEW path, NEW u, NEW v, NEW m,
         k >= 1, i = l - 1,
         (i = 2 /\ m = "PUT") \/ (i = 1 /\ m = "DELETE"),
         (l = 1 + k /\ path = u) \/ (l = 2 + k /\ path = v),
         m = "PUT" /\ path = u => k = 1
  PROVE  k = 1
<1>1. CASE i = 2 /\ m = "PUT"
  BY <1>1
<1>2. CASE i = 1
  BY <1>2
<1> QED
  BY <1>1, <1>2

LEMMA TailOfPath ==
  ASSUME NEW S, NEW s \in Seq(S), Len(s) > 1
  PROVE  Len(Tail(s)) = Len(s) - 1 /\ Tail(s)[1] = s[2]
OBVIOUS

Changes(q) == q.op \in {"post", "prompt", "delete"}

LEMMA OthersChangeNothing ==
  /\ ~Changes(ReadOnly) /\ \A code : ~Changes(Reply(code))
  /\ \A r : ~Changes(handleActive(r))
  /\ \A r, p : ~Changes(handleModeSub(r, p))
<1>1. ~Changes(ReadOnly) /\ \A code : ~Changes(Reply(code))
  BY DEF ReadOnly, Reply, Changes
<1>2. ASSUME NEW r PROVE ~Changes(handleActive(r))
  <2>1. ~Changes([op |-> "active", mode |-> r.body])
    BY DEF Changes
  <2> QED
    BY <1>1, <2>1 DEF handleActive, Decoded
<1>3. ASSUME NEW r, NEW p PROVE ~Changes(handleModeSub(r, p))
  <2>1. ~Changes([op |-> "putmode", mode |-> p[1], body |-> r.body])
    BY DEF Changes
  <2> QED
    BY <1>1, <2>1 DEF handleModeSub, Decoded
<1> QED
  BY <1>1, <1>2, <1>3

(* What a path under /agents/ can change. *)
LEMMA SubRoutes ==
  ASSUME NEW r, NEW p, Changes(handleAgentSub(r, p))
  PROVE  /\ handleAgentSub(r, p).op # "post"
         /\ handleAgentSub(r, p).name = p[1]
         /\ \/ Len(p) = 2 /\ r.method = "PUT"
            \/ Len(p) = 1 /\ r.method = "DELETE"
<1>1. CASE p[1] = ""
  BY <1>1, OthersChangeNothing DEF handleAgentSub
<1>2. CASE p[1] # "" /\ Len(p) = 2 /\ p[2] = "prompt"
  <2>1. handleAgentSub(r, p) = handleAgentPrompt(r, p[1])
    BY <1>2 DEF handleAgentSub
  <2>2. /\ r.method = "PUT"
        /\ handleAgentSub(r, p) = [op |-> "prompt", name |-> p[1], prompt |-> r.body]
    BY <2>1, OthersChangeNothing DEF handleAgentPrompt, Decoded
  <2>3. handleAgentSub(r, p).op # "post" /\ handleAgentSub(r, p).name = p[1]
    BY <2>2
  <2> QED
    BY <1>2, <2>2, <2>3
<1>3. CASE p[1] # "" /\ ~(Len(p) = 2 /\ p[2] = "prompt")
  <2> DEFINE one == CASE r.method = "GET" -> [op |-> "get", name |-> p[1]]
                      [] r.method = "DELETE" -> [op |-> "delete", name |-> p[1]]
                      [] OTHER -> Reply(405)
  <2>a. handleAgentSub(r, p) = IF ~OneName(p) THEN Reply(404) ELSE one
    BY <1>3 DEF handleAgentSub
  <2>1. \/ handleAgentSub(r, p) \in {Reply(404), Reply(405), [op |-> "get", name |-> p[1]]}
        \/ /\ Len(p) = 1 /\ r.method = "DELETE"
           /\ handleAgentSub(r, p) = [op |-> "delete", name |-> p[1]]
    BY <2>a DEF OneName
  <2>2. ~Changes([op |-> "get", name |-> p[1]])
    BY DEF Changes
  <2>3. /\ Len(p) = 1 /\ r.method = "DELETE"
        /\ handleAgentSub(r, p) = [op |-> "delete", name |-> p[1]]
    BY <2>1, <2>2, OthersChangeNothing
  <2> QED
    BY <2>3
<1> QED
  BY <1>1, <1>2, <1>3

(* The routes make a change of an agent only of a request meant for it, and but
   for a POST only if its name has no slash. *)
LEMMA RoutedToAbout ==
  ASSUME NEW r \in HttpRequests, Changes(Handler(r))
  PROVE  /\ Handler(r).name = r.about
         /\ Handler(r).op # "post" => r.about \in Names /\ Len(Segments[r.about]) = 1
<1>1. r.path \in Seq(STRING) /\ Aimed(r)
  BY ClientAssumption
<1>2. CASE r.path = <<"agents">>
  <2>1. Handler(r) = handleAgents(r)
    BY <1>2 DEF Handler
  <2>2. ~Changes([op |-> "list"])
    BY DEF Changes
  <2>3. /\ r.method = "POST" /\ r.body # Malformed
        /\ Handler(r) = [op |-> "post", name |-> r.body.name, agent |-> r.body.agent]
    BY <2>1, <2>2, OthersChangeNothing DEF handleAgents
  <2> QED
    BY <1>1, <1>2, <2>3 DEF Aimed
<1>3. CASE r.path # <<"agents">>
  <2> DEFINE n == r.about
             p == Tail(r.path)
             s == Segments[n]
  <2>1. /\ Len(r.path) > 1 /\ Head(r.path) = "agents"
        /\ Handler(r) = handleAgentSub(r, p)
    BY <1>3, OthersChangeNothing DEF Handler
  <2>2. Len(p) = Len(r.path) - 1 /\ p[1] = r.path[2]
    BY <1>1, <2>1, TailOfPath
  <2>3. /\ Handler(r).op # "post" /\ Handler(r).name = p[1]
        /\ \/ Len(p) = 2 /\ r.method = "PUT"
           \/ Len(p) = 1 /\ r.method = "DELETE"
    BY <2>1, SubRoutes
  <2>4. /\ n \in Names /\ r.path \in {Url(n), Append(Url(n), "prompt")}
        /\ r.method = "PUT" /\ r.path = Url(n) => Len(s) = 1
    BY <1>1, <2>1, <2>3 DEF Aimed
  <2>5. s \in Seq(STRING) /\ s # <<>> /\ (Len(s) = 1 => s = <<n>>)
    <3>1. \A m \in Names : /\ Segments[m] \in Seq(STRING) /\ Segments[m] # <<>>
                           /\ Len(Segments[m]) = 1 => Segments[m] = <<m>>
      BY ClientAssumption
    <3> HIDE DEF n
    <3> QED
      BY <2>4, <3>1
  <2> HIDE DEF n, s, p
  <2>6. Len(s) \in Nat /\ Len(r.path) \in Nat /\ (Len(s) = 1 => s[1] = n)
    BY <1>1, <2>5
  <2>7. /\ Len(Url(n)) = 1 + Len(s) /\ Len(Append(Url(n), "prompt")) = 2 + Len(s)
        /\ Len(s) >= 1
        /\ Len(s) = 1 => Url(n)[2] = s[1] /\ Append(Url(n), "prompt")[2] = s[1]
    BY <2>5, PathLengths DEF Url, s
  <2>8. \/ Len(r.path) = 1 + Len(s) /\ r.path = Url(n)
        \/ Len(r.path) = 2 + Len(s) /\ r.path = Append(Url(n), "prompt")
    BY <2>4, <2>7
  <2>9. Len(s) = 1
    <3> DEFINE i == Len(p)
               k == Len(s)
               l == Len(r.path)
    <3>1. k \in Nat /\ l \in Nat /\ k >= 1 /\ i = l - 1
      BY <2>2, <2>6, <2>7
    <3>2. (i = 2 /\ r.method = "PUT") \/ (i = 1 /\ r.method = "DELETE")
      BY <2>3
    <3>3. r.method = "PUT" /\ r.path = Url(n) => k = 1
      BY <2>4
    <3>4. (l = 1 + k /\ r.path = Url(n)) \/ (l = 2 + k /\ r.path = Append(Url(n), "prompt"))
      BY <2>8
    <3> HIDE DEF i, k, l
    <3>5. k = 1
      BY <3>1, <3>2, <3>3, <3>4, OneSegment
    <3> QED
      BY <3>5 DEF k
  <2>10. r.path[2] = n
    BY <2>4, <2>6, <2>7, <2>9
  <2> QED
    BY <2>2, <2>3, <2>4, <2>9, <2>10 DEF n, s
<1> QED
  BY <1>2, <1>3

(* While the process runs, a step that changes what is listed under a name is
   the critical section of a request for that name. *)
LEMMA ChangedByRequest ==
  ASSUME TypeOK, Rebuilt, Next, up, up', NEW n \in Names, agents'[n] # agents[n]
  PROVE  \E h \in Handlers :
           /\ Serve(h) /\ pc[h] = "begin"
           /\ req[h] \in Requests
           /\ Changes(req[h]) /\ req[h].name = n
<1>1. ~Crash /\ ~MapFatal /\ ~Boot
  BY DEF Crash, MapFatal, Die, Boot
<1>2. ~EditSwarm /\ \A h \in Handlers : ~Receive(h) /\ ~PersistFails(h)
  BY DEF EditSwarm, Receive, PersistFails, memory
<1>3. PICK h \in Handlers : Serve(h)
  BY <1>1, <1>2 DEF Next
<1> QED
  BY <1>3, ChangedIsNamed DEF TypeOK, Changes

(* Whoever's request a handler is serving, if the paths of the clients are
   what their names make them, nobody changes an agent he did not name. *)
THEOREM ChangesAreMeant == Spec => OnlyNamedChanges
<1>1. TypeOK /\ Rebuilt /\ [Next]_vars =>
        [up /\ up' => \A n \in Names : agents'[n] # agents[n] =>
           \E h \in Handlers :
             pc[h] = "begin" /\ \A r \in HttpRequests : Handler(r) = req[h] => r.about = n]_vars
  BY ChangedByRequest, RoutedToAbout DEF vars
<1> QED
  BY <1>1, TypeCorrect, AlwaysRebuilt, PTL DEF Spec, OnlyNamedChanges

(* The price of splitting decoded paths at slashes: a POST may register a name
   with a slash (ValidateAgent refuses blank ones only), and while the process
   runs it stays listed, because no request that its client meant for it
   reaches RemoveAgent. *)
THEOREM SlashedStays ==
  Spec => [][up /\ up' =>
     \A n \in Names : Len(Segments[n]) > 1 /\ agents[n] # NoAgent => agents'[n] # NoAgent]_vars
<1>1. TypeOK /\ Rebuilt /\ [Next]_vars =>
        [up /\ up' => \A n \in Names :
           Len(Segments[n]) > 1 /\ agents[n] # NoAgent => agents'[n] # NoAgent]_vars
  <2> SUFFICES ASSUME TypeOK, Rebuilt, Next, up, up', NEW n \in Names,
                      Len(Segments[n]) > 1, agents[n] # NoAgent, agents'[n] # agents[n]
               PROVE  agents'[n] # NoAgent
    BY DEF vars
  <2>1. PICK h \in Handlers : /\ Serve(h) /\ pc[h] = "begin" /\ req[h] \in Requests
                              /\ Changes(req[h]) /\ req[h].name = n
    BY ChangedByRequest
  <2>2. PICK r \in HttpRequests : req[h] = Handler(r)
    BY <2>1, HttpAssumption
  <2>3. Len(Segments[n]) \in Nat
    BY ClientAssumption
  <2>4. req[h].op = "post" /\ req[h].agent \in Agent
    <3>1. Handler(r).name = r.about /\ (Handler(r).op # "post" => Len(Segments[n]) = 1)
      BY <2>1, <2>2, RoutedToAbout
    <3>2. Len(Segments[n]) # 1
      <4> DEFINE k == Len(Segments[n])
      <4>1. k \in Nat /\ k > 1
        BY <2>3
      <4> HIDE DEF k
      <4>2. k # 1
        BY <4>1
      <4> QED
        BY <4>2 DEF k
    <3>3. req[h].op = "post"
      BY <2>2, <3>1, <3>2, Zenon
    <3> QED
      BY <2>1, <3>3, RequestFields
  <2>5. UpsertAgent(h)
    BY <2>1, <2>4 DEF Serve, RemoveAgent, SetPrompt, AgentByName, Agents, SetActiveMode,
                      PutModeAgents, Handling, PersistSnapshot, MarshalAgent, MarshalEnds,
                      MarshalModes, OpenFile, WriteFile, Respond, At
  <2>6. /\ over' = [over EXCEPT ![n] = req[h].agent] /\ removed' = removed \ {n}
        /\ agents' = rebuildAgentsLocked(base, over', removed')
    BY <2>1, <2>5 DEF UpsertAgent, Answer, memory, ClearTombstone
  <2>7. over'[n] = req[h].agent /\ n \notin removed'
    BY <2>6 DEF TypeOK, Rosters
  <2> QED
    BY <2>4, <2>6, <2>7, RosterAssumption DEF rebuildAgentsLocked
<1> QED
  BY <1>1, TypeCorrect, AlwaysRebuilt, PTL DEF Spec

=============================================================================
