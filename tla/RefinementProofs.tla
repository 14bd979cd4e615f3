-------------------------- MODULE RefinementProofs --------------------------
(* Store implements Registry: every step of the handlers, of the process and *)
(* of the disk is a step of the abstract registry or changes nothing there.  *)
EXTENDS StoreProofs

(* The refinement mapping, named as Registry names its variables. *)
callOf(h) == IF Serving(h) THEN req[h] ELSE NoRequest
resOf(h) == IF Serving(h) THEN status[h] ELSE 0
call == [h \in Handlers |-> callOf(h)]
stage == [h \in Handlers |-> StageOf(h)]
res == [h \in Handlers |-> resOf(h)]

(* A status is only held between the critical section and the reply. *)
StatusClear == \A h \in Handlers : pc[h] \in {"idle", "begin"} => status[h] = 0

RefInv == TypeOK /\ Rebuilt /\ StatusClear

AgentOps == {"post", "prompt", "get", "delete"}

LEMMA OpOf ==
  ASSUME NEW r \in Requests
  PROVE  /\ r.op \in AgentOps => r \in AgentRequest
         /\ r.op \in AgentOps \cup {"list", "active", "putmode"}
BY StoreAssumption DEF Request, AgentRequest, OtherRequest, AgentOps

(* The steps of handler h change what the others show of themselves in no
   way. *)
OnlyOf(h) ==
  \A g \in Handlers \ {h} : pc'[g] = pc[g] /\ req'[g] = req[g] /\ status'[g] = status[g]

LEMMA MappedStep ==
  ASSUME NEW h \in Handlers, OnlyOf(h)
  PROVE  /\ call' = [call EXCEPT ![h] = callOf(h)']
         /\ stage' = [stage EXCEPT ![h] = StageOf(h)']
         /\ res' = [res EXCEPT ![h] = resOf(h)']
<1>1. \A g \in Handlers \ {h} : /\ callOf(g)' = callOf(g)
                                /\ StageOf(g)' = StageOf(g)
                                /\ resOf(g)' = resOf(g)
  BY DEF OnlyOf, callOf, StageOf, resOf, Serving
<1> QED
  BY <1>1 DEF call, stage, res

(* A step that shows nothing. *)
LEMMA MappedStutter ==
  ASSUME NEW h \in Handlers, OnlyOf(h), UNCHANGED <<up, agents>>,
         callOf(h)' = callOf(h), StageOf(h)' = StageOf(h), resOf(h)' = resOf(h)
  PROVE  UNCHANGED R!vars
<1>1. UNCHANGED <<call, stage, res>>
  BY MappedStep DEF call, stage, res
<1> QED
  BY <1>1 DEF R!vars, call, stage, res, callOf, resOf

LEMMA InitMapped == Init => R!Init
BY DEF Init, R!Init, AllHandlers, Serving, StageOf, EmptyRoster, R!EmptyRoster

LEMMA Moved ==
  ASSUME NEW h \in Handlers, OnlyOf(h), up, NEW from, StageOf(h) \in from,
         NEW to, NEW code, StageOf(h)' = to, resOf(h)' = code
  PROVE  R!Moves(h, from, to, code)
<1>1. stage[h] \in from
  BY DEF stage
<1> QED
  BY <1>1, MappedStep DEF R!Moves, stage, res, resOf

(* What stays of the call of h while it is being served. *)
LEMMA CallKept ==
  ASSUME NEW h \in Handlers, OnlyOf(h), callOf(h)' = callOf(h)
  PROVE  UNCHANGED [g \in Handlers |-> IF Serving(g) THEN req[g] ELSE NoRequest]
BY MappedStep DEF call, callOf

LEMMA MappedCall ==
  ASSUME RefInv, NEW h \in Handlers, Receive(h)
  PROVE  R!Next \/ UNCHANGED R!vars
<1>1. /\ pc[h] = "idle" /\ up /\ pc'[h] = "begin" /\ req'[h] \in Requests
      /\ status[h] = 0 /\ UNCHANGED <<up, agents, status>> /\ OnlyOf(h)
  BY DEF Receive, At, Goto, RefInv, StatusClear, TypeOK, OnlyOf, memory
<1>2. CASE req'[h].op \in AgentOps
  <2>1. /\ callOf(h)' = req'[h] /\ StageOf(h)' = "called" /\ resOf(h)' = 0
        /\ StageOf(h) = "idle"
    BY <1>1, <1>2 DEF callOf, StageOf, resOf, Serving, AgentOps
  <2>2. req'[h] \in AgentRequest
    BY <1>1, <1>2, OpOf
  <2>3. R!Moves(h, {"idle"}, "called", 0)
    BY <1>1, <2>1, Moved
  <2>4. R!Call(h)
    BY <1>1, <2>1, <2>2, <2>3, MappedStep DEF R!Call, call, callOf
  <2> QED
    BY <2>4 DEF R!Next
<1>3. CASE req'[h].op \notin AgentOps
  <2>1. ~Serving(h) /\ ~Serving(h)'
    BY <1>1, <1>3 DEF Serving, AgentOps
  <2> QED
    BY <1>1, <2>1, MappedStutter DEF callOf, StageOf, resOf
<1> QED
  BY <1>2, <1>3

-----------------------------------------------------------------------------
(* The critical sections of the agent requests. *)

Calling(h) == up /\ pc[h] = "begin" /\ req[h].op \in AgentOps

LEMMA CalledMapped ==
  ASSUME NEW h \in Handlers, Calling(h)
  PROVE  /\ call[h] = req[h] /\ stage[h] = "called" /\ StageOf(h) = "called"
         /\ callOf(h) = req[h]
BY DEF Calling, call, callOf, stage, StageOf, Serving, AgentOps

(* What the abstract registry finds under the name of the request is what the
   handler finds. *)
LEMMA KnownMapped ==
  ASSUME RefInv, NEW h \in Handlers, Calling(h)
  PROVE  /\ req[h].name \in Names
         /\ R!Known(h) <=> findAgentLocked(base, over, removed, req[h].name) # NoAgent
         /\ agents[req[h].name] = findAgentLocked(base, over, removed, req[h].name)
<1>1. req[h] \in Requests /\ req[h].name \in Names
  BY RequestFields DEF RefInv, TypeOK, Calling, AgentOps
<1>2. agents[req[h].name] = findAgentLocked(base, over, removed, req[h].name)
  BY <1>1, EffectiveRoster DEF RefInv, TypeOK, Rebuilt, Calling
<1> QED
  BY <1>1, <1>2, CalledMapped DEF R!Known, call, callOf

LEMMA ReplyMapped ==
  ASSUME RefInv, NEW h \in Handlers, Calling(h), NEW code, Answer(h, code)
  PROVE  R!Reply(h, code)
<1>1. /\ pc'[h] = "reply" /\ status'[h] = code /\ UNCHANGED <<up, agents, req>> /\ OnlyOf(h)
  BY DEF Answer, Goto, RefInv, TypeOK, OnlyOf, memory
<1>2. /\ StageOf(h)' = "replied" /\ resOf(h)' = code /\ callOf(h)' = callOf(h)
      /\ StageOf(h) = "called"
  BY <1>1 DEF StageOf, resOf, callOf, Serving, Calling, AgentOps
<1>3. R!Moves(h, {"called"}, "replied", code)
  BY <1>1, <1>2, Moved DEF Calling
<1> QED
  BY <1>1, <1>2, <1>3, CallKept DEF R!Reply

LEMMA EffectMapped ==
  ASSUME RefInv, NEW h \in Handlers, Calling(h), NEW code, UnlockToPersist(h, code),
         NEW n, NEW entry, agents' = [agents EXCEPT ![n] = entry]
  PROVE  R!Effect(h, n, entry, code)
<1>1. /\ pc'[h] = "snapshot" /\ status'[h] = code /\ UNCHANGED <<up, req>> /\ OnlyOf(h)
  BY DEF UnlockToPersist, Goto, RefInv, TypeOK, OnlyOf
<1>2. /\ StageOf(h)' = "effected" /\ resOf(h)' = code /\ callOf(h)' = callOf(h)
      /\ StageOf(h) = "called"
  BY <1>1 DEF StageOf, resOf, callOf, Serving, Calling, AgentOps
<1>3. R!Moves(h, {"called"}, "effected", code)
  BY <1>1, <1>2, Moved DEF Calling
<1> QED
  BY <1>1, <1>2, <1>3, CallKept DEF R!Effect

LEMMA UpsertMapped ==
  ASSUME RefInv, NEW h \in Handlers, UpsertAgent(h)
  PROVE  R!Register(h)
<1> DEFINE n == req[h].name
           a == req[h].agent
           code == IF findAgentLocked(base, over, removed, n) = NoAgent THEN 201 ELSE 200
<1>1. Calling(h) /\ req[h].op = "post" /\ call[h] = req[h] /\ n \in Names /\ a \in Agent
  <2>1. Calling(h) /\ req[h].op = "post"
    BY DEF UpsertAgent, Handling, Calling, AgentOps
  <2> QED
    BY <2>1, CalledMapped, KnownMapped, RequestFields DEF RefInv, TypeOK, Calling
<1>2. R!Called(h, "post")
  BY <1>1, CalledMapped DEF R!Called, Calling, stage, call, callOf
<1>3. R!ValidateAgent(n, a) <=> ValidateAgent(n, a)
  BY DEF R!ValidateAgent, ValidateAgent
<1>4. CASE ~ValidateAgent(n, a) /\ Answer(h, 400)
  <2>1. R!Reply(h, 400)
    BY <1>1, <1>4, ReplyMapped
  <2> QED
    BY <1>1, <1>2, <1>3, <1>4, <2>1 DEF R!Register, call, callOf
<1>5. CASE ValidateAgent(n, a)
  <2>1. /\ removed' = removed \ {n} /\ over' = [over EXCEPT ![n] = a]
        /\ agents' = rebuildAgentsLocked(base, over', removed')
        /\ UnlockToPersist(h, code)
    BY <1>5 DEF UpsertAgent, ClearTombstone
  <2>2. agents' = [agents EXCEPT ![n] = a]
    <3>1. agents = rebuildAgentsLocked(base, over, removed) /\ over \in Rosters
      BY <1>1 DEF RefInv, Rebuilt, Calling, TypeOK
    <3>2. a # NoAgent
      BY <1>1, RosterAssumption
    <3> QED
      BY <1>1, <2>1, <3>1, <3>2 DEF rebuildAgentsLocked, Rosters
  <2>3. R!Effect(h, n, a, code)
    BY <1>1, <2>1, <2>2, EffectMapped
  <2>4. code = IF R!Known(h) THEN 200 ELSE 201
    BY <1>1, KnownMapped
  <2> QED
    BY <1>1, <1>2, <1>3, <1>5, <2>3, <2>4 DEF R!Register, call, callOf
<1> QED
  BY <1>4, <1>5 DEF UpsertAgent

LEMMA RemoveMapped ==
  ASSUME RefInv, NEW h \in Handlers, RemoveAgent(h)
  PROVE  R!Withdraw(h)
<1> DEFINE n == req[h].name
           found == findAgentLocked(base, over, removed, n)
<1>1. Calling(h) /\ req[h].op = "delete" /\ call[h] = req[h] /\ n \in Names
  <2>1. Calling(h) /\ req[h].op = "delete"
    BY DEF RemoveAgent, Handling, Calling, AgentOps
  <2> QED
    BY <2>1, CalledMapped, KnownMapped
<1>2. R!Called(h, "delete") /\ (R!Known(h) <=> found # NoAgent)
  BY <1>1, CalledMapped, KnownMapped DEF R!Called, Calling, stage, call, callOf
<1>3. CASE found = NoAgent
  <2>1. R!Reply(h, 404)
    BY <1>1, <1>3, ReplyMapped DEF RemoveAgent
  <2> QED
    BY <1>2, <1>3, <2>1 DEF R!Withdraw
<1>4. CASE found # NoAgent
  <2>1. /\ over' = [over EXCEPT ![n] = NoAgent]
        /\ removed' = IF base[n] # NoAgent THEN removed \cup {n} ELSE removed
        /\ agents' = rebuildAgentsLocked(base, over', removed')
        /\ UnlockToPersist(h, 200)
    BY <1>4 DEF RemoveAgent, DropOverride, Tombstone
  <2>2. agents' = [agents EXCEPT ![n] = NoAgent]
    <3>1. agents = rebuildAgentsLocked(base, over, removed) /\ over \in Rosters
      BY <1>1 DEF RefInv, Rebuilt, Calling, TypeOK
    <3> QED
      BY <1>1, <2>1, <3>1 DEF rebuildAgentsLocked, Rosters
  <2>3. R!Effect(h, n, NoAgent, 200)
    BY <1>1, <2>1, <2>2, EffectMapped
  <2> QED
    BY <1>1, <1>2, <1>4, <2>3 DEF R!Withdraw, call, callOf
<1> QED
  BY <1>3, <1>4

LEMMA PromptMapped ==
  ASSUME RefInv, NEW h \in Handlers, SetPrompt(h)
  PROVE  R!Amend(h)
<1> DEFINE n == req[h].name
           cur == findAgentLocked(base, over, removed, n)
           new == [cur EXCEPT !.prompt = req[h].prompt]
<1>1. Calling(h) /\ req[h].op = "prompt" /\ call[h] = req[h] /\ n \in Names
  <2>1. Calling(h) /\ req[h].op = "prompt"
    BY DEF SetPrompt, Handling, Calling, AgentOps
  <2> QED
    BY <2>1, CalledMapped, KnownMapped
<1>2. R!Called(h, "prompt") /\ (R!Known(h) <=> cur # NoAgent) /\ agents[n] = cur
  BY <1>1, CalledMapped, KnownMapped DEF R!Called, Calling, stage, call, callOf
<1>3. CASE req[h].prompt = EmptyPrompt
  <2>1. R!Reply(h, 400)
    BY <1>1, <1>3, ReplyMapped DEF SetPrompt
  <2> QED
    BY <1>1, <1>2, <1>3, <2>1 DEF R!Amend, call, callOf
<1>4. CASE req[h].prompt # EmptyPrompt /\ cur = NoAgent
  <2>1. R!Reply(h, 404)
    BY <1>1, <1>4, ReplyMapped DEF SetPrompt
  <2> QED
    BY <1>1, <1>2, <1>4, <2>1 DEF R!Amend, call, callOf
<1>5. CASE req[h].prompt # EmptyPrompt /\ cur # NoAgent
  <2>1. /\ over' = [over EXCEPT ![n] = new] /\ removed' = removed
        /\ agents' = rebuildAgentsLocked(base, over', removed)
        /\ UnlockToPersist(h, 200)
    BY <1>5 DEF SetPrompt
  <2>2. new # NoAgent
    <3>1. cur \in Agent /\ req[h].prompt \in Prompts
      <4>1. cur \in Agent \cup {NoAgent}
        BY <1>1, EffectiveRoster DEF RefInv, TypeOK
      <4>2. req[h] \in Requests
        BY <1>1 DEF RefInv, TypeOK, Calling
      <4> QED
        BY <1>1, <1>5, <4>1, <4>2, RequestFields
    <3> HIDE DEF cur
    <3> QED
      BY <3>1, RosterAssumption DEF Agent
  <2>3. agents' = [agents EXCEPT ![n] = new]
    <3>1. agents = rebuildAgentsLocked(base, over, removed) /\ over \in Rosters
      BY <1>1 DEF RefInv, Rebuilt, Calling, TypeOK
    <3>2. n \notin removed
      BY <1>5 DEF findAgentLocked
    <3> HIDE DEF new
    <3> QED
      BY <1>1, <2>1, <2>2, <3>1, <3>2 DEF rebuildAgentsLocked, Rosters
  <2>4. R!Effect(h, n, new, 200)
    <3> HIDE DEF new
    <3> QED
      BY <1>1, <2>1, <2>3, EffectMapped
  <2> QED
    BY <1>1, <1>2, <1>5, <2>4 DEF R!Amend, call, callOf
<1> QED
  BY <1>3, <1>4, <1>5

LEMMA LookMapped ==
  ASSUME RefInv, NEW h \in Handlers, AgentByName(h)
  PROVE  R!Look(h)
<1>1. Calling(h) /\ req[h].op = "get"
  BY DEF AgentByName, Handling, Calling, AgentOps
<1>2. R!Called(h, "get")
  BY <1>1, CalledMapped DEF R!Called, Calling, stage, call, callOf
<1>3. CASE R!Known(h)
  <2>1. Answer(h, 200)
    BY <1>1, <1>3, KnownMapped DEF AgentByName
  <2> QED
    BY <1>1, <1>2, <1>3, <2>1, ReplyMapped DEF R!Look
<1>4. CASE ~R!Known(h)
  <2>1. Answer(h, 404)
    BY <1>1, <1>4, KnownMapped DEF AgentByName
  <2> QED
    BY <1>1, <1>2, <1>4, <2>1, ReplyMapped DEF R!Look
<1> QED
  BY <1>3, <1>4

-----------------------------------------------------------------------------
(* The other requests are not seen. *)

LEMMA OtherMapped ==
  ASSUME NEW h \in Handlers, OnlyOf(h), UNCHANGED <<up, agents>>, req[h].op \notin AgentOps,
         pc'[h] = "idle" \/ req'[h] = req[h]
  PROVE  UNCHANGED R!vars
<1>1. ~Serving(h) /\ ~Serving(h)'
  BY DEF Serving, AgentOps
<1> QED
  BY <1>1, MappedStutter DEF callOf, StageOf, resOf

LEMMA SettingsMapped ==
  ASSUME RefInv, NEW h \in Handlers, Agents(h) \/ SetActiveMode(h) \/ PutModeAgents(h)
  PROVE  UNCHANGED R!vars
<1>1. req[h].op \notin AgentOps
  BY DEF Agents, SetActiveMode, PutModeAgents, Handling, AgentOps
<1> DEFINE Quietly == /\ OnlyOf(h) /\ UNCHANGED <<up, agents>>
                      /\ pc'[h] = "idle" \/ req'[h] = req[h]
<1>2. ASSUME NEW code, Answer(h, code) PROVE Quietly
  BY <1>2 DEF Answer, Goto, RefInv, TypeOK, OnlyOf, memory
<1>3. ASSUME NEW code, UnlockToPersist(h, code), UNCHANGED agents PROVE Quietly
  BY <1>3 DEF UnlockToPersist, Goto, RefInv, TypeOK, OnlyOf
<1>4. ASSUME Drop(h), UNCHANGED <<disk, up, memory>> PROVE Quietly
  BY <1>4 DEF Drop, Goto, RefInv, TypeOK, OnlyOf, memory
<1>5. Quietly
  <2>1. CASE Agents(h)
    BY <1>2, <2>1 DEF Agents
  <2>2. CASE SetActiveMode(h)
    <3>1. \/ Answer(h, 400) \/ Answer(h, 404)
          \/ UnlockToPersist(h, 200) /\ UNCHANGED agents
      BY <2>2 DEF SetActiveMode
    <3> QED
      BY <1>2, <1>3, <3>1
  <2>3. CASE PutModeAgents(h)
    <3>1. \/ Answer(h, 404)
          \/ UnlockToPersist(h, 200) /\ UNCHANGED agents
          \/ Drop(h) /\ UNCHANGED <<disk, up, memory>>
      BY <2>3 DEF PutModeAgents
    <3> HIDE DEF Quietly
    <3> QED
      BY <1>2, <1>3, <1>4, <3>1
  <2> QED
    BY <2>1, <2>2, <2>3
<1> QED
  BY <1>1, <1>5, OtherMapped

-----------------------------------------------------------------------------
(* Persisting, until the reply. *)

Persisting(h) == up /\ pc[h] \in {"snapshot", "agents", "modes", "open", "write"}

(* Between the critical section and the reply nothing is seen. *)
LEMMA MarshalMapped ==
  ASSUME RefInv, NEW h \in Handlers, Persisting(h), OnlyOf(h),
         UNCHANGED <<up, agents, req, status>>,
         pc'[h] \in {"snapshot", "agents", "modes", "open", "write"}
  PROVE  UNCHANGED R!vars
<1>1. callOf(h)' = callOf(h) /\ StageOf(h)' = StageOf(h) /\ resOf(h)' = resOf(h)
  BY DEF callOf, StageOf, resOf, Serving, Persisting
<1> QED
  BY <1>1, MappedStutter

(* The end of the write is the abstract Store, with the status the request
   was given or the one of a failed write. *)
LEMMA StoredMapped ==
  ASSUME RefInv, NEW h \in Handlers, Persisting(h), OnlyOf(h), UNCHANGED <<up, agents, req>>,
         pc'[h] = "reply",
         NEW code \in {status[h], FailureStatus(req[h].op, status[h])}, status'[h] = code
  PROVE  R!Next \/ UNCHANGED R!vars
<1>1. CASE req[h].op \in AgentOps
  <2>1. /\ StageOf(h) = "effected" /\ StageOf(h)' = "replied"
        /\ resOf(h) = status[h] /\ resOf(h)' = code
        /\ callOf(h) = req[h] /\ callOf(h)' = callOf(h)
    BY <1>1 DEF StageOf, resOf, callOf, Serving, Persisting, AgentOps
  <2>2. R!Moves(h, {"effected"}, "replied", code)
    <3>1. up
      BY DEF Persisting
    <3> QED
      BY <2>1, <3>1, Moved
  <2>3. call[h] = req[h] /\ res[h] = status[h] /\ stage[h] = "effected"
    BY <2>1 DEF call, res, stage
  <2>4. code \in {res[h], CASE call[h].op = "post" -> 400 [] call[h].op = "delete" -> 500
                            [] OTHER -> res[h]}
    BY <1>1, <2>3 DEF FailureStatus, AgentOps
  <2>5. R!Store(h)
    <3>1. UNCHANGED [g \in Handlers |-> IF Serving(g) THEN req[g] ELSE NoRequest]
      BY <2>1, CallKept
    <3> QED
      BY <2>2, <2>3, <2>4, <3>1 DEF R!Store, call, callOf, res, resOf, stage
  <2> QED
    BY <2>5 DEF R!Next
<1>2. CASE req[h].op \notin AgentOps
  BY <1>2, OtherMapped
<1> QED
  BY <1>1, <1>2

(* The handler is gone, after its reply or by a panic while marshalling. *)
LEMMA DropMapped ==
  ASSUME RefInv, NEW h \in Handlers, up,
         pc[h] \in {"snapshot", "agents", "modes", "open", "write", "reply"},
         Drop(h), UNCHANGED <<up, memory>>
  PROVE  R!Next \/ UNCHANGED R!vars
<1>1. pc'[h] = "idle" /\ OnlyOf(h) /\ UNCHANGED agents /\ up
  BY DEF Drop, Goto, RefInv, TypeOK, OnlyOf, memory
<1>2. CASE req[h].op \in AgentOps
  <2>1. /\ StageOf(h) \in {"effected", "replied"} /\ StageOf(h)' = "idle"
        /\ resOf(h)' = 0 /\ callOf(h)' = NoRequest
    BY <1>1, <1>2 DEF StageOf, resOf, callOf, Serving, AgentOps
  <2>2. R!Moves(h, {"effected", "replied"}, "idle", 0)
    BY <1>1, <2>1, Moved
  <2>3. R!Finish(h)
    BY <1>1, <2>1, <2>2, MappedStep DEF R!Finish, call, callOf
  <2> QED
    BY <2>3 DEF R!Next
<1>3. CASE req[h].op \notin AgentOps
  BY <1>1, <1>3, OtherMapped
<1> QED
  BY <1>2, <1>3

LEMMA PersistMapped ==
  ASSUME RefInv, NEW h \in Handlers,
         \/ PersistSnapshot(h) \/ MarshalAgent(h) \/ MarshalEnds(h) \/ MarshalModes(h)
         \/ OpenFile(h) \/ WriteFile(h) \/ PersistFails(h) \/ Respond(h)
  PROVE  R!Next \/ UNCHANGED R!vars
<1>1. CASE PersistSnapshot(h) \/ MarshalAgent(h) \/ MarshalModes(h) \/ OpenFile(h)
  <2>1. /\ Persisting(h) /\ OnlyOf(h) /\ UNCHANGED <<up, agents, req, status>>
        /\ pc'[h] \in {"snapshot", "agents", "modes", "open", "write"}
    BY <1>1 DEF PersistSnapshot, MarshalAgent, MarshalModes, OpenFile, At, Goto, Persisting,
                OnlyOf, RefInv, TypeOK, memory
  <2> QED
    BY <2>1, MarshalMapped
<1>2. CASE MarshalEnds(h)
  <2>1. Persisting(h)
    BY <1>2 DEF MarshalEnds, At, Persisting
  <2>2. CASE Drop(h) /\ UNCHANGED <<disk, up, mu, memory>>
    <3>1. Drop(h) /\ UNCHANGED <<up, memory>>
      BY <2>2
    <3> QED
      BY <2>1, <3>1, DropMapped DEF Persisting
  <2>3. CASE Goto(h, "modes") /\ UNCHANGED <<disk, up, mu, memory, req, status, snap, unread>>
    <3>1. /\ OnlyOf(h) /\ UNCHANGED <<up, agents, req, status>> /\ pc'[h] = "modes"
      BY <2>3 DEF Goto, OnlyOf, RefInv, TypeOK, memory
    <3> QED
      BY <2>1, <3>1, MarshalMapped
  <2> QED
    BY <1>2, <2>2, <2>3 DEF MarshalEnds
<1>3. CASE WriteFile(h)
  <2>1. /\ Persisting(h) /\ OnlyOf(h) /\ UNCHANGED <<up, agents, req>> /\ pc'[h] = "reply"
        /\ status'[h] = status[h]
    BY <1>3 DEF WriteFile, At, Goto, Persisting, OnlyOf, RefInv, TypeOK, memory
  <2> QED
    BY <2>1, StoredMapped
<1>4. CASE PersistFails(h)
  <2>1. /\ Persisting(h) /\ OnlyOf(h) /\ UNCHANGED <<up, agents, req>> /\ pc'[h] = "reply"
        /\ status'[h] = FailureStatus(req[h].op, status[h])
    BY <1>4 DEF PersistFails, At, Goto, Persisting, OnlyOf, RefInv, TypeOK, memory
  <2> QED
    BY <2>1, StoredMapped
<1>5. CASE Respond(h)
  BY <1>5, DropMapped DEF Respond, At
<1> QED
  BY <1>1, <1>2, <1>3, <1>4, <1>5

-----------------------------------------------------------------------------
(* The process. *)

LEMMA ProcessMapped ==
  ASSUME RefInv, Crash \/ MapFatal \/ Boot \/ EditSwarm \/ UNCHANGED vars
  PROVE  R!Next \/ UNCHANGED R!vars
<1>1. CASE Crash \/ MapFatal
  <2>1. Die
    BY <1>1 DEF Crash, MapFatal
  <2>2. R!Halt
    BY <2>1 DEF Die, R!Halt, AllHandlers, Serving, StageOf, EmptyRoster, R!EmptyRoster
  <2> QED
    BY <2>2 DEF R!Next
<1>2. CASE Boot
  <2>1. agents' \in Rosters
    <3>1. TypeOK'
      BY <1>2, TypedProcess DEF RefInv
    <3> QED
      BY <3>1 DEF TypeOK
  <2>2. R!Resume
    BY <1>2, <2>1 DEF Boot, R!Resume, work, Serving, StageOf, Rosters, R!Rosters, Agent, R!Agent
  <2> QED
    BY <2>2 DEF R!Next
<1>3. CASE EditSwarm \/ UNCHANGED vars
  BY <1>3 DEF EditSwarm, vars, memory, work, R!vars, Serving, StageOf
<1> QED
  BY <1>1, <1>2, <1>3

LEMMA StepMapped ==
  ASSUME RefInv, [Next]_vars
  PROVE  [R!Next]_R!vars
<1>1. ASSUME NEW h \in Handlers, Receive(h) PROVE R!Next \/ UNCHANGED R!vars
  BY <1>1, MappedCall
<1>2. ASSUME NEW h \in Handlers, Serve(h) \/ PersistFails(h)
      PROVE  R!Next \/ UNCHANGED R!vars
  <2>1. CASE UpsertAgent(h) \/ RemoveAgent(h) \/ SetPrompt(h) \/ AgentByName(h)
    BY <2>1, UpsertMapped, RemoveMapped, PromptMapped, LookMapped DEF R!Next
  <2> QED
    BY <1>2, <2>1, SettingsMapped, PersistMapped DEF Serve
<1>3. CASE Crash \/ MapFatal \/ Boot \/ EditSwarm \/ UNCHANGED vars
  BY <1>3, ProcessMapped
<1> QED
  BY <1>1, <1>2, <1>3 DEF Next

-----------------------------------------------------------------------------

LEMMA ClearStep ==
  ASSUME TypeOK, StatusClear, [Next]_vars
  PROVE  StatusClear'
<1>1. ASSUME NEW h \in Handlers, Receive(h) PROVE StatusClear'
  BY <1>1 DEF Receive, At, Goto, TypeOK, StatusClear
<1>2. ASSUME NEW h \in Handlers, NEW code, Answer(h, code) \/ UnlockToPersist(h, code)
      PROVE  StatusClear'
  BY <1>2 DEF Answer, UnlockToPersist, Goto, TypeOK, StatusClear
<1>3. ASSUME NEW h \in Handlers, Drop(h) PROVE StatusClear'
  BY <1>3 DEF Drop, Goto, TypeOK, StatusClear
<1>4. ASSUME NEW h \in Handlers, Serve(h) \/ PersistFails(h) PROVE StatusClear'
  <2>1. CASE \/ UpsertAgent(h) \/ RemoveAgent(h) \/ SetPrompt(h) \/ AgentByName(h)
             \/ Agents(h) \/ SetActiveMode(h) \/ PutModeAgents(h)
    <3>1. (\E code : Answer(h, code) \/ UnlockToPersist(h, code)) \/ Drop(h)
      <4>1. CASE UpsertAgent(h)
        BY <4>1 DEF UpsertAgent
      <4>2. CASE RemoveAgent(h)
        BY <4>2 DEF RemoveAgent
      <4>3. CASE SetPrompt(h)
        BY <4>3 DEF SetPrompt
      <4>4. CASE AgentByName(h) \/ Agents(h)
        BY <4>4 DEF AgentByName, Agents
      <4>5. CASE SetActiveMode(h)
        BY <4>5 DEF SetActiveMode
      <4>6. CASE PutModeAgents(h)
        BY <4>6 DEF PutModeAgents
      <4> QED
        BY <2>1, <4>1, <4>2, <4>3, <4>4, <4>5, <4>6
    <3> QED
      BY <1>2, <1>3, <3>1
  <2>2. CASE \/ PersistSnapshot(h) \/ MarshalAgent(h) \/ MarshalModes(h) \/ OpenFile(h)
             \/ WriteFile(h) \/ PersistFails(h)
    BY <2>2 DEF PersistSnapshot, MarshalAgent, MarshalModes, OpenFile, WriteFile, PersistFails,
                At, Goto, TypeOK, StatusClear
  <2>3. CASE MarshalEnds(h) \/ Respond(h)
    BY <1>3, <2>3 DEF MarshalEnds, Respond, At, Goto, TypeOK, StatusClear
  <2> QED
    BY <1>4, <2>1, <2>2, <2>3 DEF Serve
<1>5. CASE Crash \/ MapFatal
  BY <1>5 DEF Crash, MapFatal, Die, AllHandlers, StatusClear
<1>6. CASE Boot \/ EditSwarm \/ UNCHANGED vars
  BY <1>6 DEF Boot, EditSwarm, vars, work, StatusClear
<1> QED
  BY <1>1, <1>4, <1>5, <1>6 DEF Next

LEMMA AlwaysClear == Spec => []StatusClear
<1>1. Init => StatusClear
  BY DEF Init, AllHandlers, StatusClear
<1>2. TypeOK /\ StatusClear /\ [Next]_vars => StatusClear'
  BY ClearStep
<1> QED
  BY <1>1, <1>2, TypeCorrect, PTL DEF Spec

(* For every set of names, handlers and requests: the requests on agents, the
   failing and racing writes, the kills and the restarts behave towards the
   clients as the atomic registry of module Registry. *)
THEOREM StoreImplementsRegistry == Spec => ImplementsRegistry
<1>1. TypeOK /\ Rebuilt /\ StatusClear /\ [Next]_vars => [R!Next]_R!vars
  BY StepMapped DEF RefInv
<1> QED
  BY <1>1, InitMapped, TypeCorrect, AlwaysRebuilt, AlwaysClear, PTL
     DEF Spec, ImplementsRegistry, R!Spec

=============================================================================
