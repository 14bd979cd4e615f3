----------------------------- MODULE StoreProofs -----------------------------
(* Safety of Store for every set of names, handlers and requests. *)
EXTENDS Store, TLAPS

(* What the fields of a request are, by its operation. *)
LEMMA RequestFields ==
  ASSUME NEW r \in Requests
  PROVE  /\ r.op \in {"post", "prompt", "get", "delete"} => r.name \in Names
         /\ r.op = "post" => r.agent \in Agent
         /\ r.op = "prompt" => r.prompt \in Prompts
         /\ r.op = "active" => r.mode \in ModeNames
         /\ r.op = "putmode" => r.mode \in ModeNames /\ r.body \in ModeObjects
BY StoreAssumption DEF Request, AgentRequest, OtherRequest

(* The two ways of reading the effective roster return agents, and agree. *)
LEMMA EffectiveRoster ==
  ASSUME NEW bs \in Rosters, NEW ov \in Rosters, NEW rem \in SUBSET Names
  PROVE  /\ rebuildAgentsLocked(bs, ov, rem) \in Rosters
         /\ \A n \in Names : findAgentLocked(bs, ov, rem, n) \in Agent \cup {NoAgent}
         /\ \A n \in Names : rebuildAgentsLocked(bs, ov, rem)[n] = findAgentLocked(bs, ov, rem, n)
BY DEF rebuildAgentsLocked, findAgentLocked, Rosters

LEMMA EmptyRosterType == EmptyRoster \in Rosters
BY DEF EmptyRoster, Rosters

LEMMA NoModesType == NoModes \in [KnownModes -> JsonModes]
BY DEF NoModes, JsonModes

LEMMA EmptyPayloadType == EmptyPayload \in Payload
BY EmptyRosterType, NoModesType, StoreAssumption DEF EmptyPayload, Payload

(* What Reload takes from the file is well typed whatever the file holds. *)
LEMMA SavedTypes ==
  ASSUME NEW f
  PROVE  /\ SavedOver(f) \in Rosters
         /\ SavedRemoved(f) \in SUBSET Names
         /\ SavedModes(f) \in [KnownModes -> JsonModes]
         /\ SavedActive(f) \in ModeNames
BY EmptyRosterType, NoModesType, StoreAssumption
   DEF SavedOver, SavedRemoved, SavedModes, SavedActive, Payload

LEMMA SwarmTypes ==
  ASSUME NEW d \in SwarmConfigs
  PROVE  /\ d.agents \in Rosters
         /\ d.modes \in [KnownModes -> JsonModes]
         /\ d.default_mode \in ModeNames
BY StoreAssumption DEF SwarmDoc

(* PutModeAgents leaves a mode configuration, whatever was there. *)
LEMMA ModeTypes ==
  ASSUME NEW c \in ModeConfigs, NEW body \in ModeObjects
  PROVE  /\ ModeObject(c) \in ModeConfigs
         /\ Overwrite(ModeObject(c), body) \in ModeConfigs
         /\ Encode(c) \in JsonModes
<1>1. EmptyObject \in ModeObjects
  BY DEF EmptyObject, ModeObjects
<1>2. ModeObject(c) \in ModeObjects \cup {NilMap}
  BY <1>1 DEF ModeObject
<1>3. Overwrite(ModeObject(c), body) \in ModeObjects \cup {NilMap}
  BY <1>2 DEF Overwrite, ModeObjects
<1>4. Encode(c) \in JsonModes
  BY DEF Encode, ModeConfigs, JsonModes
<1> QED
  BY <1>2, <1>3, <1>4 DEF ModeConfigs, JsonModes

-----------------------------------------------------------------------------
(* Type correctness. *)

LEMMA InitTyped == Init => TypeOK
<1> SUFFICES ASSUME Init PROVE TypeOK
  OBVIOUS
<1>1. /\ base \in Rosters /\ over \in Rosters /\ agents \in Rosters
      /\ removed \in SUBSET Names
      /\ modesConfig \in [KnownModes -> ModeConfigs]
      /\ activeMode \in ModeNames
  BY EmptyRosterType, NoModesType, StoreAssumption DEF Init, ModeConfigs
<1>2. /\ pc \in [Handlers -> Steps]
      /\ req \in [Handlers -> Requests \cup {NoRequest}]
      /\ \A h \in Handlers : pc[h] # "idle" => req[h] \in Requests
      /\ status \in [Handlers -> Nat]
  BY DEF Init, AllHandlers, Steps
<1>3. /\ snap \in [Handlers -> Payload]
      /\ keys \in [Handlers -> SUBSET Names]
      /\ unread \in [Handlers -> SUBSET Names]
  BY EmptyPayloadType DEF Init, AllHandlers
<1> QED
  BY <1>1, <1>2, <1>3 DEF Init, TypeOK

(* A step of a handler that leaves the disk and the roster alone. *)
LEMMA TypedReply ==
  ASSUME TypeOK, NEW h \in Handlers, NEW code \in Nat, pc[h] = "begin", Answer(h, code)
  PROVE  TypeOK'
BY DEF TypeOK, Answer, Goto, Steps, disk, memory

LEMMA TypedDrop ==
  ASSUME TypeOK, NEW h \in Handlers, Drop(h), UNCHANGED <<disk, up, memory>>,
         mu' \in {"free", "leaked"}
  PROVE  TypeOK'
BY EmptyPayloadType DEF TypeOK, Drop, Goto, Steps, disk, memory

(* The critical sections: whatever they put in the maps has their types. *)
LEMMA TypedMutation ==
  ASSUME TypeOK, NEW h \in Handlers, NEW code \in Nat, pc[h] = "begin",
         UnlockToPersist(h, code),
         over' \in Rosters, removed' \in SUBSET Names,
         agents' \in Rosters,
         modesConfig' \in [KnownModes -> ModeConfigs], activeMode' \in ModeNames
  PROVE  TypeOK'
BY DEF TypeOK, UnlockToPersist, Goto, Steps, disk

LEMMA TypedUpsert ==
  ASSUME TypeOK, NEW h \in Handlers, UpsertAgent(h)
  PROVE  TypeOK'
<1> DEFINE n == req[h].name
           a == req[h].agent
<1>1. pc[h] = "begin" /\ req[h] \in Requests /\ n \in Names /\ a \in Agent
  BY RequestFields DEF UpsertAgent, Handling, TypeOK
<1>2. CASE ~ValidateAgent(n, a) /\ Answer(h, 400)
  BY <1>1, <1>2, TypedReply
<1>3. CASE ValidateAgent(n, a) /\ ~(~ValidateAgent(n, a) /\ Answer(h, 400))
  <2>1. over' \in Rosters /\ removed' \in SUBSET Names
    BY <1>1, <1>3 DEF UpsertAgent, TypeOK, Rosters, ClearTombstone
  <2>2. agents' \in Rosters
    BY <1>3, <2>1, EffectiveRoster DEF UpsertAgent, TypeOK
  <2>3. \E code \in Nat : UnlockToPersist(h, code)
    BY <1>3 DEF UpsertAgent
  <2> QED
    BY <1>1, <1>3, <2>1, <2>2, <2>3, TypedMutation DEF UpsertAgent, TypeOK
<1> QED
  BY <1>2, <1>3 DEF UpsertAgent

LEMMA TypedRemove ==
  ASSUME TypeOK, NEW h \in Handlers, RemoveAgent(h)
  PROVE  TypeOK'
<1> DEFINE n == req[h].name
           found == findAgentLocked(base, over, removed, n)
<1>1. pc[h] = "begin" /\ req[h] \in Requests /\ n \in Names
  BY RequestFields DEF RemoveAgent, Handling, TypeOK
<1>2. CASE found = NoAgent
  BY <1>1, <1>2, TypedReply DEF RemoveAgent
<1>3. CASE found # NoAgent
  <2>1. over' \in Rosters /\ removed' \in SUBSET Names
    BY <1>1, <1>3 DEF RemoveAgent, TypeOK, Rosters, DropOverride, Tombstone
  <2>2. agents' \in Rosters
    BY <1>3, <2>1, EffectiveRoster DEF RemoveAgent, TypeOK
  <2> QED
    BY <1>1, <1>3, <2>1, <2>2, TypedMutation DEF RemoveAgent, TypeOK
<1> QED
  BY <1>2, <1>3

LEMMA TypedPrompt ==
  ASSUME TypeOK, NEW h \in Handlers, SetPrompt(h)
  PROVE  TypeOK'
<1> DEFINE n == req[h].name
           cur == findAgentLocked(base, over, removed, n)
           new == [cur EXCEPT !.prompt = req[h].prompt]
<1>1. pc[h] = "begin" /\ req[h] \in Requests /\ n \in Names /\ req[h].prompt \in Prompts
  BY RequestFields DEF SetPrompt, Handling, TypeOK
<1>2. cur \in Agent \cup {NoAgent}
  BY <1>1, EffectiveRoster DEF TypeOK
<1>3. CASE Answer(h, 400)
  BY <1>1, <1>3, TypedReply
<1>4. CASE Answer(h, 404)
  BY <1>1, <1>4, TypedReply
<1>5. CASE ~Answer(h, 400) /\ ~Answer(h, 404)
  <2>1. cur # NoAgent /\ over' = [over EXCEPT ![n] = new] /\ UnlockToPersist(h, 200)
    BY <1>5 DEF SetPrompt
  <2>2. new \in Agent
    BY <1>1, <1>2, <2>1 DEF Agent
  <2>3. over' \in Rosters
    BY <1>1, <2>1, <2>2 DEF TypeOK, Rosters
  <2>4. /\ UNCHANGED <<removed, modesConfig, activeMode>>
        /\ agents' = rebuildAgentsLocked(base, over', removed)
    BY <1>5 DEF SetPrompt
  <2>5. agents' \in Rosters
    BY <2>3, <2>4, EffectiveRoster DEF TypeOK
  <2>6. /\ removed' \in SUBSET Names
        /\ modesConfig' \in [KnownModes -> ModeConfigs]
        /\ activeMode' \in ModeNames
    BY <2>4 DEF TypeOK
  <2>7. pc[h] = "begin" /\ UnlockToPersist(h, 200)
    BY <1>1, <2>1
  <2> QED
    BY <2>3, <2>5, <2>6, <2>7, TypedMutation
<1> QED
  BY <1>3, <1>4, <1>5

LEMMA TypedSettings ==
  ASSUME TypeOK, NEW h \in Handlers, SetActiveMode(h) \/ PutModeAgents(h)
  PROVE  TypeOK'
<1> DEFINE m == req[h].mode
           body == req[h].body
           new == [modesConfig EXCEPT ![m] = Overwrite(ModeObject(modesConfig[m]), body)]
<1>1. pc[h] = "begin" /\ req[h] \in Requests /\ m \in ModeNames
  BY RequestFields DEF SetActiveMode, PutModeAgents, Handling, TypeOK
<1>2. CASE SetActiveMode(h)
  <2>1. CASE Answer(h, 400) \/ Answer(h, 404)
    BY <1>1, <2>1, TypedReply
  <2>2. CASE activeMode' = m /\ UnlockToPersist(h, 200)
             /\ UNCHANGED <<over, removed, agents, modesConfig>>
    <3>1. /\ over' \in Rosters /\ removed' \in SUBSET Names /\ agents' \in Rosters
          /\ modesConfig' \in [KnownModes -> ModeConfigs]
          /\ activeMode' \in ModeNames
      BY <1>1, <2>2 DEF TypeOK
    <3> HIDE DEF m
    <3> QED
      BY <1>1, <2>2, <3>1, TypedMutation
  <2> QED
    BY <1>2, <2>1, <2>2 DEF SetActiveMode
<1>3. CASE PutModeAgents(h)
  <2>1. body \in ModeObjects
    BY <1>1, <1>3, RequestFields DEF PutModeAgents, Handling
  <2>2. CASE Answer(h, 404)
    BY <1>1, <2>2, TypedReply
  <2>3. CASE mu' = "leaked" /\ Drop(h) /\ UNCHANGED <<disk, up, memory>>
    BY <2>3, TypedDrop
  <2>4. CASE Known(m) /\ modesConfig' = new /\ UnlockToPersist(h, 200)
             /\ UNCHANGED <<over, removed, agents, activeMode>>
    <3>1. new \in [KnownModes -> ModeConfigs]
      <4>1. m \in KnownModes
        BY <2>4 DEF Known
      <4>2. modesConfig[m] \in ModeConfigs
        BY <4>1 DEF TypeOK
      <4>3. Overwrite(ModeObject(modesConfig[m]), body) \in ModeConfigs
        BY <2>1, <4>2, ModeTypes
      <4> QED
        BY <4>1, <4>3 DEF TypeOK
    <3>2. over' \in Rosters /\ removed' \in SUBSET Names /\ agents' \in Rosters
          /\ activeMode' \in ModeNames
      BY <2>4 DEF TypeOK
    <3> HIDE DEF m, body, new
    <3> QED
      BY <1>1, <2>4, <3>1, <3>2, TypedMutation
  <2> QED
    BY <1>3, <2>2, <2>3, <2>4 DEF PutModeAgents
<1> QED
  BY <1>2, <1>3

LEMMA TypedLookup ==
  ASSUME TypeOK, NEW h \in Handlers, AgentByName(h) \/ Agents(h)
  PROVE  TypeOK'
BY TypedReply DEF AgentByName, Agents, Handling

LEMMA TypedPersist ==
  ASSUME TypeOK, NEW h \in Handlers,
         \/ PersistSnapshot(h) \/ MarshalAgent(h) \/ MarshalEnds(h) \/ MarshalModes(h)
         \/ OpenFile(h) \/ WriteFile(h) \/ PersistFails(h) \/ Respond(h)
  PROVE  TypeOK'
<1>1. CASE PersistSnapshot(h)
  <2>1. snap' \in [Handlers -> Payload]
    BY <1>1, EmptyPayloadType DEF PersistSnapshot, TypeOK, Payload
  <2> QED
    BY <1>1, <2>1 DEF PersistSnapshot, At, Goto, TypeOK, Steps, disk, memory
<1>2. CASE MarshalAgent(h)
  <2>1. snap' \in [Handlers -> Payload]
    <3>1. PICK n \in unread[h] : snap' = [snap EXCEPT ![h].agents[n] = over[n]]
      BY <1>2 DEF MarshalAgent
    <3>2. [snap[h].agents EXCEPT ![n] = over[n]] \in Rosters
      BY <3>1 DEF TypeOK, Payload, Rosters
    <3>3. [snap[h] EXCEPT !.agents = [snap[h].agents EXCEPT ![n] = over[n]]] \in Payload
      BY <3>2 DEF TypeOK, Payload
    <3> QED
      BY <3>1, <3>3 DEF TypeOK
  <2>2. unread' \in [Handlers -> SUBSET Names] /\ keys' \in [Handlers -> SUBSET Names]
    BY <1>2 DEF MarshalAgent, TypeOK, Present
  <2> QED
    BY <1>2, <2>1, <2>2 DEF MarshalAgent, TypeOK, disk, memory
<1>3. CASE MarshalEnds(h)
  <2>1. CASE Drop(h) /\ UNCHANGED <<disk, up, mu, memory>>
    BY <2>1, TypedDrop DEF TypeOK
  <2>2. CASE ~(Drop(h) /\ UNCHANGED <<disk, up, mu, memory>>)
    BY <1>3, <2>2 DEF MarshalEnds, At, Goto, TypeOK, Steps, disk, memory
  <2> QED
    BY <2>1, <2>2
<1>4. CASE MarshalModes(h)
  <2>1. [m \in KnownModes |-> Encode(modesConfig[m])] \in [KnownModes -> JsonModes]
    <3>1. \A c \in ModeConfigs : Encode(c) \in JsonModes
      BY DEF Encode, ModeConfigs, JsonModes
    <3> QED
      BY <3>1 DEF TypeOK
  <2>2. snap' \in [Handlers -> Payload]
    BY <1>4, <2>1 DEF MarshalModes, TypeOK, Payload
  <2> QED
    BY <1>4, <2>2 DEF MarshalModes, At, Goto, TypeOK, Steps, disk, memory
<1>5. CASE OpenFile(h)
  BY <1>5 DEF OpenFile, At, Goto, TypeOK, Steps, memory
<1>6. CASE WriteFile(h)
  <2>1. file' \in Payload \cup {Missing, Empty, Garbage}
    BY <1>6 DEF WriteFile, Overlay, TypeOK
  <2> QED
    BY <1>6, <2>1 DEF WriteFile, At, Goto, TypeOK, Steps, memory
<1>7. CASE PersistFails(h)
  <2>1. file' \in Payload \cup {Missing, Empty, Garbage}
    BY <1>7 DEF PersistFails, TypeOK
  <2>2. FailureStatus(req[h].op, status[h]) \in Nat
    BY DEF FailureStatus, TypeOK
  <2>3. status' \in [Handlers -> Nat]
    BY <1>7, <2>2 DEF PersistFails, TypeOK
  <2> QED
    BY <1>7, <2>1, <2>3 DEF PersistFails, At, Goto, TypeOK, Steps, memory
<1>8. CASE Respond(h)
  BY <1>8, TypedDrop DEF Respond, TypeOK
<1> QED
  BY <1>1, <1>2, <1>3, <1>4, <1>5, <1>6, <1>7, <1>8

LEMMA TypedProcess ==
  ASSUME TypeOK, Die \/ Boot \/ EditSwarm
  PROVE  TypeOK'
<1>1. CASE Die
  <2>1. /\ base' \in Rosters /\ over' \in Rosters /\ agents' \in Rosters
        /\ removed' \in SUBSET Names
        /\ modesConfig' \in [KnownModes -> ModeConfigs]
        /\ activeMode' \in ModeNames
    BY <1>1, EmptyRosterType, NoModesType, StoreAssumption DEF Die, ModeConfigs
  <2>2. /\ pc' \in [Handlers -> Steps]
        /\ req' \in [Handlers -> Requests \cup {NoRequest}]
        /\ \A h \in Handlers : pc'[h] # "idle" => req'[h] \in Requests
        /\ status' \in [Handlers -> Nat]
    BY <1>1 DEF Die, AllHandlers, Steps
  <2>3. /\ snap' \in [Handlers -> Payload]
        /\ keys' \in [Handlers -> SUBSET Names]
        /\ unread' \in [Handlers -> SUBSET Names]
    BY <1>1, EmptyPayloadType DEF Die, AllHandlers
  <2> QED
    BY <1>1, <2>1, <2>2, <2>3 DEF Die, TypeOK, disk
<1>2. CASE Boot
  <2>1. base' \in Rosters /\ over' \in Rosters /\ removed' \in SUBSET Names
    BY <1>2, SavedTypes, SwarmTypes DEF Boot, TypeOK
  <2>2. agents' \in Rosters
    BY <1>2, <2>1, EffectiveRoster DEF Boot
  <2>3. modesConfig' \in [KnownModes -> ModeConfigs]
    BY <1>2, SavedTypes, SwarmTypes DEF Boot, TypeOK, ModeConfigs
  <2>4. activeMode' \in ModeNames
    BY <1>2, SavedTypes, SwarmTypes DEF Boot, TypeOK
  <2> QED
    BY <1>2, <2>1, <2>2, <2>3, <2>4 DEF Boot, TypeOK, disk, work
<1>3. CASE EditSwarm
  BY <1>3 DEF EditSwarm, TypeOK, memory, work
<1> QED
  BY <1>1, <1>2, <1>3

LEMMA TypedStep == TypeOK /\ [Next]_vars => TypeOK'
<1> SUFFICES ASSUME TypeOK, [Next]_vars PROVE TypeOK'
  OBVIOUS
<1>1. ASSUME NEW h \in Handlers, Receive(h) PROVE TypeOK'
  BY <1>1 DEF Receive, At, Goto, TypeOK, Steps, disk, memory
<1>2. ASSUME NEW h \in Handlers, Serve(h) PROVE TypeOK'
  BY <1>2, TypedUpsert, TypedRemove, TypedPrompt, TypedSettings, TypedLookup, TypedPersist
     DEF Serve
<1>3. ASSUME NEW h \in Handlers, PersistFails(h) PROVE TypeOK'
  BY <1>3, TypedPersist
<1>4. CASE Crash \/ MapFatal \/ Boot \/ EditSwarm
  BY <1>4, TypedProcess DEF Crash, MapFatal
<1>5. CASE UNCHANGED vars
  BY <1>5 DEF TypeOK, vars, disk, memory, work
<1> QED
  BY <1>1, <1>2, <1>3, <1>4, <1>5 DEF Next

(* Every variable keeps to its type: in particular no nil map ever reaches
   the payload, and no handler past "begin" is without a request. *)
THEOREM TypeCorrect == Spec => []TypeOK
<1>1. Init => TypeOK
  BY InitTyped
<1> QED
  BY <1>1, TypedStep, PTL DEF Spec

-----------------------------------------------------------------------------
(* The served list is always the one rebuilt from the current maps, hence
   agrees with the lookup. *)

Rebuilt == up => agents = rebuildAgentsLocked(base, over, removed)

(* The maps a step leaves alone keep the list they had. *)
LEMMA RebuiltKept ==
  ASSUME Rebuilt, UNCHANGED <<up, base, over, removed, agents>>
  PROVE  Rebuilt'
BY DEF Rebuilt

LEMMA RebuiltServe ==
  ASSUME Rebuilt, NEW h \in Handlers, Serve(h)
  PROVE  Rebuilt'
<1>1. CASE UpsertAgent(h)
  BY <1>1 DEF UpsertAgent, UnlockToPersist, Answer, memory, Rebuilt
<1>2. CASE RemoveAgent(h)
  BY <1>2 DEF RemoveAgent, UnlockToPersist, Answer, memory, Rebuilt
<1>3. CASE SetPrompt(h)
  BY <1>3 DEF SetPrompt, UnlockToPersist, Answer, memory, Rebuilt
<1>4. CASE AgentByName(h) \/ Agents(h) \/ SetActiveMode(h) \/ PutModeAgents(h)
  BY <1>4, RebuiltKept
     DEF AgentByName, Agents, SetActiveMode, PutModeAgents, UnlockToPersist, Answer, memory
<1>5. CASE \/ PersistSnapshot(h) \/ MarshalAgent(h) \/ MarshalEnds(h) \/ MarshalModes(h)
           \/ OpenFile(h) \/ WriteFile(h) \/ Respond(h)
  BY <1>5, RebuiltKept
     DEF PersistSnapshot, MarshalAgent, MarshalEnds, MarshalModes, OpenFile, WriteFile,
         Respond, memory
<1> QED
  BY <1>1, <1>2, <1>3, <1>4, <1>5 DEF Serve

LEMMA AlwaysRebuilt == Spec => []Rebuilt
<1>1. Init => Rebuilt
  BY DEF Init, Rebuilt
<1>2. Rebuilt /\ [Next]_vars => Rebuilt'
  <2> SUFFICES ASSUME Rebuilt, [Next]_vars PROVE Rebuilt'
    OBVIOUS
  <2>1. ASSUME NEW h \in Handlers, Receive(h) \/ PersistFails(h) PROVE Rebuilt'
    BY <2>1, RebuiltKept DEF Receive, PersistFails, memory
  <2>2. ASSUME NEW h \in Handlers, Serve(h) PROVE Rebuilt'
    BY <2>2, RebuiltServe
  <2>3. CASE Crash \/ MapFatal
    BY <2>3 DEF Crash, MapFatal, Die, Rebuilt
  <2>4. CASE Boot
    BY <2>4 DEF Boot, Rebuilt
  <2>5. CASE EditSwarm \/ UNCHANGED vars
    BY <2>5, RebuiltKept DEF EditSwarm, vars, memory
  <2> QED
    BY <2>1, <2>2, <2>3, <2>4, <2>5 DEF Next
<1> QED
  BY <1>1, <1>2, PTL DEF Spec

(* A step of a handler changes the list under the name of its request only,
   and in the critical section of a POST, a prompt edit or a DELETE. *)
LEMMA ChangedIsNamed ==
  ASSUME TypeOK, Rebuilt, NEW h \in Handlers, Serve(h), NEW n \in Names, agents'[n] # agents[n]
  PROVE  pc[h] = "begin" /\ req[h].op \in {"post", "prompt", "delete"} /\ req[h].name = n
<1> DEFINE m == req[h].name
<1>0. ASSUME up, pc[h] = "begin", req[h].op \in {"post", "prompt", "delete"},
             agents' = rebuildAgentsLocked(base, over', removed'),
             \A x \in Names \ {m} : over'[x] = over[x] /\ (x \in removed' <=> x \in removed)
      PROVE  m = n
  BY <1>0 DEF Rebuilt, rebuildAgentsLocked
<1>1. CASE UpsertAgent(h)
  <2>1. ~Answer(h, 400) /\ up /\ pc[h] = "begin" /\ req[h].op = "post"
    BY <1>1 DEF UpsertAgent, Handling, Answer, memory
  <2>2. /\ over' = [over EXCEPT ![m] = req[h].agent] /\ removed' = removed \ {m}
        /\ agents' = rebuildAgentsLocked(base, over', removed')
    BY <1>1, <2>1 DEF UpsertAgent, ClearTombstone
  <2>3. \A x \in Names \ {m} : over'[x] = over[x] /\ (x \in removed' <=> x \in removed)
    BY <2>2 DEF TypeOK, Rosters
  <2> HIDE DEF m
  <2> QED
    BY <1>0, <2>1, <2>2, <2>3 DEF m
<1>2. CASE RemoveAgent(h)
  <2>1. ~Answer(h, 404) /\ up /\ pc[h] = "begin" /\ req[h].op = "delete"
    BY <1>2 DEF RemoveAgent, Handling, Answer, memory
  <2>2. /\ over' = DropOverride(over, m) /\ removed' = Tombstone(base, removed, m)
        /\ agents' = rebuildAgentsLocked(base, over', removed')
    BY <1>2, <2>1 DEF RemoveAgent
  <2>3. \A x \in Names \ {m} : over'[x] = over[x] /\ (x \in removed' <=> x \in removed)
    BY <2>2 DEF TypeOK, Rosters, DropOverride, Tombstone
  <2> HIDE DEF m
  <2> QED
    BY <1>0, <2>1, <2>2, <2>3 DEF m
<1>3. CASE SetPrompt(h)
  <2>1. ~Answer(h, 400) /\ ~Answer(h, 404) /\ up /\ pc[h] = "begin" /\ req[h].op = "prompt"
    BY <1>3 DEF SetPrompt, Handling, Answer, memory
  <2>2. /\ \A x \in Names \ {m} : over'[x] = over[x]
        /\ removed' = removed /\ agents' = rebuildAgentsLocked(base, over', removed)
    BY <1>3, <2>1 DEF SetPrompt, TypeOK, Rosters
  <2> HIDE DEF m
  <2> QED
    BY <1>0, <2>1, <2>2 DEF m
<1>4. CASE \/ AgentByName(h) \/ Agents(h) \/ SetActiveMode(h) \/ PutModeAgents(h)
           \/ PersistSnapshot(h) \/ MarshalAgent(h) \/ MarshalEnds(h) \/ MarshalModes(h)
           \/ OpenFile(h) \/ WriteFile(h) \/ Respond(h)
  BY <1>4
     DEF AgentByName, Agents, SetActiveMode, PutModeAgents, UnlockToPersist, Answer,
         PersistSnapshot, MarshalAgent, MarshalEnds, MarshalModes, OpenFile, WriteFile,
         Respond, memory
<1> QED
  BY <1>1, <1>2, <1>3, <1>4 DEF Serve

(* GET /api/agents and the handlers of one agent see the same roster, in
   every interleaving, whatever swarm-config and overrides.json hold. *)
THEOREM ListAgrees == Spec => []ListMatchesLookup
<1>1. TypeOK /\ Rebuilt => ListMatchesLookup
  BY EffectiveRoster DEF TypeOK, Rebuilt, ListMatchesLookup
<1> QED
  BY <1>1, TypeCorrect, AlwaysRebuilt, PTL

-----------------------------------------------------------------------------
(* base is the whole roster of some swarm-config, the one read at boot. *)

BaseWasRead == up => \E s \in SwarmConfigs : base = s.agents

LEMMA BaseServe ==
  ASSUME NEW h \in Handlers, Receive(h) \/ Serve(h) \/ PersistFails(h)
  PROVE  UNCHANGED <<up, base>>
<1>1. CASE UpsertAgent(h) \/ RemoveAgent(h) \/ SetPrompt(h)
  BY <1>1 DEF UpsertAgent, RemoveAgent, SetPrompt, UnlockToPersist, Answer, memory
<1>2. CASE AgentByName(h) \/ Agents(h) \/ SetActiveMode(h) \/ PutModeAgents(h)
  BY <1>2
     DEF AgentByName, Agents, SetActiveMode, PutModeAgents, UnlockToPersist, Answer, memory
<1>3. CASE \/ PersistSnapshot(h) \/ MarshalAgent(h) \/ MarshalEnds(h) \/ MarshalModes(h)
           \/ OpenFile(h) \/ WriteFile(h) \/ Respond(h)
  BY <1>3
     DEF PersistSnapshot, MarshalAgent, MarshalEnds, MarshalModes, OpenFile, WriteFile,
         Respond, memory
<1>4. CASE Receive(h) \/ PersistFails(h)
  BY <1>4 DEF Receive, PersistFails, memory
<1> QED
  BY <1>1, <1>2, <1>3, <1>4 DEF Serve

LEMMA AlwaysBaseWasRead == Spec => []BaseWasRead
<1>1. Init => BaseWasRead
  BY DEF Init, BaseWasRead
<1>2. TypeOK /\ BaseWasRead /\ [Next]_vars => BaseWasRead'
  <2> SUFFICES ASSUME TypeOK, BaseWasRead, [Next]_vars PROVE BaseWasRead'
    OBVIOUS
  <2>1. ASSUME NEW h \in Handlers, Receive(h) \/ Serve(h) \/ PersistFails(h)
        PROVE  BaseWasRead'
    BY <2>1, BaseServe DEF BaseWasRead
  <2>2. CASE Crash \/ MapFatal
    BY <2>2 DEF Crash, MapFatal, Die, BaseWasRead
  <2>3. CASE Boot
    BY <2>3 DEF Boot, TypeOK, BaseWasRead
  <2>4. CASE EditSwarm \/ UNCHANGED vars
    BY <2>4 DEF EditSwarm, vars, memory, BaseWasRead
  <2> QED
    BY <2>1, <2>2, <2>3, <2>4 DEF Next
<1> QED
  BY <1>1, <1>2, TypeCorrect, PTL DEF Spec

-----------------------------------------------------------------------------
(* Nothing unvalidated is registered. *)

BaseFromSwarm ==
  \A n \in Names : base[n] # NoAgent => \E s \in SwarmConfigs : s.agents[n] = base[n]

HalfInv == TypeOK /\ BaseFromSwarm /\ NoHalfAgent

LEMMA EmptySound == SoundRoster(EmptyRoster) /\ SoundRoster(EmptyPayload.agents)
BY DEF SoundRoster, EmptyRoster, EmptyPayload

(* What a handler finds under a name is sound under any prompt. *)
LEMMA FoundSound ==
  ASSUME HalfInv, NEW n \in Names, findAgentLocked(base, over, removed, n) # NoAgent,
         NEW p \in Prompts
  PROVE  Sound(n, [findAgentLocked(base, over, removed, n) EXCEPT !.prompt = p])
<1> DEFINE cur == findAgentLocked(base, over, removed, n)
           new == [cur EXCEPT !.prompt = p]
<1>1. cur \in Agent
  <2>1. base \in Rosters /\ over \in Rosters /\ removed \in SUBSET Names
    BY DEF HalfInv, TypeOK
  <2> QED
    BY <2>1, EffectiveRoster
<1>2. cur = over[n] \/ cur = base[n]
  BY DEF findAgentLocked
<1> SUFFICES Sound(n, new)
  OBVIOUS
<1>3. cur # NoAgent
  OBVIOUS
<1> HIDE DEF cur
<1>4. new.port = cur.port /\ new.engine = cur.engine
  BY <1>1 DEF Agent
<1> HIDE DEF new
<1>5. CASE cur = over[n]
  <2>1. Sound(n, cur)
    BY <1>3, <1>5 DEF HalfInv, NoHalfAgent, SoundRoster
  <2> QED
    BY <1>4, <2>1 DEF Sound
<1>6. CASE cur = base[n]
  <2>1. PICK s \in SwarmConfigs : s.agents[n] = cur
    BY <1>3, <1>6 DEF HalfInv, BaseFromSwarm
  <2> QED
    BY <1>3, <1>4, <2>1 DEF Sound
<1> QED
  BY <1>2, <1>5, <1>6

(* A critical section that leaves sound overrides touches nothing else. *)
LEMMA SoundMutation ==
  ASSUME HalfInv, NEW h \in Handlers, NEW code, UnlockToPersist(h, code), SoundRoster(over')
  PROVE  BaseFromSwarm' /\ NoHalfAgent'
BY DEF HalfInv, BaseFromSwarm, NoHalfAgent, UnlockToPersist, disk, SoundRoster

LEMMA SoundKept ==
  ASSUME HalfInv, UNCHANGED <<file, base, over, snap>>
  PROVE  BaseFromSwarm' /\ NoHalfAgent'
BY DEF HalfInv, BaseFromSwarm, NoHalfAgent, SoundRoster

LEMMA SoundDrop ==
  ASSUME HalfInv, NEW h \in Handlers, Drop(h), UNCHANGED <<file, base, over>>
  PROVE  BaseFromSwarm' /\ NoHalfAgent'
<1>1. \A g \in Handlers : SoundRoster(snap'[g].agents)
  BY EmptySound DEF HalfInv, NoHalfAgent, Drop, TypeOK
<1> QED
  BY <1>1 DEF HalfInv, BaseFromSwarm, NoHalfAgent, SoundRoster

LEMMA SoundServe ==
  ASSUME HalfInv, NEW h \in Handlers, Serve(h)
  PROVE  BaseFromSwarm' /\ NoHalfAgent'
<1> DEFINE n == req[h].name
           cur == findAgentLocked(base, over, removed, n)
<1>1. CASE UpsertAgent(h)
  <2>1. n \in Names
    BY <1>1, RequestFields DEF HalfInv, TypeOK, UpsertAgent, Handling
  <2>2. CASE Answer(h, 400)
    BY <2>2, SoundKept DEF Answer, disk, memory
  <2>3. CASE ~Answer(h, 400)
    <3>1. over' = [over EXCEPT ![n] = req[h].agent]
      BY <1>1, <2>3 DEF UpsertAgent
    <3>2. Sound(n, req[h].agent)
      BY <1>1, <2>3 DEF UpsertAgent, ValidateAgent, Sound
    <3>3. SoundRoster(over')
      BY <2>1, <3>1, <3>2 DEF HalfInv, TypeOK, Rosters, NoHalfAgent, SoundRoster
    <3> QED
      BY <1>1, <2>3, <3>3, SoundMutation DEF UpsertAgent
  <2> QED
    BY <2>2, <2>3
<1>2. CASE RemoveAgent(h)
  <2>1. CASE Answer(h, 404)
    BY <2>1, SoundKept DEF Answer, disk, memory
  <2>2. CASE ~Answer(h, 404)
    <3>1. SoundRoster(over')
      BY <1>2, <2>2
         DEF RemoveAgent, DropOverride, HalfInv, TypeOK, Rosters, NoHalfAgent, SoundRoster
    <3> QED
      BY <1>2, <2>2, <3>1, SoundMutation DEF RemoveAgent
  <2> QED
    BY <2>1, <2>2
<1>3. CASE SetPrompt(h)
  <2>1. n \in Names /\ req[h].prompt \in Prompts
    BY <1>3, RequestFields DEF HalfInv, TypeOK, SetPrompt, Handling
  <2>2. CASE Answer(h, 400) \/ Answer(h, 404)
    BY <2>2, SoundKept DEF Answer, disk, memory
  <2>3. CASE ~Answer(h, 400) /\ ~Answer(h, 404)
    <3>1. Sound(n, [cur EXCEPT !.prompt = req[h].prompt])
      BY <1>3, <2>1, <2>3, FoundSound DEF SetPrompt
    <3>2. over' = [over EXCEPT ![n] = [cur EXCEPT !.prompt = req[h].prompt]]
      BY <1>3, <2>3 DEF SetPrompt
    <3>3. SoundRoster(over')
      BY <3>1, <3>2, <2>1 DEF HalfInv, TypeOK, Rosters, NoHalfAgent, SoundRoster
    <3> QED
      BY <1>3, <2>3, <3>3, SoundMutation DEF SetPrompt
  <2> QED
    BY <2>2, <2>3
<1>4. CASE AgentByName(h) \/ Agents(h) \/ SetActiveMode(h) \/ PutModeAgents(h)
  <2>1. CASE Drop(h) /\ UNCHANGED <<disk, memory>>
    BY <2>1, SoundDrop DEF disk, memory
  <2>2. CASE ~(Drop(h) /\ UNCHANGED <<disk, memory>>)
    BY <1>4, <2>2, SoundKept
       DEF AgentByName, Agents, SetActiveMode, PutModeAgents, Answer, UnlockToPersist,
           disk, memory
  <2> QED
    BY <2>1, <2>2
<1>5. CASE PersistSnapshot(h) \/ MarshalAgent(h) \/ MarshalModes(h)
  <2>1. UNCHANGED <<file, base, over>>
    BY <1>5 DEF PersistSnapshot, MarshalAgent, MarshalModes, disk, memory
  <2>2. SoundRoster(snap'[h].agents)
    <3>1. CASE PersistSnapshot(h)
      BY <3>1, EmptySound DEF PersistSnapshot, HalfInv, TypeOK, EmptyPayload
    <3>2. CASE MarshalAgent(h)
      <4>1. PICK m \in unread[h] : snap' = [snap EXCEPT ![h].agents[m] = over[m]]
        BY <3>2 DEF MarshalAgent
      <4>2. snap'[h].agents = [snap[h].agents EXCEPT ![m] = over[m]]
        BY <4>1 DEF HalfInv, TypeOK, Payload
      <4> QED
        BY <4>2 DEF HalfInv, TypeOK, Payload, Rosters, NoHalfAgent, SoundRoster
    <3>3. CASE MarshalModes(h)
      BY <3>3 DEF MarshalModes, HalfInv, TypeOK, Payload, NoHalfAgent
    <3> QED
      BY <1>5, <3>1, <3>2, <3>3
  <2>3. \A g \in Handlers : g # h => snap'[g] = snap[g]
    BY <1>5 DEF PersistSnapshot, MarshalAgent, MarshalModes, HalfInv, TypeOK
  <2> QED
    BY <2>1, <2>2, <2>3 DEF HalfInv, NoHalfAgent, BaseFromSwarm, SoundRoster
<1>6. CASE MarshalEnds(h) \/ Respond(h)
  <2>1. CASE Drop(h) /\ UNCHANGED <<disk, memory>>
    BY <2>1, SoundDrop DEF disk, memory
  <2>2. CASE ~(Drop(h) /\ UNCHANGED <<disk, memory>>)
    BY <1>6, <2>2, SoundKept DEF MarshalEnds, Respond, disk, memory
  <2> QED
    BY <2>1, <2>2
<1>7. CASE OpenFile(h) \/ WriteFile(h)
  <2>1. SoundRoster(SavedOver(file'))
    <3>1. file' \in {Empty, Garbage, snap[h]}
      BY <1>7 DEF OpenFile, WriteFile, Overlay
    <3>2. Empty \notin Payload /\ Garbage \notin Payload
      BY StoreAssumption
    <3> QED
      BY <3>1, <3>2, EmptySound DEF SavedOver, HalfInv, NoHalfAgent
  <2>2. UNCHANGED <<base, over, snap>>
    BY <1>7 DEF OpenFile, WriteFile, memory
  <2> QED
    BY <2>1, <2>2 DEF HalfInv, NoHalfAgent, BaseFromSwarm, SoundRoster
<1> QED
  BY <1>1, <1>2, <1>3, <1>4, <1>5, <1>6, <1>7 DEF Serve

(* No memory, no payload and no file ever registers an agent that neither
   passed ValidateAgent nor came, but for its prompt, from swarm-config. *)
THEOREM OnlySoundAgents == Spec => []NoHalfAgent
<1>1. Init => BaseFromSwarm /\ NoHalfAgent
  <2> SUFFICES ASSUME Init PROVE BaseFromSwarm /\ NoHalfAgent
    OBVIOUS
  <2>1. SavedOver(file) = EmptyRoster
    BY StoreAssumption DEF Init, SavedOver
  <2>2. \A h \in Handlers : SoundRoster(snap[h].agents)
    BY EmptySound DEF Init, AllHandlers
  <2>3. BaseFromSwarm
    BY DEF Init, BaseFromSwarm, EmptyRoster
  <2> QED
    BY <2>1, <2>2, <2>3, EmptySound DEF Init, NoHalfAgent
<1>2. HalfInv /\ [Next]_vars => BaseFromSwarm' /\ NoHalfAgent'
  <2> SUFFICES ASSUME HalfInv, [Next]_vars PROVE BaseFromSwarm' /\ NoHalfAgent'
    OBVIOUS
  <2>1. ASSUME NEW h \in Handlers, Receive(h) PROVE BaseFromSwarm' /\ NoHalfAgent'
    BY <2>1, SoundKept DEF Receive, disk, memory
  <2>2. ASSUME NEW h \in Handlers, Serve(h) PROVE BaseFromSwarm' /\ NoHalfAgent'
    BY <2>2, SoundServe
  <2>3. ASSUME NEW h \in Handlers, PersistFails(h) PROVE BaseFromSwarm' /\ NoHalfAgent'
    <3>1. file' \in {file, Garbage}
      BY <2>3 DEF PersistFails
    <3>2. SoundRoster(SavedOver(file'))
      BY <3>1, EmptySound, StoreAssumption DEF SavedOver, HalfInv, NoHalfAgent
    <3>3. UNCHANGED <<base, over, snap>>
      BY <2>3 DEF PersistFails, memory
    <3> QED
      BY <3>2, <3>3 DEF HalfInv, NoHalfAgent, BaseFromSwarm, SoundRoster
  <2>4. CASE Crash \/ MapFatal
    <3>1. Die
      BY <2>4 DEF Crash, MapFatal
    <3>2. BaseFromSwarm'
      BY <3>1 DEF Die, BaseFromSwarm, EmptyRoster
    <3>3. SoundRoster(over') /\ SoundRoster(SavedOver(file'))
      BY <3>1, EmptySound DEF Die, disk, HalfInv, NoHalfAgent
    <3>4. \A g \in Handlers : SoundRoster(snap'[g].agents)
      BY <3>1, EmptySound DEF Die, AllHandlers
    <3> QED
      BY <3>2, <3>3, <3>4 DEF NoHalfAgent, SoundRoster
  <2>5. CASE Boot
    <3>1. base' = swarm.agents /\ swarm \in SwarmConfigs
      BY <2>5 DEF Boot, HalfInv, TypeOK
    <3>2. over' = SavedOver(file) /\ UNCHANGED <<file, snap>>
      BY <2>5 DEF Boot, disk, work
    <3> QED
      BY <3>1, <3>2 DEF HalfInv, NoHalfAgent, BaseFromSwarm, SoundRoster
  <2>6. CASE EditSwarm \/ UNCHANGED vars
    BY <2>6, SoundKept DEF EditSwarm, vars, disk, memory, work
  <2> QED
    BY <2>1, <2>2, <2>3, <2>4, <2>5, <2>6 DEF Next
<1>3. TypeOK /\ BaseFromSwarm /\ NoHalfAgent <=> HalfInv
  BY DEF HalfInv
<1> QED
  BY <1>1, <1>2, <1>3, TypeCorrect, PTL DEF Spec

-----------------------------------------------------------------------------
(* Requests never make a name both overridden and tombstoned. *)

LEMMA ConflictKept ==
  ASSUME UNCHANGED <<over, removed>>
  PROVE  Conflicted' = Conflicted
BY DEF Conflicted

LEMMA ConflictServe ==
  ASSUME TypeOK, NEW h \in Handlers, Serve(h)
  PROVE  Conflicted' \subseteq Conflicted
<1> DEFINE n == req[h].name
<1>1. CASE UpsertAgent(h)
  BY <1>1, ConflictKept, RequestFields
     DEF UpsertAgent, Handling, Answer, memory, TypeOK, Rosters, ClearTombstone, Conflicted
<1>2. CASE RemoveAgent(h)
  <2>1. CASE Answer(h, 404)
    BY <2>1, ConflictKept DEF Answer, memory
  <2>2. CASE ~Answer(h, 404)
    <3>1. n \in Names
      BY <1>2, RequestFields DEF RemoveAgent, Handling, TypeOK
    <3>2. over'[n] = NoAgent /\ \A x \in Names \ {n} : over'[x] = over[x]
      BY <1>2, <2>2, <3>1 DEF RemoveAgent, DropOverride, TypeOK, Rosters
    <3>3. removed' \subseteq removed \cup {n}
      BY <1>2, <2>2 DEF RemoveAgent, Tombstone
    <3> QED
      BY <3>1, <3>2, <3>3 DEF Conflicted, TypeOK
  <2> QED
    BY <2>1, <2>2
<1>3. CASE SetPrompt(h)
  <2>1. CASE Answer(h, 400) \/ Answer(h, 404)
    BY <2>1, ConflictKept DEF Answer, memory
  <2>2. CASE ~Answer(h, 400) /\ ~Answer(h, 404)
    <3>1. n \in Names /\ n \notin removed
      BY <1>3, <2>2, RequestFields DEF SetPrompt, Handling, TypeOK, findAgentLocked
    <3>2. removed' = removed /\ \A x \in Names \ {n} : over'[x] = over[x]
      BY <1>3, <2>2, <3>1 DEF SetPrompt, TypeOK, Rosters
    <3> QED
      BY <3>1, <3>2 DEF Conflicted, TypeOK
  <2> QED
    BY <2>1, <2>2
<1>4. CASE \/ AgentByName(h) \/ Agents(h) \/ SetActiveMode(h) \/ PutModeAgents(h)
           \/ PersistSnapshot(h) \/ MarshalAgent(h) \/ MarshalEnds(h) \/ MarshalModes(h)
           \/ OpenFile(h) \/ WriteFile(h) \/ Respond(h)
  BY <1>4, ConflictKept
     DEF AgentByName, Agents, SetActiveMode, PutModeAgents, Answer, UnlockToPersist,
         PersistSnapshot, MarshalAgent, MarshalEnds, MarshalModes, OpenFile, WriteFile,
         Respond, memory
<1> QED
  BY <1>1, <1>2, <1>3, <1>4 DEF Serve

(* A tombstone and an override of one name only ever come from the file. *)
THEOREM TombstonesDisciplined == Spec => TombstoneDiscipline
<1>1. TypeOK /\ [Next]_vars => [up /\ up' => Conflicted' \subseteq Conflicted]_vars
  <2> SUFFICES ASSUME TypeOK, Next, up, up' PROVE Conflicted' \subseteq Conflicted
    BY DEF vars
  <2>1. ASSUME NEW h \in Handlers, Receive(h) \/ PersistFails(h)
        PROVE  Conflicted' \subseteq Conflicted
    BY <2>1, ConflictKept DEF Receive, PersistFails, memory
  <2>2. ASSUME NEW h \in Handlers, Serve(h) PROVE Conflicted' \subseteq Conflicted
    BY <2>2, ConflictServe
  <2>3. ~Crash /\ ~MapFatal /\ ~Boot
    BY DEF Crash, MapFatal, Die, Boot
  <2>4. CASE EditSwarm
    BY <2>4, ConflictKept DEF EditSwarm, memory
  <2> QED
    BY <2>1, <2>2, <2>3, <2>4 DEF Next
<1> QED
  BY <1>1, TypeCorrect, PTL DEF Spec, TombstoneDiscipline

-----------------------------------------------------------------------------
(* When the lock can be leaked. *)

(* What an entry can become, wherever it is kept: memory, a payload, the file. *)
PlainModes == [KnownModes -> JsonModes \ {Scalar}]

PlainInv ==
  /\ mu = "free"
  /\ modesConfig \in PlainModes
  /\ \A h \in Handlers : snap[h].modes_config \in PlainModes
  /\ SavedModes(file) \in PlainModes

LEMMA PlainNone ==
  NoModes \in PlainModes /\ EmptyPayload.modes_config \in PlainModes
BY StoreAssumption DEF NoModes, PlainModes, JsonModes, EmptyPayload

(* A plain entry yields an object to write to, and is encoded as it is. *)
LEMMA PlainEntry ==
  ASSUME NEW c \in JsonModes \ {Scalar}, NEW body \in ModeObjects
  PROVE  /\ ModeObject(c) # NilMap
         /\ Overwrite(ModeObject(c), body) \in JsonModes \ {Scalar}
         /\ Encode(c) \in JsonModes \ {Scalar}
<1>1. ModeObject(c) \in ModeObjects
  BY DEF ModeObject, JsonModes, EmptyObject, ModeObjects
<1>2. NilMap \notin ModeObjects /\ Scalar \notin ModeObjects
  BY StoreAssumption
<1>3. Overwrite(ModeObject(c), body) \in ModeObjects
  BY <1>1, <1>2 DEF Overwrite, ModeObjects
<1>4. c # NilMap
  BY StoreAssumption DEF JsonModes
<1> QED
  BY <1>1, <1>2, <1>3, <1>4 DEF Encode, JsonModes

LEMMA PlainServe ==
  ASSUME TypeOK, PlainInv, NEW h \in Handlers, Serve(h)
  PROVE  PlainInv'
<1>1. CASE PutModeAgents(h)
  <2> DEFINE m == req[h].mode
             new == Overwrite(ModeObject(modesConfig[m]), req[h].body)
  <2>1. req[h].body \in ModeObjects /\ (Known(m) => m \in KnownModes)
    BY <1>1, RequestFields DEF PutModeAgents, Handling, TypeOK, Known
  <2>2. Known(m) => ModeObject(modesConfig[m]) # NilMap /\ new \in JsonModes \ {Scalar}
    BY <2>1, PlainEntry DEF PlainInv, PlainModes
  <2>3. /\ UNCHANGED <<mu, snap, file>>
        /\ \/ modesConfig' = modesConfig
           \/ Known(m) /\ modesConfig' = [modesConfig EXCEPT ![m] = new]
    BY <1>1, <2>2 DEF PutModeAgents, Answer, UnlockToPersist, memory, disk
  <2>4. modesConfig' \in PlainModes
    <3> HIDE DEF m, new
    <3> QED
      BY <2>2, <2>3 DEF PlainInv, PlainModes
  <2> QED
    BY <2>3, <2>4 DEF PlainInv
<1>2. CASE MarshalModes(h)
  <2> DEFINE enc == [m \in KnownModes |-> Encode(modesConfig[m])]
  <2>1. enc \in PlainModes
    <3>1. EmptyObject \in ModeObjects
      BY DEF EmptyObject, ModeObjects
    <3> QED
      BY <3>1, PlainEntry DEF PlainInv, PlainModes
  <2>2. snap' = [snap EXCEPT ![h].modes_config = enc] /\ UNCHANGED <<mu, modesConfig, file>>
    BY <1>2 DEF MarshalModes, memory, disk
  <2> HIDE DEF enc
  <2>3. snap'[h].modes_config = enc /\ \A g \in Handlers \ {h} : snap'[g] = snap[g]
    BY <2>2 DEF TypeOK, Payload
  <2> QED
    BY <2>1, <2>2, <2>3 DEF PlainInv
<1>3. CASE PersistSnapshot(h)
  <2>1. /\ snap'[h].modes_config = EmptyPayload.modes_config
        /\ \A g \in Handlers \ {h} : snap'[g] = snap[g]
        /\ UNCHANGED <<mu, modesConfig, file>>
    BY <1>3 DEF PersistSnapshot, TypeOK, memory, disk, EmptyPayload
  <2> QED
    BY <2>1, PlainNone DEF PlainInv
<1>4. CASE MarshalAgent(h)
  <2>1. /\ snap'[h].modes_config = snap[h].modes_config
        /\ \A g \in Handlers \ {h} : snap'[g] = snap[g]
        /\ UNCHANGED <<mu, modesConfig, file>>
    BY <1>4 DEF MarshalAgent, TypeOK, Payload, memory, disk
  <2> QED
    BY <2>1 DEF PlainInv
<1>5. CASE MarshalEnds(h) \/ Respond(h)
  <2>1. /\ UNCHANGED <<mu, modesConfig, file>>
        /\ snap' = snap \/ snap' = [snap EXCEPT ![h] = EmptyPayload]
    BY <1>5 DEF MarshalEnds, Respond, Drop, memory, disk
  <2>2. \A g \in Handlers : snap'[g] \in {snap[g], EmptyPayload}
    BY <2>1 DEF TypeOK
  <2> QED
    BY <2>1, <2>2, PlainNone DEF PlainInv
<1>6. CASE WriteFile(h)
  <2>1. file' \in {snap[h], Garbage} /\ UNCHANGED <<mu, modesConfig, snap>>
    BY <1>6 DEF WriteFile, Overlay, memory
  <2>2. SavedModes(file') \in PlainModes
    <3>1. SavedModes(Garbage) = NoModes
      BY StoreAssumption DEF SavedModes
    <3>2. SavedModes(snap[h]) = snap[h].modes_config
      BY StoreAssumption DEF SavedModes, TypeOK
    <3> QED
      BY <2>1, <3>1, <3>2, PlainNone DEF PlainInv
  <2> QED
    BY <2>1, <2>2 DEF PlainInv
<1>7. CASE OpenFile(h)
  <2>1. file' = Empty /\ UNCHANGED <<mu, modesConfig, snap>>
    BY <1>7 DEF OpenFile, memory
  <2>2. SavedModes(file') \in PlainModes
    BY <2>1, PlainNone, StoreAssumption DEF SavedModes
  <2> QED
    BY <2>1, <2>2 DEF PlainInv
<1>8. CASE UpsertAgent(h) \/ RemoveAgent(h) \/ SetPrompt(h) \/ AgentByName(h) \/ Agents(h)
             \/ SetActiveMode(h)
  <2>1. UNCHANGED <<mu, modesConfig, snap, file>>
    BY <1>8 DEF UpsertAgent, RemoveAgent, SetPrompt, AgentByName, Agents, SetActiveMode, Answer,
                UnlockToPersist, memory, disk
  <2> QED
    BY <2>1 DEF PlainInv
<1> QED
  BY <1>1, <1>2, <1>3, <1>4, <1>5, <1>6, <1>7, <1>8 DEF Serve

(* If swarm-config never has an entry that is neither an object nor null, no
   request ever leaves the store locked, whatever is saved, lost or merged. *)
THEOREM LockIsReleased == Spec => []NeverLocked
<1> DEFINE Plain == \A s \in SwarmConfigs, m \in KnownModes : s.modes[m] # Scalar
<1>1. Init => (Plain => PlainInv)
  <2> SUFFICES ASSUME Init PROVE PlainInv
    OBVIOUS
  <2>1. SavedModes(file) \in PlainModes
    BY PlainNone, StoreAssumption DEF Init, SavedModes
  <2> QED
    BY <2>1, PlainNone DEF Init, AllHandlers, PlainInv
<1>2. TypeOK /\ [Next]_vars /\ (Plain => PlainInv) => (Plain => PlainInv)'
  <2> SUFFICES ASSUME TypeOK, [Next]_vars, Plain, PlainInv PROVE PlainInv'
    OBVIOUS
  <2>1. ASSUME NEW h \in Handlers, Receive(h) PROVE PlainInv'
    BY <2>1 DEF Receive, memory, disk, PlainInv
  <2>2. ASSUME NEW h \in Handlers, Serve(h) PROVE PlainInv'
    BY <2>2, PlainServe
  <2>3. ASSUME NEW h \in Handlers, PersistFails(h) PROVE PlainInv'
    <3>1. file' \in {file, Garbage} /\ UNCHANGED <<mu, modesConfig, snap>>
      BY <2>3 DEF PersistFails, memory
    <3>2. SavedModes(file') \in PlainModes
      BY <3>1, PlainNone, StoreAssumption DEF SavedModes, PlainInv
    <3> QED
      BY <3>1, <3>2 DEF PlainInv
  <2>4. CASE Crash \/ MapFatal
    BY <2>4, PlainNone DEF Crash, MapFatal, Die, AllHandlers, disk, PlainInv
  <2>5. CASE Boot
    <3>1. swarm.modes \in PlainModes
      <4>1. swarm.modes \in [KnownModes -> JsonModes]
        BY SwarmTypes DEF TypeOK
      <4>2. \A m \in KnownModes : swarm.modes[m] # Scalar
        BY DEF TypeOK
      <4> QED
        BY <4>1, <4>2 DEF PlainModes
    <3>2. modesConfig' \in PlainModes
      BY <2>5, <3>1 DEF Boot, PlainInv, PlainModes
    <3> QED
      BY <2>5, <3>2 DEF Boot, disk, work, PlainInv
  <2>6. CASE EditSwarm \/ UNCHANGED vars
    BY <2>6 DEF EditSwarm, vars, memory, disk, work, PlainInv
  <2> QED
    BY <2>1, <2>2, <2>3, <2>4, <2>5, <2>6 DEF Next
<1>3. (Plain => PlainInv) => NeverLocked
  BY DEF NeverLocked, PlainInv
<1> QED
  BY <1>1, <1>2, <1>3, TypeCorrect, PTL DEF Spec

=============================================================================
