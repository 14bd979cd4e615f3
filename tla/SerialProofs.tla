---------------------------- MODULE SerialProofs ----------------------------
(* Durability of Store when the requests that may change something take      *)
(* turns, for every set of handlers and names, sequence of requests and kills.*)
EXTENDS Durability, StoreProofs

(* Loading file f would restore what the process holds. *)
Restores(f) ==
  /\ SavedOver(f) = over
  /\ SavedRemoved(f) = removed
  /\ SavedActive(f) \in {"", activeMode}
  /\ \A m \in KnownModes : SavedModes(f)[m] \in {Absent, Encode(modesConfig[m])}

EncodedModes == [m \in KnownModes |-> Encode(modesConfig[m])]

(* How far the payload of h has been filled, at each step of persisting: what
   it already holds is what the process holds. *)
Filled(h) ==
  /\ pc[h] \in {"agents", "modes", "open", "write"} =>
       snap[h].active_mode = activeMode /\ snap[h].removed_agents = removed
  /\ pc[h] = "agents" =>
       /\ \A n \in Names \ unread[h] : snap[h].agents[n] = over[n]
       /\ unread[h] # Names => keys[h] = Present(over)
  /\ pc[h] \in {"modes", "open", "write"} => snap[h].agents = over
  /\ pc[h] \in {"open", "write"} => snap[h].modes_config = EncodedModes
  /\ pc[h] = "write" => file = Empty

(* Requests that may change something take turns: each is sent when the one
   before was answered.  Any number of others is served meanwhile. *)
Changing(h) ==
  pc[h] # "idle" /\ req[h].op \in {"post", "prompt", "delete", "active", "putmode"}

InTurn == \A g, h \in Handlers : Changing(g) /\ Changing(h) => g = h

Persisting(h) == pc[h] \in {"snapshot", "agents", "modes", "open", "write"}

(* Unless writes fail, the file is behind the memory only between a critical
   section and the write of its payload. *)
UpToDate == up /\ ~IOFaults /\ (\A h \in Handlers : ~Persisting(h)) => Restores(file)

SerialInv ==
  /\ \A h \in Handlers : Filled(h) /\ (Persisting(h) => Changing(h))
  /\ UpToDate
  /\ ~up => \A h \in Handlers : pc[h] = "idle"

-----------------------------------------------------------------------------

LEMMA RestoresKept ==
  ASSUME Restores(file), UNCHANGED <<file, memory>>
  PROVE  Restores(file)'
BY DEF Restores, memory

(* The step of a handler whose turn it is finds nobody else persisting. *)
LEMMA SerialTurn ==
  ASSUME TypeOK, SerialInv, InTurn, NEW h \in Handlers, Changing(h), up',
         \A g \in Handlers \ {h} : pc'[g] = pc[g],
         Filled(h)', Persisting(h)' => req'[h] = req[h],
         Persisting(h)' \/ IOFaults \/ Restores(file)'
  PROVE  SerialInv'
<1>1. ASSUME NEW g \in Handlers \ {h} PROVE ~Persisting(g)'
  BY <1>1 DEF SerialInv, InTurn, Persisting
<1>2. ASSUME NEW g \in Handlers \ {h} PROVE Filled(g)'
  BY <1>1, <1>2 DEF Filled, Persisting
<1>3. Persisting(h)' => Changing(h)'
  BY DEF Changing, Persisting
<1>4. UpToDate'
  BY DEF UpToDate
<1> QED
  BY <1>1, <1>2, <1>3, <1>4 DEF SerialInv

(* A step that leaves memory and file alone, of a handler that persists
   neither before nor after it. *)
LEMMA SerialSettled ==
  ASSUME TypeOK, SerialInv, NEW h \in Handlers, up, up', UNCHANGED <<file, memory>>,
         ~Persisting(h), ~Persisting(h)',
         \A g \in Handlers \ {h} : /\ pc'[g] = pc[g] /\ req'[g] = req[g]
                                   /\ snap'[g] = snap[g] /\ keys'[g] = keys[g]
                                   /\ unread'[g] = unread[g]
  PROVE  SerialInv'
<1>1. Filled(h)'
  BY DEF Filled, Persisting
<1>2. ASSUME NEW g \in Handlers \ {h} PROVE Filled(g)' /\ (Persisting(g) => Changing(g))'
  <2>1. Filled(g) /\ (Persisting(g) => Changing(g))
    BY DEF SerialInv
  <2>2. UNCHANGED <<file, over, removed, modesConfig, activeMode>>
    BY DEF memory
  <2>3. EncodedModes' = EncodedModes /\ Present(over)' = Present(over)
    BY <2>2 DEF EncodedModes, Present
  <2>4. (Persisting(g) => Changing(g))'
    BY <2>1 DEF Persisting, Changing
  <2>5. Filled(g)'
    BY <2>1, <2>2, <2>3 DEF Filled
  <2> QED
    BY <2>4, <2>5
<1>3. UpToDate'
  BY RestoresKept DEF SerialInv, UpToDate, Persisting
<1> QED
  BY <1>1, <1>2, <1>3 DEF SerialInv

(* What a critical section that changes something ends with. *)
LEMMA SerialUnlock ==
  ASSUME TypeOK, SerialInv, InTurn, NEW h \in Handlers, Changing(h), up, NEW code,
         UnlockToPersist(h, code)
  PROVE  SerialInv'
<1>1. /\ pc'[h] = "snapshot" /\ up' /\ req' = req
      /\ \A g \in Handlers \ {h} : pc'[g] = pc[g]
  BY DEF UnlockToPersist, Goto, TypeOK
<1>2. Filled(h)' /\ Persisting(h)'
  BY <1>1 DEF Filled, Persisting
<1> QED
  BY <1>1, <1>2, SerialTurn

LEMMA SerialAnswer ==
  ASSUME TypeOK, SerialInv, NEW h \in Handlers, up, pc[h] = "begin", NEW code, Answer(h, code)
  PROVE  SerialInv'
<1>1. /\ pc'[h] = "reply" /\ up' /\ UNCHANGED <<file, memory, req, snap, keys, unread>>
      /\ \A g \in Handlers \ {h} : pc'[g] = pc[g]
  BY DEF Answer, Goto, disk, TypeOK
<1> QED
  BY <1>1, SerialSettled DEF Persisting

LEMMA SerialDrop ==
  ASSUME TypeOK, SerialInv, NEW h \in Handlers, up, pc[h] \in {"begin", "reply"}, Drop(h),
         UNCHANGED <<file, up, memory>>
  PROVE  SerialInv'
<1>1. /\ pc'[h] = "idle"
      /\ \A g \in Handlers \ {h} : /\ pc'[g] = pc[g] /\ req'[g] = req[g]
                                   /\ snap'[g] = snap[g] /\ keys'[g] = keys[g]
                                   /\ unread'[g] = unread[g]
  BY DEF Drop, Goto, TypeOK
<1> QED
  BY <1>1, SerialSettled DEF Persisting

(* A critical section ends in an answer, in the unlocking before the change is
   persisted, or in a panic; a request for a change that it answers at once
   is refused. *)
LEMMA SectionEnds ==
  ASSUME TypeOK, NEW h \in Handlers,
         \/ UpsertAgent(h) \/ RemoveAgent(h) \/ SetPrompt(h) \/ AgentByName(h) \/ Agents(h)
         \/ SetActiveMode(h) \/ PutModeAgents(h)
  PROVE  /\ up /\ pc[h] = "begin"
         /\ \/ \E code \in Nat : Answer(h, code) /\ (Mutating(h) => code \notin {200, 201})
            \/ Changing(h) /\ \E code \in Nat : UnlockToPersist(h, code)
            \/ Drop(h) /\ UNCHANGED <<disk, up, memory>>
<1>1. up /\ pc[h] = "begin"
  BY DEF UpsertAgent, RemoveAgent, SetPrompt, AgentByName, Agents, SetActiveMode,
         PutModeAgents, Handling
<1> DEFINE Ends == \/ \E code \in Nat : Answer(h, code) /\ (Mutating(h) => code \notin {200, 201})
                   \/ Changing(h) /\ \E code \in Nat : UnlockToPersist(h, code)
                   \/ Drop(h) /\ UNCHANGED <<disk, up, memory>>
<1>2. Ends
  <2>1. CASE UpsertAgent(h)
    <3>1. Changing(h)
      BY <2>1 DEF UpsertAgent, Handling, Changing
    <3> QED
      BY <2>1, <3>1 DEF UpsertAgent
  <2>2. CASE RemoveAgent(h)
    <3>1. Changing(h)
      BY <2>2 DEF RemoveAgent, Handling, Changing
    <3> QED
      BY <2>2, <3>1 DEF RemoveAgent
  <2>3. CASE SetPrompt(h)
    <3>1. Changing(h)
      BY <2>3 DEF SetPrompt, Handling, Changing
    <3> QED
      BY <2>3, <3>1 DEF SetPrompt
  <2>4. CASE AgentByName(h) \/ Agents(h)
    <3>1. (Answer(h, 404) \/ Answer(h, 200)) /\ ~Mutating(h)
      BY <2>4 DEF AgentByName, Agents, Handling, Mutating
    <3> QED
      BY <3>1
  <2>5. CASE SetActiveMode(h)
    <3>1. Answer(h, 400) \/ Answer(h, 404) \/ UnlockToPersist(h, 200)
      BY <2>5 DEF SetActiveMode
    <3>2. Changing(h) /\ ~Mutating(h)
      BY <2>5 DEF SetActiveMode, Handling, Changing, Mutating
    <3> QED
      BY <3>1, <3>2
  <2>6. CASE PutModeAgents(h)
    <3>1. \/ Answer(h, 404) \/ UnlockToPersist(h, 200)
          \/ Drop(h) /\ UNCHANGED <<disk, up, memory>>
      BY <2>6 DEF PutModeAgents
    <3>2. Changing(h) /\ ~Mutating(h)
      BY <2>6 DEF PutModeAgents, Handling, Changing, Mutating
    <3> QED
      BY <3>1, <3>2
  <2> QED
    BY <2>1, <2>2, <2>3, <2>4, <2>5, <2>6
<1> QED
  BY <1>1, <1>2

LEMMA SerialSection ==
  ASSUME TypeOK, SerialInv, InTurn, NEW h \in Handlers,
         \/ UpsertAgent(h) \/ RemoveAgent(h) \/ SetPrompt(h) \/ AgentByName(h) \/ Agents(h)
         \/ SetActiveMode(h) \/ PutModeAgents(h)
  PROVE  SerialInv'
<1>1. CASE Drop(h) /\ UNCHANGED <<disk, up, memory>>
  BY <1>1, SectionEnds, SerialDrop DEF disk
<1> QED
  BY <1>1, SectionEnds, SerialAnswer, SerialUnlock

-----------------------------------------------------------------------------
(* Persisting. *)

LEMMA PersistTurn ==
  ASSUME TypeOK, SerialInv, NEW h \in Handlers, up, Persisting(h)
  PROVE  Changing(h) /\ Filled(h)
BY DEF SerialInv

LEMMA SerialSnapshot ==
  ASSUME TypeOK, SerialInv, InTurn, NEW h \in Handlers, PersistSnapshot(h)
  PROVE  SerialInv'
<1>0. Changing(h)
  BY PersistTurn DEF PersistSnapshot, At, Persisting
<1>1. /\ pc'[h] = "agents" /\ up' /\ UNCHANGED <<file, memory, req>>
      /\ unread'[h] = Names
      /\ \A g \in Handlers \ {h} : pc'[g] = pc[g]
  BY DEF PersistSnapshot, At, Goto, disk, TypeOK
<1>2. snap'[h].active_mode = activeMode /\ snap'[h].removed_agents = removed
  BY DEF PersistSnapshot, TypeOK, EmptyPayload
<1>3. Filled(h)' /\ Persisting(h)'
  BY <1>1, <1>2 DEF Filled, Persisting, memory
<1> QED
  BY <1>0, <1>1, <1>3, SerialTurn

LEMMA SerialMarshalAgent ==
  ASSUME TypeOK, SerialInv, InTurn, NEW h \in Handlers, MarshalAgent(h)
  PROVE  SerialInv'
<1>0. up /\ pc[h] = "agents" /\ Changing(h) /\ Filled(h)
  BY PersistTurn DEF MarshalAgent, At, Persisting
<1>1. PICK n \in unread[h] : /\ snap' = [snap EXCEPT ![h].agents[n] = over[n]]
                             /\ unread' = [unread EXCEPT ![h] = @ \ {n}]
  BY DEF MarshalAgent
<1>2. pc' = pc /\ up' /\ UNCHANGED <<file, memory, req>>
  BY <1>0 DEF MarshalAgent, disk
<1>3. unread'[h] = unread[h] \ {n} /\ unread[h] \subseteq Names /\ n \in Names
  BY <1>0, <1>1 DEF TypeOK
<1>4. /\ snap'[h].agents = [snap[h].agents EXCEPT ![n] = over[n]]
      /\ snap'[h].active_mode = snap[h].active_mode
      /\ snap'[h].removed_agents = snap[h].removed_agents
  BY <1>0, <1>1 DEF TypeOK, Payload
<1>5. \A x \in Names \ unread'[h] : snap'[h].agents[x] = over[x]
  <2>1. snap[h].agents \in Rosters
    BY <1>0 DEF TypeOK, Payload
  <2> QED
    BY <1>0, <1>3, <1>4, <2>1 DEF Filled, Rosters
<1>6. keys'[h] = Present(over)
  BY <1>0 DEF MarshalAgent, TypeOK, Filled
<1>7. Filled(h)' /\ Persisting(h)'
  <2>1. UNCHANGED <<over, removed, activeMode>>
    BY <1>2 DEF memory
  <2>2. Present(over)' = Present(over)
    BY <2>1 DEF Present
  <2> QED
    BY <1>0, <1>2, <1>4, <1>5, <1>6, <2>1, <2>2 DEF Filled, Persisting
<1> QED
  BY <1>0, <1>2, <1>7, SerialTurn

(* In turn, the encoder always finds the sizes it expected. *)
LEMMA SerialMarshalEnds ==
  ASSUME TypeOK, SerialInv, InTurn, NEW h \in Handlers, MarshalEnds(h)
  PROVE  SerialInv'
<1>0. up /\ pc[h] = "agents" /\ unread[h] = {} /\ Changing(h) /\ Filled(h)
  BY PersistTurn DEF MarshalEnds, At, Persisting
<1>1. snap[h].agents = over /\ keys[h] = Present(over)
  <2>1. snap[h].agents \in Rosters /\ over \in Rosters
    BY <1>0 DEF TypeOK, Payload
  <2>2. \A n \in Names : snap[h].agents[n] = over[n]
    BY <1>0 DEF Filled
  <2>3. keys[h] = Present(over)
    BY <1>0, StoreAssumption DEF Filled
  <2> QED
    BY <2>1, <2>2, <2>3 DEF Rosters
<1>2. /\ pc'[h] = "modes" /\ up' /\ UNCHANGED <<file, memory, snap, req>>
      /\ \A g \in Handlers \ {h} : pc'[g] = pc[g]
  <2>1. Goto(h, "modes") /\ UNCHANGED <<disk, up, memory, snap, req>>
    BY <1>1 DEF MarshalEnds
  <2> QED
    BY <1>0, <2>1 DEF Goto, TypeOK, disk
<1>3. Filled(h)' /\ Persisting(h)'
  BY <1>0, <1>1, <1>2 DEF Filled, Persisting, memory
<1> QED
  BY <1>0, <1>2, <1>3, SerialTurn

LEMMA SerialMarshalModes ==
  ASSUME TypeOK, SerialInv, InTurn, NEW h \in Handlers, MarshalModes(h)
  PROVE  SerialInv'
<1>0. up /\ pc[h] = "modes" /\ Changing(h) /\ Filled(h)
  BY PersistTurn DEF MarshalModes, At, Persisting
<1>1. /\ pc'[h] = "open" /\ up' /\ UNCHANGED <<file, memory, req>>
      /\ \A g \in Handlers \ {h} : pc'[g] = pc[g]
  BY <1>0 DEF MarshalModes, Goto, TypeOK, disk
<1>2. /\ snap'[h].modes_config = EncodedModes
      /\ snap'[h].agents = snap[h].agents
      /\ snap'[h].active_mode = snap[h].active_mode
      /\ snap'[h].removed_agents = snap[h].removed_agents
  BY <1>0 DEF MarshalModes, TypeOK, Payload, EncodedModes
<1>3. EncodedModes' = EncodedModes
  BY <1>1 DEF EncodedModes, memory
<1>4. Filled(h)' /\ Persisting(h)'
  BY <1>0, <1>1, <1>2, <1>3 DEF Filled, Persisting, memory
<1> QED
  BY <1>0, <1>1, <1>4, SerialTurn

LEMMA SerialOpen ==
  ASSUME TypeOK, SerialInv, InTurn, NEW h \in Handlers, OpenFile(h)
  PROVE  SerialInv'
<1>0. up /\ pc[h] = "open" /\ Changing(h) /\ Filled(h)
  BY PersistTurn DEF OpenFile, At, Persisting
<1>1. /\ pc'[h] = "write" /\ up' /\ file' = Empty /\ UNCHANGED <<memory, snap, req>>
      /\ \A g \in Handlers \ {h} : pc'[g] = pc[g]
  BY <1>0 DEF OpenFile, Goto, TypeOK
<1>2. EncodedModes' = EncodedModes
  BY <1>1 DEF EncodedModes, memory
<1>3. Filled(h)' /\ Persisting(h)'
  BY <1>0, <1>1, <1>2 DEF Filled, Persisting, memory
<1> QED
  BY <1>0, <1>1, <1>3, SerialTurn

(* The write finds the file as this handler truncated it. *)
LEMMA WholePayload ==
  ASSUME TypeOK, SerialInv, NEW h \in Handlers, WriteFile(h)
  PROVE  /\ file' = snap[h]
         /\ SavedOver(file') = over
         /\ SavedRemoved(file') = removed
<1>0. up /\ pc[h] = "write" /\ Changing(h) /\ Filled(h)
  BY PersistTurn DEF WriteFile, At, Persisting
<1>1. file' = snap[h]
  BY <1>0 DEF WriteFile, Filled, Overlay
<1>2. snap[h] \in Payload
  BY <1>0 DEF TypeOK
<1> QED
  BY <1>0, <1>1, <1>2 DEF Filled, SavedOver, SavedRemoved

LEMMA SerialWrite ==
  ASSUME TypeOK, SerialInv, InTurn, NEW h \in Handlers, WriteFile(h)
  PROVE  SerialInv'
<1>0. up /\ pc[h] = "write" /\ Changing(h) /\ Filled(h)
  BY PersistTurn DEF WriteFile, At, Persisting
<1>1. file' = snap[h] /\ snap[h] \in Payload
  BY <1>0, WholePayload DEF TypeOK
<1>2. SavedActive(file') = activeMode /\ SavedModes(file') = EncodedModes
  BY <1>0, <1>1 DEF Filled, SavedActive, SavedModes
<1>3. /\ pc'[h] = "reply" /\ up' /\ UNCHANGED memory
      /\ \A g \in Handlers \ {h} : pc'[g] = pc[g]
  BY <1>0 DEF WriteFile, Goto, TypeOK
<1>4. Restores(file)'
  <2>1. UNCHANGED <<over, removed, activeMode, modesConfig>>
    BY <1>3 DEF memory
  <2>2. \A m \in KnownModes : SavedModes(file')[m] = Encode(modesConfig[m])
    BY <1>2 DEF EncodedModes
  <2> QED
    BY <1>2, <2>1, <2>2, WholePayload DEF Restores
<1>5. Filled(h)' /\ ~Persisting(h)'
  BY <1>3 DEF Filled, Persisting
<1> QED
  BY <1>0, <1>3, <1>4, <1>5, SerialTurn

-----------------------------------------------------------------------------
(* The process. *)

LEMMA SerialBoot ==
  ASSUME TypeOK, SerialInv, Boot
  PROVE  SerialInv'
<1>1. up' /\ UNCHANGED file /\ \A h \in Handlers : pc'[h] = "idle"
  BY DEF Boot, SerialInv, work, disk
<1>2. over' = SavedOver(file) /\ removed' = SavedRemoved(file)
  BY DEF Boot
<1>3. SavedActive(file) \in {"", activeMode'}
  BY DEF Boot
<1>4. \A m \in KnownModes : SavedModes(file)[m] \in {Absent, Encode(modesConfig'[m])}
  <2> SUFFICES ASSUME NEW m \in KnownModes, SavedModes(file)[m] # Absent
               PROVE  SavedModes(file)[m] = Encode(modesConfig'[m])
    OBVIOUS
  <2>1. modesConfig'[m] = SavedModes(file)[m]
    BY DEF Boot
  <2>2. SavedModes(file)[m] # NilMap
    BY SavedTypes, StoreAssumption DEF JsonModes
  <2> QED
    BY <2>1, <2>2 DEF Encode
<1>5. Restores(file)'
  BY <1>1, <1>2, <1>3, <1>4 DEF Restores
<1>6. \A h \in Handlers : Filled(h)' /\ ~Persisting(h)'
  BY <1>1 DEF Filled, Persisting
<1> QED
  BY <1>1, <1>5, <1>6 DEF SerialInv, UpToDate

LEMMA SerialServe ==
  ASSUME TypeOK, SerialInv, InTurn, NEW h \in Handlers, Serve(h)
  PROVE  SerialInv'
<1>1. CASE Respond(h)
  BY <1>1, SerialDrop DEF Respond, At, disk
<1> QED
  BY <1>1, SerialSection, SerialSnapshot, SerialMarshalAgent, SerialMarshalEnds,
     SerialMarshalModes, SerialOpen, SerialWrite DEF Serve

LEMMA SerialStep ==
  ASSUME TypeOK, SerialInv, InTurn, [Next]_vars
  PROVE  SerialInv'
<1>1. ASSUME NEW h \in Handlers, Receive(h) PROVE SerialInv'
  <2>1. /\ up /\ up' /\ pc[h] = "idle" /\ pc'[h] = "begin"
        /\ UNCHANGED <<file, memory, snap, keys, unread>>
        /\ \A g \in Handlers \ {h} : pc'[g] = pc[g] /\ req'[g] = req[g]
    BY <1>1 DEF Receive, At, Goto, disk, TypeOK
  <2> QED
    BY <2>1, SerialSettled DEF Persisting
<1>2. ASSUME NEW h \in Handlers, Serve(h) PROVE SerialInv'
  BY <1>2, SerialServe
<1>3. ASSUME NEW h \in Handlers, PersistFails(h) PROVE SerialInv'
  <2>1. /\ up /\ up' /\ IOFaults /\ Persisting(h) /\ pc'[h] = "reply"
        /\ \A g \in Handlers \ {h} : pc'[g] = pc[g]
    BY <1>3 DEF PersistFails, At, Goto, TypeOK, Persisting
  <2>2. Filled(h)' /\ ~Persisting(h)'
    BY <2>1 DEF Filled, Persisting
  <2> QED
    BY <2>1, <2>2, PersistTurn, SerialTurn
<1>4. CASE Crash \/ MapFatal
  BY <1>4 DEF Crash, MapFatal, Die, AllHandlers, SerialInv, Filled, Persisting, UpToDate
<1>5. CASE Boot
  BY <1>5, SerialBoot
<1>6. CASE EditSwarm \/ UNCHANGED vars
  <2>1. UNCHANGED <<file, up, memory, work>>
    BY <1>6 DEF EditSwarm, vars, disk
  <2> QED
    BY <2>1 DEF SerialInv, Filled, UpToDate, Persisting, Changing, Restores, EncodedModes,
                Present, memory, work
<1> QED
  BY <1>1, <1>2, <1>3, <1>4, <1>5, <1>6 DEF Next

LEMMA AlwaysSerial == Spec /\ []InTurn => []SerialInv
<1>1. Init => SerialInv
  BY DEF Init, SerialInv, AllHandlers, Filled, Persisting, UpToDate
<1>2. TypeOK /\ SerialInv /\ InTurn /\ [Next]_vars => SerialInv'
  BY SerialStep
<1> QED
  BY <1>1, <1>2, TypeCorrect, PTL DEF Spec

(* Registrations "survive restarts via overrides.json": if the requests that
   may change something take turns and the disk does not fail, whenever no
   request is in progress the file restores the roster and the settings that
   the process serves, whatever was read meanwhile, whatever was killed
   before and however swarm-config was edited. *)
THEOREM SerialDurable ==
  ASSUME IOFaults = FALSE
  PROVE  Spec /\ []InTurn => []QuiescentDurable
<1>1. SerialInv /\ Rebuilt => QuiescentDurable
  BY DEF SerialInv, UpToDate, Persisting, Restores, Rebuilt, QuiescentDurable, Quiet
<1> QED
  BY <1>1, AlwaysSerial, AlwaysRebuilt, PTL

-----------------------------------------------------------------------------

LEMMA ConflictStep ==
  ASSUME TypeOK, SerialInv, NoTombstonedOverride, IOFaults = FALSE, [Next]_vars
  PROVE  NoTombstonedOverride'
<1> DEFINE FileFree(f) == \A n \in SavedRemoved(f) : SavedOver(f)[n] = NoAgent
<1>1. Conflicted' = {}
  <2>1. ASSUME NEW h \in Handlers, Serve(h) PROVE Conflicted' = {}
    BY <2>1, ConflictServe DEF NoTombstonedOverride
  <2>2. CASE (\E h \in Handlers : Receive(h)) \/ EditSwarm \/ UNCHANGED vars
    BY <2>2, ConflictKept DEF Receive, EditSwarm, vars, memory, NoTombstonedOverride
  <2>3. CASE Crash \/ MapFatal
    BY <2>3 DEF Crash, MapFatal, Die, Conflicted
  <2>4. CASE Boot
    BY <2>4 DEF Boot, Conflicted, NoTombstonedOverride
  <2> QED
    BY <2>1, <2>2, <2>3, <2>4 DEF Next, PersistFails
<1>2. FileFree(file')
  <2>1. ASSUME NEW h \in Handlers, WriteFile(h) PROVE FileFree(file')
    BY <2>1, WholePayload DEF NoTombstonedOverride, Conflicted
  <2>2. ASSUME NEW h \in Handlers, OpenFile(h) PROVE FileFree(file')
    BY <2>2, StoreAssumption DEF OpenFile, SavedRemoved
  <2>3. CASE UNCHANGED file
    BY <2>3 DEF NoTombstonedOverride
  <2>4. (\E h \in Handlers : WriteFile(h) \/ OpenFile(h)) \/ UNCHANGED file
    <3>1. ASSUME NEW h \in Handlers, Receive(h) \/ PersistFails(h) PROVE UNCHANGED file
      BY <3>1 DEF Receive, PersistFails, disk
    <3>2. ASSUME NEW h \in Handlers, Serve(h)
          PROVE  WriteFile(h) \/ OpenFile(h) \/ UNCHANGED file
      <4>1. ASSUME UpsertAgent(h) \/ RemoveAgent(h) \/ SetPrompt(h) PROVE UNCHANGED file
        BY <4>1 DEF UpsertAgent, RemoveAgent, SetPrompt, Answer, UnlockToPersist, disk
      <4>2. ASSUME AgentByName(h) \/ Agents(h) \/ SetActiveMode(h) PROVE UNCHANGED file
        BY <4>2 DEF AgentByName, Agents, SetActiveMode, Answer, UnlockToPersist, disk
      <4>3. ASSUME PutModeAgents(h) PROVE UNCHANGED file
        BY <4>3 DEF PutModeAgents, Answer, UnlockToPersist, disk
      <4>4. ASSUME \/ PersistSnapshot(h) \/ MarshalAgent(h) \/ MarshalEnds(h)
                   \/ MarshalModes(h) \/ Respond(h)
            PROVE  UNCHANGED file
        BY <4>4 DEF PersistSnapshot, MarshalAgent, MarshalEnds, MarshalModes, Respond, disk
      <4> QED
        BY <3>2, <4>1, <4>2, <4>3, <4>4 DEF Serve
    <3>3. ASSUME Crash \/ MapFatal \/ Boot \/ EditSwarm PROVE UNCHANGED file
      BY <3>3 DEF Crash, MapFatal, Die, Boot, EditSwarm, disk
    <3>4. ASSUME UNCHANGED vars PROVE UNCHANGED file
      BY <3>4 DEF vars, disk
    <3> QED
      BY <3>1, <3>2, <3>3, <3>4 DEF Next
  <2> QED
    BY <2>1, <2>2, <2>3, <2>4
<1> QED
  BY <1>1, <1>2 DEF NoTombstonedOverride

(* Under the same conditions neither the memory nor the file ever records a
   name as both tombstoned and overridden. *)
THEOREM SerialTombstones ==
  ASSUME IOFaults = FALSE
  PROVE  Spec /\ []InTurn => []NoTombstonedOverride
<1>1. Init => NoTombstonedOverride
  BY StoreAssumption DEF Init, NoTombstonedOverride, Conflicted, SavedRemoved
<1>2. TypeOK /\ SerialInv /\ NoTombstonedOverride /\ [Next]_vars => NoTombstonedOverride'
  BY ConflictStep
<1> QED
  BY <1>1, <1>2, AlwaysSerial, TypeCorrect, PTL DEF Spec

-----------------------------------------------------------------------------
(* What clients were told is in the file. *)

(* Nobody edits the agents of swarm-config, and whoever's write fails is told:
   a prompt edit is not. *)
FixedAgents == \A s, t \in SwarmConfigs : s.agents = t.agents
FailuresTold == IOFaults => \A r \in Requests : r.op # "prompt"

Whole == file \notin {Empty, Garbage}

(* What a restart now would serve. *)
Restored == rebuildAgentsLocked(swarm.agents, SavedOver(file), SavedRemoved(file))

(* A client that counts on a name is served it, now and after a restart. *)
Counted(n) ==
  acked[n] # Open => /\ up => acked[n] = agents[n]
                     /\ Whole => acked[n] = Restored[n]

Undecided(h) == Mutating(h) => acked[req[h].name] = Open

Success(h) == pc[h] = "reply" /\ Mutating(h) /\ status[h] \in {200, 201}

(* Before it answers with success a handler has seen its change to the file. *)
Recorded(h) == Success(h) /\ Whole => agents[req[h].name] = Restored[req[h].name]

KeepInv ==
  /\ acked \in [Names -> Agent \cup {NoAgent, Open}]
  /\ \A n \in Names : Counted(n)
  /\ \A h \in Handlers : Undecided(h) /\ Recorded(h)

BaseIsSwarms == up => base = swarm.agents

(* All that holds of Store itself. *)
Ground == TypeOK /\ SerialInv /\ Rebuilt /\ BaseIsSwarms

NoteAll == acked' = [n \in Names |-> Note(n)]

(* A name that a request is under way for is open, whatever the step. *)
LEMMA StaysUndecided ==
  ASSUME TypeOK', NEW h \in Handlers, NoteAll, up, Mutating(h)'
  PROVE  acked'[req'[h].name] = Open
<1>1. req'[h].name \in Names
  BY RequestFields DEF TypeOK, Mutating
<1>2. Pending(h, req'[h].name)
  BY DEF Mutating, Pending
<1> QED
  BY <1>1, <1>2 DEF NoteAll, Note

(* What may become of what a client counts on, while the process runs. *)
LEMMA NoteWhileUp ==
  ASSUME NoteAll, up, NEW n \in Names
  PROVE  \/ acked'[n] \in {Open, acked[n]}
         \/ /\ acked'[n] = agents[n]
            /\ \E g \in Handlers : Success(g) /\ pc'[g] # pc[g] /\ req[g].name = n
BY DEF NoteAll, Note, Answered, Success

LEMMA NoteTyped ==
  ASSUME TypeOK, KeepInv, NoteAll, up
  PROVE  acked' \in [Names -> Agent \cup {NoAgent, Open}]
BY NoteWhileUp DEF NoteAll, KeepInv, TypeOK, Rosters

(* A step of one handler leaves the requests of the others where they are. *)
Apart(h) ==
  \A g \in Handlers \ {h} : pc'[g] = pc[g] /\ req'[g] = req[g] /\ status'[g] = status[g]

LEMMA OthersStay ==
  ASSUME TypeOK, NEW h \in Handlers, Receive(h) \/ Serve(h) \/ PersistFails(h)
  PROVE  Apart(h)
<1>1. CASE \/ UpsertAgent(h) \/ RemoveAgent(h) \/ SetPrompt(h) \/ AgentByName(h) \/ Agents(h)
           \/ SetActiveMode(h) \/ PutModeAgents(h)
  BY <1>1, SectionEnds DEF Answer, UnlockToPersist, Drop, Goto, TypeOK, Apart
<1>2. CASE PersistSnapshot(h) \/ MarshalAgent(h) \/ MarshalEnds(h) \/ MarshalModes(h)
  BY <1>2 DEF PersistSnapshot, MarshalAgent, MarshalEnds, MarshalModes, Goto, Drop, TypeOK, Apart
<1>3. CASE \/ Receive(h) \/ OpenFile(h) \/ WriteFile(h) \/ PersistFails(h) \/ Respond(h)
  BY <1>3 DEF Receive, OpenFile, WriteFile, PersistFails, Respond, Goto, Drop, TypeOK, Apart
<1> QED
  BY <1>1, <1>2, <1>3 DEF Serve

(* Steps that change neither the list nor the file. *)
LEMMA KeepCalm ==
  ASSUME Ground, TypeOK', KeepInv, NoteAll, up, up',
         UNCHANGED <<agents, file>>, swarm'.agents = swarm.agents,
         \A g \in Handlers : Success(g)' => Success(g) /\ req'[g] = req[g]
  PROVE  KeepInv'
<1>1. Restored' = Restored /\ Whole' = Whole
  BY DEF Restored, Whole, rebuildAgentsLocked
<1>2. acked' \in [Names -> Agent \cup {NoAgent, Open}]
  BY NoteTyped DEF Ground
<1>3. ASSUME NEW n \in Names PROVE Counted(n)'
  BY <1>1, NoteWhileUp DEF KeepInv, Counted, Recorded
<1>4. ASSUME NEW g \in Handlers PROVE Undecided(g)'
  BY StaysUndecided DEF Undecided
<1>5. ASSUME NEW g \in Handlers PROVE Recorded(g)'
  BY <1>1 DEF Recorded, KeepInv
<1> QED
  BY <1>2, <1>3, <1>4, <1>5 DEF KeepInv

(* Steps that change the file, and leave it either useless or up to date. *)
LEMMA KeepFile ==
  ASSUME Ground, TypeOK', KeepInv, NoteAll, NEW h \in Handlers, Apart(h), up, up',
         pc[h] # "reply", UNCHANGED agents,
         Whole' => \A n \in Names : agents'[n] = Restored'[n]
  PROVE  KeepInv'
<1>1. ASSUME NEW n \in Names PROVE acked'[n] \in {Open, acked[n]}
  BY NoteWhileUp DEF Success, Apart
<1>2. acked' \in [Names -> Agent \cup {NoAgent, Open}]
  BY NoteTyped DEF Ground
<1>3. ASSUME NEW n \in Names PROVE Counted(n)'
  BY <1>1 DEF KeepInv, Counted
<1>4. ASSUME NEW g \in Handlers PROVE Undecided(g)'
  BY StaysUndecided DEF Undecided
<1>5. ASSUME NEW g \in Handlers PROVE Recorded(g)'
  <2>1. Mutating(g)' => req'[g].name \in Names
    BY RequestFields DEF TypeOK, Mutating
  <2> QED
    BY <2>1 DEF Recorded, Success
<1> QED
  BY <1>2, <1>3, <1>4, <1>5 DEF KeepInv

(* A critical section of a changing request: what it changes is open, and
   nobody else is about to answer a change with success. *)
LEMMA KeepMutation ==
  ASSUME Ground, TypeOK', KeepInv, NoteAll, InTurn, NEW h \in Handlers, Apart(h), Changing(h),
         up, up', pc[h] = "begin", pc'[h] = "snapshot", UNCHANGED <<file, swarm>>,
         \A n \in Names : agents'[n] # agents[n] => Mutating(h)' /\ req'[h].name = n
  PROVE  KeepInv'
<1>1. Restored' = Restored /\ Whole' = Whole
  BY DEF Restored, Whole, rebuildAgentsLocked
<1>2. acked' \in [Names -> Agent \cup {NoAgent, Open}]
  BY NoteTyped DEF Ground
<1>3. ASSUME NEW n \in Names PROVE Counted(n)'
  <2>1. agents'[n] # agents[n] => acked'[n] = Open
    BY StaysUndecided
  <2>2. acked'[n] \in {Open, acked[n]}
    BY NoteWhileUp DEF Success, Apart
  <2> QED
    BY <1>1, <2>1, <2>2 DEF KeepInv, Counted
<1>4. ASSUME NEW g \in Handlers PROVE Undecided(g)'
  BY StaysUndecided DEF Undecided
<1>5. ASSUME NEW g \in Handlers PROVE Recorded(g)'
  <2>1. g # h => ~Success(g)'
    BY DEF InTurn, Changing, Apart, Success, Mutating
  <2> QED
    BY <2>1 DEF Recorded, Success
<1> QED
  BY <1>2, <1>3, <1>4, <1>5 DEF KeepInv

(* A handler that answers no success, or a request that changes nothing. *)
LEMMA KeepAnswer ==
  ASSUME Ground, TypeOK', KeepInv, NoteAll, NEW h \in Handlers, up, pc[h] = "begin",
         NEW code, Answer(h, code), Mutating(h) => code \notin {200, 201}
  PROVE  KeepInv'
<1>1. /\ up' /\ UNCHANGED <<agents, file, swarm, req>> /\ Apart(h)
      /\ pc'[h] = "reply" /\ status'[h] = code
  BY DEF Answer, Goto, disk, memory, Ground, TypeOK, Apart
<1>2. ~Success(h)'
  BY <1>1 DEF Success, Mutating
<1> QED
  BY <1>1, <1>2, KeepCalm DEF Apart, Success, Mutating

LEMMA KeepSection ==
  ASSUME Ground, TypeOK', KeepInv, NoteAll, InTurn, NEW h \in Handlers, Serve(h),
         \/ UpsertAgent(h) \/ RemoveAgent(h) \/ SetPrompt(h) \/ AgentByName(h) \/ Agents(h)
         \/ SetActiveMode(h) \/ PutModeAgents(h)
  PROVE  KeepInv'
<1>0. TypeOK /\ up /\ pc[h] = "begin" /\ Apart(h)
  BY SectionEnds, OthersStay DEF Ground
<1>1. CASE \E code \in Nat : Answer(h, code) /\ (Mutating(h) => code \notin {200, 201})
  BY <1>0, <1>1, KeepAnswer
<1>2. CASE Changing(h) /\ \E code \in Nat : UnlockToPersist(h, code)
  <2>1. up' /\ pc'[h] = "snapshot" /\ UNCHANGED <<file, swarm, req>>
    BY <1>0, <1>2 DEF UnlockToPersist, Goto, disk, TypeOK
  <2>2. \A n \in Names : agents'[n] # agents[n] => Mutating(h)' /\ req'[h].name = n
    BY <1>0, <2>1, ChangedIsNamed DEF Ground, Mutating
  <2> QED
    BY <1>0, <1>2, <2>1, <2>2, KeepMutation
<1>3. CASE Drop(h) /\ UNCHANGED <<disk, up, memory>>
  <2>1. pc'[h] = "idle" /\ up' /\ UNCHANGED <<agents, file, swarm>>
    BY <1>0, <1>3 DEF Drop, Goto, disk, memory, TypeOK
  <2> QED
    BY <1>0, <2>1, KeepCalm DEF Success, Mutating, Apart
<1> QED
  BY <1>0, <1>1, <1>2, <1>3, SectionEnds

LEMMA KeepPersist ==
  ASSUME Ground, TypeOK', KeepInv, NoteAll, FailuresTold, NEW h \in Handlers,
         \/ PersistSnapshot(h) \/ MarshalAgent(h) \/ MarshalEnds(h) \/ MarshalModes(h)
         \/ OpenFile(h) \/ WriteFile(h) \/ PersistFails(h) \/ Respond(h)
  PROVE  KeepInv'
<1>0. TypeOK /\ Apart(h)
  BY OthersStay DEF Ground, Serve
<1>1. CASE \/ PersistSnapshot(h) \/ MarshalAgent(h) \/ MarshalEnds(h) \/ MarshalModes(h)
           \/ Respond(h)
  <2>1. up /\ up' /\ UNCHANGED <<agents, file, swarm>>
    BY <1>1 DEF PersistSnapshot, MarshalAgent, MarshalEnds, MarshalModes, Respond, At,
                disk, memory
  <2>2. pc'[h] # "reply"
    BY <1>0, <1>1 DEF PersistSnapshot, MarshalAgent, MarshalEnds, MarshalModes, Respond, At,
                      Goto, Drop, TypeOK
  <2> QED
    BY <1>0, <2>1, <2>2, KeepCalm DEF Success, Mutating, Apart
<1>2. CASE OpenFile(h)
  <2>1. up /\ up' /\ UNCHANGED agents /\ file' = Empty /\ pc[h] = "open"
    BY <1>2 DEF OpenFile, At, memory
  <2> QED
    BY <1>0, <2>1, KeepFile DEF Whole
<1>3. CASE WriteFile(h)
  <2>1. up /\ up' /\ UNCHANGED <<base, over, removed, agents, swarm>> /\ pc[h] = "write"
    BY <1>3 DEF WriteFile, At, memory
  <2>2. agents' = Restored'
    BY <2>1, <1>3, WholePayload
       DEF Restored, Ground, Rebuilt, BaseIsSwarms, rebuildAgentsLocked
  <2> QED
    BY <1>0, <2>1, <2>2, KeepFile
<1>4. CASE PersistFails(h)
  <2>1. /\ up /\ up' /\ UNCHANGED <<agents, swarm, req>> /\ file' \in {file, Garbage}
        /\ pc[h] \in {"open", "write"} /\ IOFaults
        /\ status'[h] = FailureStatus(req[h].op, status[h])
    BY <1>0, <1>4 DEF PersistFails, At, memory, TypeOK
  <2>2. ~Success(h)'
    <3>1. req[h] \in Requests
      BY <1>0, <2>1 DEF TypeOK
    <3>2. req[h].op # "prompt"
      BY <2>1, <3>1 DEF FailuresTold
    <3> QED
      BY <2>1, <3>2 DEF Success, Mutating, FailureStatus
  <2>3. CASE file' = file
    BY <1>0, <2>1, <2>2, <2>3, KeepCalm DEF Success, Mutating, Apart
  <2>4. CASE file' = Garbage
    BY <1>0, <2>1, <2>4, KeepFile DEF Whole
  <2> QED
    BY <2>1, <2>3, <2>4
<1> QED
  BY <1>1, <1>2, <1>3, <1>4

LEMMA KeepBoot ==
  ASSUME Ground, KeepInv, NoteAll, Boot
  PROVE  /\ KeepInv'
         /\ Whole => Kept
<1>1. /\ ~up /\ up' /\ UNCHANGED <<swarm, file>>
      /\ agents' = Restored
      /\ agents' \in Rosters
      /\ \A h \in Handlers : pc'[h] = "idle"
  <2>1. /\ ~up /\ up' /\ UNCHANGED <<swarm, file, pc>>
        /\ agents' = Restored
    BY DEF Boot, Restored, disk, work
  <2>2. Restored \in Rosters
    BY SavedTypes, SwarmTypes, EffectiveRoster DEF Restored, Ground, TypeOK
  <2> QED
    BY <2>1, <2>2 DEF Ground, SerialInv
<1>2. acked' = [n \in Names |-> agents'[n]]
  BY <1>1 DEF NoteAll, Note
<1>3. Restored' = Restored
  BY <1>1 DEF Restored
<1>4. KeepInv'
  BY <1>1, <1>2, <1>3 DEF KeepInv, Counted, Undecided, Recorded, Success, Mutating, Rosters
<1>5. Whole => Kept
  BY <1>1 DEF KeepInv, Counted, Kept
<1> QED
  BY <1>4, <1>5

(* With every handler idle, before and after, nothing is noted or recorded. *)
LEMMA KeepIdle ==
  ASSUME KeepInv, NoteAll, ~(~up /\ up'),
         \A h \in Handlers : pc'[h] = "idle", (\A h \in Handlers : pc[h] = "idle") \/ ~up',
         UNCHANGED file, swarm'.agents = swarm.agents, up' => UNCHANGED agents
  PROVE  KeepInv'
<1>1. acked' = [n \in Names |-> acked[n]]
  BY DEF NoteAll, Note, Pending, Answered
<1>2. Whole' = Whole /\ Restored' = Restored
  BY DEF Whole, Restored, rebuildAgentsLocked
<1> QED
  BY <1>1, <1>2 DEF KeepInv, Counted, Undecided, Recorded, Success, Mutating

LEMMA KeepStep ==
  ASSUME Ground, TypeOK', KeepInv, InTurn, FixedAgents, FailuresTold, [DNext]_dvars
  PROVE  KeepInv'
<1>1. CASE UNCHANGED dvars
  <2>1. /\ UNCHANGED <<swarm, file, up, agents, acked, pc, req, status>>
        /\ Whole' = Whole /\ Restored' = Restored
    BY <1>1 DEF dvars, vars, disk, memory, work, Whole, Restored, rebuildAgentsLocked
  <2> QED
    BY <2>1 DEF KeepInv, Counted, Undecided, Recorded, Success, Mutating
<1>2. ASSUME NoteAll, NEW h \in Handlers, Receive(h) PROVE KeepInv'
  <2>1. /\ up /\ up' /\ UNCHANGED <<agents, file, swarm>> /\ pc'[h] = "begin" /\ Apart(h)
    BY <1>2, OthersStay DEF Receive, At, Goto, disk, memory, Ground, TypeOK
  <2> QED
    BY <1>2, <2>1, KeepCalm DEF Success, Mutating, Apart
<1>3. ASSUME NoteAll, NEW h \in Handlers, Serve(h) \/ PersistFails(h) PROVE KeepInv'
  BY <1>3, KeepSection, KeepPersist DEF Serve
<1>4. CASE NoteAll /\ (Crash \/ MapFatal)
  <2>1. up /\ ~up' /\ UNCHANGED <<file, swarm>> /\ \A h \in Handlers : pc'[h] = "idle"
    BY <1>4 DEF Crash, MapFatal, Die, disk, AllHandlers
  <2> QED
    BY <1>4, <2>1, KeepIdle
<1>5. CASE NoteAll /\ Boot
  BY <1>5, KeepBoot
<1>6. CASE NoteAll /\ EditSwarm
  <2>1. UNCHANGED <<up, agents, file, pc, req, status>> /\ swarm'.agents = swarm.agents
    BY <1>6 DEF EditSwarm, memory, work, Ground, TypeOK, FixedAgents
  <2>2. CASE up
    BY <1>6, <2>1, <2>2, KeepCalm DEF Success, Mutating
  <2>3. CASE ~up
    BY <1>6, <2>1, <2>3, KeepIdle DEF Ground, SerialInv
  <2> QED
    BY <2>2, <2>3
<1> QED
  BY <1>1, <1>2, <1>3, <1>4, <1>5, <1>6 DEF DNext, Next, NoteAll

(* "Agents can be upserted/removed over HTTP and survive restarts via
   overrides.json": if changes take turns, nobody edits swarm-config's
   agents and no prompt edit may fail to be written, a restart that finds
   the file whole brings back every registration and removal that was answered
   with success, whatever was killed and whatever other write failed before. *)
THEOREM AnsweredIsKept ==
  ASSUME FixedAgents, FailuresTold
  PROVE  DSpec /\ []InTurn => SurvivesCleanRestart
<1>1. DSpec => Spec
  <2>1. DInit => Init
    BY DEF DInit
  <2>2. [DNext]_dvars => [Next]_vars
    BY DEF DNext, dvars
  <2> QED
    BY <2>1, <2>2, PTL DEF DSpec, Spec
<1>2. TypeOK /\ BaseWasRead => BaseIsSwarms
  BY DEF TypeOK, BaseWasRead, BaseIsSwarms, FixedAgents
<1>3. TypeOK /\ SerialInv /\ Rebuilt /\ BaseIsSwarms => Ground
  BY DEF Ground
<1>4. Spec /\ []InTurn => []Ground
  BY <1>2, <1>3, TypeCorrect, AlwaysSerial, AlwaysRebuilt, AlwaysBaseWasRead, PTL
<1>5. DInit => KeepInv
  BY DEF DInit, Init, AllHandlers, KeepInv, Counted, Undecided, Recorded, Success, Mutating
<1>6. Ground /\ Ground' /\ KeepInv /\ InTurn /\ [DNext]_dvars => KeepInv'
  BY KeepStep DEF Ground
<1>7. Ground /\ KeepInv /\ [DNext]_dvars
        => [~up /\ up' /\ file \notin {Empty, Garbage} => Kept]_dvars
  <2> SUFFICES ASSUME Ground, KeepInv, DNext, ~up, up', Whole PROVE Kept
    BY DEF Whole
  <2>1. Boot
    BY DEF DNext, Next, Receive, Serve, UpsertAgent, RemoveAgent, SetPrompt, AgentByName,
           Agents, SetActiveMode, PutModeAgents, Handling, PersistSnapshot, MarshalAgent,
           MarshalEnds, MarshalModes, OpenFile, WriteFile, Respond, PersistFails, At, Crash,
           MapFatal, EditSwarm
  <2> QED
    BY <2>1, KeepBoot DEF DNext, NoteAll
<1> QED
  BY <1>1, <1>4, <1>5, <1>6, <1>7, PTL DEF DSpec, SurvivesCleanRestart

=============================================================================
