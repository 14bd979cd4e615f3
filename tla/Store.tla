-------------------------------- MODULE Store -------------------------------
(***************************************************************************)
(* roster.Store behind its HTTP handlers.  A handler is a goroutine of     *)
(* net/http serving one request at a time.  A mutating request             *)
(*                                                                         *)
(*   begin     waits for s.mu, then updates the in-memory maps (one step:  *)
(*             the critical section is not observable from outside);       *)
(*   snapshot  takes s.mu.RLock and builds the payload, which holds copies *)
(*             of the active mode and the tombstones, but REFERENCES to    *)
(*             the maps agentOver and modesConfig;                         *)
(*   agents,   json.MarshalIndent reads those two live maps with no lock,  *)
(*   modes     the registrations entry by entry;                           *)
(*   open      os.WriteFile opens overrides.json with O_TRUNC;             *)
(*   write     and writes the bytes at offset 0 of its own descriptor;     *)
(*   reply     the handler answers.                                        *)
(*                                                                         *)
(* The process may be killed at any step, and is restarted with Boot,      *)
(* which is New: it reads swarm-config.json and overrides.json.            *)
(***************************************************************************)
EXTENDS Roster, FiniteSets

CONSTANTS
  Handlers,      \* concurrent requests
  Requests,      \* what clients may send (a bound on the inputs)
  SwarmConfigs,  \* contents of swarm-config.json (external: edited by hand)
  Kills,         \* whether the process may be killed
  IOFaults,      \* whether writing overrides.json may fail
  ModeNames,     \* what is sent or configured as the name of a mode
  ModeVals,      \* JSON values a client stores in a mode's configuration
  Unset,         \* an object has no such key
  Absent,        \* modesConfig has no entry for the mode
  Null,          \* the entry is JSON null, the nil interface
  NilMap,        \* the entry is a nil map[string]any in a non-nil interface
  Scalar,        \* the entry is JSON that is not an object
  Missing,       \* overrides.json does not exist
  Empty,         \* it has length zero
  Garbage,       \* its bytes are not JSON
  NoRequest

(* modes.Catalog and isKnownMode list the same four modes. *)
KnownModes == {"flat", "pipeline", "cascade", "router"}
isKnownMode(name) == name \in KnownModes
Known(name) == name \in KnownModes

(* The keys PutModeAgents copies; an object's other keys never change. *)
ModeKeys == {"agents", "max_select", "synthesizer", "order"}
ModeObjects == [ModeKeys -> ModeVals \cup {Unset}]
JsonModes == ModeObjects \cup {Absent, Null, Scalar}
ModeConfigs == JsonModes \cup {NilMap}
EmptyObject == [k \in ModeKeys |-> Unset]
NoModes == [m \in KnownModes |-> Absent]

SwarmDoc == [agents : Rosters, modes : [KnownModes -> JsonModes], default_mode : ModeNames]

Payload == [active_mode : ModeNames, modes_config : [KnownModes -> JsonModes],
            agents : Rosters, removed_agents : SUBSET Names]
EmptyPayload == [active_mode |-> "", modes_config |-> NoModes,
                 agents |-> EmptyRoster, removed_agents |-> {}]

AgentRequest ==
  [op : {"post"}, name : Names, agent : Agent]
    \cup [op : {"prompt"}, name : Names, prompt : Prompts]
    \cup [op : {"get", "delete"}, name : Names]
OtherRequest ==
  [op : {"list"}]
    \cup [op : {"active"}, mode : ModeNames]
    \cup [op : {"putmode"}, mode : ModeNames, body : ModeObjects]
Request == AgentRequest \cup OtherRequest

ASSUME StoreAssumption ==
  /\ Names # {}
  /\ Requests \subseteq Request
  /\ SwarmConfigs \subseteq SwarmDoc
  /\ KnownModes \cup {""} \subseteq ModeNames
  /\ Kills \in BOOLEAN /\ IOFaults \in BOOLEAN
  /\ {Absent, Null, NilMap, Scalar} \cap ModeObjects = {}
  /\ Absent # Null /\ Absent # NilMap /\ Absent # Scalar
  /\ Null # NilMap /\ Null # Scalar /\ NilMap # Scalar
  /\ {Missing, Empty, Garbage} \cap Payload = {}
  /\ Missing # Empty /\ Missing # Garbage /\ Empty # Garbage
  /\ NoRequest \notin Request

VARIABLES
  swarm,        \* contents of swarm-config.json
  file,         \* contents of overrides.json
  up,           \* the process runs
  mu,           \* "free", or "leaked" by a panic inside a critical section
  base, over, removed, agents,  \* baseAgents, agentOver, removedNames, agents
  modesConfig, activeMode,
  pc, req, status,  \* per handler: step, request, status it is to answer
  snap,             \* the payload being marshalled
  keys, unread      \* the names agentOver had when marshalling began, and
                    \* those the iteration has still to reach

disk == <<swarm, file>>
memory == <<base, over, removed, agents, modesConfig, activeMode>>
work == <<pc, req, status, snap, keys, unread>>
vars == <<disk, up, mu, memory, work>>

Steps == {"idle", "begin", "snapshot", "agents", "modes", "open", "write", "reply"}

TypeOK ==
  /\ swarm \in SwarmConfigs
  /\ file \in Payload \cup {Missing, Empty, Garbage}
  /\ up \in BOOLEAN
  /\ mu \in {"free", "leaked"}
  /\ base \in Rosters /\ over \in Rosters /\ agents \in Rosters
  /\ removed \in SUBSET Names
  /\ modesConfig \in [KnownModes -> ModeConfigs]
  /\ activeMode \in ModeNames
  /\ pc \in [Handlers -> Steps]
  /\ req \in [Handlers -> Requests \cup {NoRequest}]
  /\ \A h \in Handlers : pc[h] # "idle" => req[h] \in Requests
  /\ status \in [Handlers -> Nat]
  /\ snap \in [Handlers -> Payload]
  /\ keys \in [Handlers -> SUBSET Names]
  /\ unread \in [Handlers -> SUBSET Names]

-----------------------------------------------------------------------------
(* Defects that the runs have to notice. *)

ClearNoTombstone(rem, n) == rem
TombstoneOnly(ov, n) == ov
ObjectsOnly(c) == IF c = Absent THEN EmptyObject ELSE IF c \in ModeObjects THEN c ELSE NilMap
EncodeVerbatim(c) == c
SavedNoTombstones(f) == {}
IgnoreFailure(op, code) == code

-----------------------------------------------------------------------------
(* Pieces of the critical sections. *)

ClearTombstone(rem, n) == rem \ {n}
DropOverride(ov, n) == [ov EXCEPT ![n] = NoAgent]
Tombstone(bs, rem, n) == IF bs[n] # NoAgent THEN rem \cup {n} ELSE rem

(* The map PutModeAgents writes to: a missing or null entry is replaced by
   an empty object, and the failed type assertion of anything else that is
   not an object yields the nil map. *)
ModeObject(c) ==
  IF c \in {Absent, Null} THEN EmptyObject ELSE IF c \in ModeObjects THEN c ELSE NilMap

Touched(body) == {k \in ModeKeys : body[k] # Unset}

Overwrite(c, body) ==
  IF c = NilMap THEN NilMap
  ELSE [k \in ModeKeys |-> IF k \in Touched(body) THEN body[k] ELSE c[k]]

(* encoding/json writes a nil map as null. *)
Encode(c) == IF c = NilMap THEN Null ELSE c

(* What Reload finds in overrides.json: nothing unless it parses. *)
SavedOver(f) == IF f \in Payload THEN f.agents ELSE EmptyRoster
SavedRemoved(f) == IF f \in Payload THEN f.removed_agents ELSE {}
SavedModes(f) == IF f \in Payload THEN f.modes_config ELSE NoModes
SavedActive(f) == IF f \in Payload THEN f.active_mode ELSE ""

(* Bytes p written at offset 0 of a file that another handler may have
   written since it was truncated: the longer contents keep their tail. *)
Overlay(f, p) == IF f \in {Empty, p} THEN {p} ELSE {p, Garbage}

-----------------------------------------------------------------------------
(* Handlers. *)

Handling(h, op) == up /\ pc[h] = "begin" /\ req[h].op = op

At(h, step) == up /\ pc[h] = step

Goto(h, step) == pc' = [pc EXCEPT ![h] = step]

Answer(h, code) ==
  /\ Goto(h, "reply")
  /\ status' = [status EXCEPT ![h] = code]
  /\ UNCHANGED <<disk, up, mu, memory, req, snap, keys, unread>>

(* The tail of a critical section whose caller persists and then answers. *)
UnlockToPersist(h, code) ==
  /\ Goto(h, "snapshot")
  /\ status' = [status EXCEPT ![h] = code]
  /\ UNCHANGED <<disk, up, mu, base, req, snap, keys, unread>>

(* net/http recovers a handler's panic and drops the connection. *)
Drop(h) ==
  /\ Goto(h, "idle")
  /\ req' = [req EXCEPT ![h] = NoRequest]
  /\ status' = [status EXCEPT ![h] = 0]
  /\ snap' = [snap EXCEPT ![h] = EmptyPayload]
  /\ keys' = [keys EXCEPT ![h] = {}]
  /\ unread' = [unread EXCEPT ![h] = {}]

Receive(h) ==
  /\ At(h, "idle")
  /\ \E r \in Requests : req' = [req EXCEPT ![h] = r]
  /\ Goto(h, "begin")
  /\ UNCHANGED <<disk, up, mu, memory, status, snap, keys, unread>>

UpsertAgent(h) ==
  /\ Handling(h, "post")
  /\ LET n == req[h].name
         a == req[h].agent IN
     \/ ~ValidateAgent(n, a) /\ Answer(h, 400)
     \/ /\ ValidateAgent(n, a)
        /\ mu = "free"
        /\ removed' = ClearTombstone(removed, n)
        /\ over' = [over EXCEPT ![n] = a]
        /\ agents' = rebuildAgentsLocked(base, over', removed')
        /\ UnlockToPersist(h, IF findAgentLocked(base, over, removed, n) = NoAgent
                              THEN 201 ELSE 200)
        /\ UNCHANGED <<modesConfig, activeMode>>

RemoveAgent(h) ==
  /\ Handling(h, "delete")
  /\ mu = "free"
  /\ LET n == req[h].name IN
     \/ findAgentLocked(base, over, removed, n) = NoAgent /\ Answer(h, 404)
     \/ /\ findAgentLocked(base, over, removed, n) # NoAgent
        /\ over' = DropOverride(over, n)
        /\ removed' = Tombstone(base, removed, n)
        /\ agents' = rebuildAgentsLocked(base, over', removed')
        /\ UnlockToPersist(h, 200)
        /\ UNCHANGED <<modesConfig, activeMode>>

SetPrompt(h) ==
  /\ Handling(h, "prompt")
  /\ LET n == req[h].name
         cur == findAgentLocked(base, over, removed, n) IN
     \/ req[h].prompt = EmptyPrompt /\ Answer(h, 400)
     \/ req[h].prompt # EmptyPrompt /\ mu = "free" /\ cur = NoAgent /\ Answer(h, 404)
     \/ /\ req[h].prompt # EmptyPrompt
        /\ mu = "free"
        /\ cur # NoAgent
        /\ over' = [over EXCEPT ![n] = [cur EXCEPT !.prompt = req[h].prompt]]
        /\ agents' = rebuildAgentsLocked(base, over', removed)
        /\ UnlockToPersist(h, 200)
        /\ UNCHANGED <<removed, modesConfig, activeMode>>

AgentByName(h) ==
  /\ Handling(h, "get")
  /\ mu = "free"
  /\ Answer(h, IF findAgentLocked(base, over, removed, req[h].name) = NoAgent
               THEN 404 ELSE 200)

Agents(h) ==
  /\ Handling(h, "list")
  /\ mu = "free"
  /\ Answer(h, 200)

SetActiveMode(h) ==
  /\ Handling(h, "active")
  /\ \/ req[h].mode = "" /\ Answer(h, 400)
     \/ req[h].mode # "" /\ ~isKnownMode(req[h].mode) /\ Answer(h, 404)
     \/ /\ isKnownMode(req[h].mode)
        /\ mu = "free"
        /\ activeMode' = req[h].mode
        /\ UnlockToPersist(h, 200)
        /\ UNCHANGED <<over, removed, agents, modesConfig>>

(* Writing to the nil map panics with s.mu held, and nothing unlocks it. *)
PutModeAgents(h) ==
  /\ Handling(h, "putmode")
  /\ LET m == req[h].mode
         body == req[h].body IN
     \/ ~Known(m) /\ Answer(h, 404)
     \/ /\ Known(m)
        /\ mu = "free"
        /\ ModeObject(modesConfig[m]) = NilMap
        /\ Touched(body) # {}
        /\ mu' = "leaked"
        /\ Drop(h)
        /\ UNCHANGED <<disk, up, memory>>
     \/ /\ Known(m)
        /\ mu = "free"
        /\ ModeObject(modesConfig[m]) # NilMap \/ Touched(body) = {}
        /\ modesConfig' =
             [modesConfig EXCEPT ![m] = Overwrite(ModeObject(modesConfig[m]), body)]
        /\ UnlockToPersist(h, 200)
        /\ UNCHANGED <<over, removed, agents, activeMode>>

-----------------------------------------------------------------------------
(* persistOverrides. *)

PersistSnapshot(h) ==
  /\ At(h, "snapshot")
  /\ mu = "free"
  /\ snap' = [snap EXCEPT ![h] = [EmptyPayload EXCEPT !.active_mode = activeMode,
                                                      !.removed_agents = removed]]
  /\ unread' = [unread EXCEPT ![h] = Names]
  /\ Goto(h, "agents")
  /\ UNCHANGED <<disk, up, mu, memory, req, status, keys>>

Present(r) == {n \in Names : r[n] # NoAgent}

(* The iteration over agentOver reaches the next name, in any order.  The
   encoder sized its buffer from the length of the map beforehand. *)
MarshalAgent(h) ==
  /\ At(h, "agents")
  /\ \E n \in unread[h] :
       /\ snap' = [snap EXCEPT ![h].agents[n] = over[n]]
       /\ unread' = [unread EXCEPT ![h] = @ \ {n}]
  /\ keys' = [keys EXCEPT ![h] = IF unread[h] = Names THEN Present(over) ELSE @]
  /\ UNCHANGED <<disk, up, mu, memory, pc, req, status>>

(* Sizes that disagree at the end overrun the buffer, or leave an invalid
   value in it: either way the encoder panics, with no lock held. *)
MarshalEnds(h) ==
  /\ At(h, "agents")
  /\ unread[h] = {}
  /\ \/ /\ Cardinality(Present(snap[h].agents)) = Cardinality(keys[h])
        /\ Goto(h, "modes")
        /\ keys' = [keys EXCEPT ![h] = {}]
        /\ UNCHANGED <<disk, up, mu, memory, req, status, snap, unread>>
     \/ /\ Cardinality(Present(snap[h].agents)) # Cardinality(keys[h])
        /\ Drop(h)
        /\ UNCHANGED <<disk, up, mu, memory>>

MarshalModes(h) ==
  /\ At(h, "modes")
  /\ snap' = [snap EXCEPT ![h].modes_config = [m \in KnownModes |-> Encode(modesConfig[m])]]
  /\ Goto(h, "open")
  /\ UNCHANGED <<disk, up, mu, memory, req, status, keys, unread>>

OpenFile(h) ==
  /\ At(h, "open")
  /\ file' = Empty
  /\ Goto(h, "write")
  /\ UNCHANGED <<swarm, up, mu, memory, req, status, snap, keys, unread>>

WriteFile(h) ==
  /\ At(h, "write")
  /\ file' \in Overlay(file, snap[h])
  /\ Goto(h, "reply")
  /\ UNCHANGED <<swarm, up, mu, memory, req, status, snap, keys, unread>>

(* What a handler answers when persisting failed; SetPrompt logs the error
   and SetActiveMode drops it. *)
FailureStatus(op, code) ==
  CASE op = "post" -> 400 [] op \in {"delete", "putmode"} -> 500 [] OTHER -> code

PersistFails(h) ==
  /\ IOFaults
  /\ \/ At(h, "open") /\ UNCHANGED file
     \/ At(h, "write") /\ file' \in {file, Garbage}
  /\ Goto(h, "reply")
  /\ status' = [status EXCEPT ![h] = FailureStatus(req[h].op, @)]
  /\ UNCHANGED <<swarm, up, mu, memory, req, snap, keys, unread>>

Respond(h) ==
  /\ At(h, "reply")
  /\ Drop(h)
  /\ UNCHANGED <<disk, up, mu, memory>>

-----------------------------------------------------------------------------
(* The process. *)

AllHandlers(v) == [h \in Handlers |-> v]

(* Memory is lost; so is every request under way. *)
Die ==
  /\ up' = FALSE
  /\ mu' = "free"
  /\ base' = EmptyRoster /\ over' = EmptyRoster /\ agents' = EmptyRoster
  /\ removed' = {} /\ modesConfig' = NoModes /\ activeMode' = ""
  /\ pc' = AllHandlers("idle") /\ req' = AllHandlers(NoRequest) /\ status' = AllHandlers(0)
  /\ snap' = AllHandlers(EmptyPayload) /\ keys' = AllHandlers({}) /\ unread' = AllHandlers({})
  /\ UNCHANGED disk

Crash == up /\ Kills /\ Die

(* The runtime kills the process when an iteration over a map meets a write
   to it: g is inside the critical section that writes the map that h
   marshals. *)
Writes(g, h) ==
  /\ pc[g] = "begin" /\ mu = "free"
  /\ \/ pc[h] = "agents" /\ unread[h] # {} /\ req[g].op \in {"post", "delete", "prompt"}
     \/ pc[h] = "modes" /\ req[g].op = "putmode"

MapFatal ==
  /\ up
  /\ \E g, h \in Handlers : Writes(g, h)
  /\ Die

Boot ==
  /\ ~up
  /\ up' = TRUE
  /\ base' = swarm.agents
  /\ over' = SavedOver(file)
  /\ removed' = SavedRemoved(file)
  /\ agents' = rebuildAgentsLocked(base', over', removed')
  /\ modesConfig' = [m \in KnownModes |->
       IF SavedModes(file)[m] # Absent THEN SavedModes(file)[m] ELSE swarm.modes[m]]
  /\ activeMode' = IF SavedActive(file) # "" THEN SavedActive(file) ELSE swarm.default_mode
  /\ UNCHANGED <<disk, mu, work>>

EditSwarm == swarm' \in SwarmConfigs \ {swarm} /\ UNCHANGED <<file, up, mu, memory, work>>

-----------------------------------------------------------------------------

Init ==
  /\ swarm \in SwarmConfigs
  /\ file = Missing
  /\ up = FALSE
  /\ mu = "free"
  /\ base = EmptyRoster /\ over = EmptyRoster /\ agents = EmptyRoster
  /\ removed = {} /\ modesConfig = NoModes /\ activeMode = ""
  /\ pc = AllHandlers("idle") /\ req = AllHandlers(NoRequest) /\ status = AllHandlers(0)
  /\ snap = AllHandlers(EmptyPayload) /\ keys = AllHandlers({}) /\ unread = AllHandlers({})

Serve(h) ==
  \/ UpsertAgent(h) \/ RemoveAgent(h) \/ SetPrompt(h) \/ AgentByName(h) \/ Agents(h)
  \/ SetActiveMode(h) \/ PutModeAgents(h)
  \/ PersistSnapshot(h) \/ MarshalAgent(h) \/ MarshalEnds(h) \/ MarshalModes(h)
  \/ OpenFile(h) \/ WriteFile(h) \/ Respond(h)

Next ==
  \/ \E h \in Handlers : Receive(h) \/ Serve(h) \/ PersistFails(h)
  \/ Crash \/ MapFatal \/ Boot \/ EditSwarm

Spec == Init /\ [][Next]_vars

(* A goroutine that can run is eventually scheduled.  Nothing obliges a
   client to send, the disk to fail or the process to be killed. *)
FairSpec == Spec /\ \A h \in Handlers : WF_vars(Serve(h))

-----------------------------------------------------------------------------
(* Properties. *)

(* The list GET /api/agents serves (rebuildAgentsLocked) and the lookup that
   GET, PUT prompt and DELETE of one agent use (findAgentLocked) are
   separate code over the same maps: they never disagree on a name. *)
ListMatchesLookup ==
  up => \A n \in Names : agents[n] = findAgentLocked(base, over, removed, n)

(* "A malformed POST never lands a half-agent" (agents_override.go:15):
   whatever the memory, a payload under way or the file registers has a name,
   a port and an engine, or is the agent of a swarm-config.json, which nobody
   validates, under another prompt. *)
Sound(n, a) ==
  \/ n \notin BlankNames /\ a.port > 0 /\ a.engine \notin BlankEngines
  \/ \E s \in SwarmConfigs :
       /\ s.agents[n] # NoAgent
       /\ a.port = s.agents[n].port /\ a.engine = s.agents[n].engine

SoundRoster(r) == \A n \in Names : r[n] # NoAgent => Sound(n, r[n])

NoHalfAgent ==
  /\ SoundRoster(over)
  /\ \A h \in Handlers : SoundRoster(snap[h].agents)
  /\ SoundRoster(SavedOver(file))

(* A tombstone hides a swarm-config agent; re-adding the name clears it and
   removing it drops the override.  So no sequence of requests makes a name
   both overridden and tombstoned, unless overrides.json said so at boot. *)
Conflicted == {n \in removed : over[n] # NoAgent}

TombstoneDiscipline == [][up /\ up' => Conflicted' \subseteq Conflicted]_vars

(* While requests are served one at a time, overrides.json never records a
   name as both overridden and tombstoned either. *)
NoTombstonedOverride ==
  /\ Conflicted = {}
  /\ \A n \in SavedRemoved(file) : SavedOver(file)[n] = NoAgent

(* Registrations "survive restarts via overrides.json": when no request is
   in progress, loading the file again yields the roster and the settings
   that the process serves. *)
Quiet == up /\ \A h \in Handlers : pc[h] = "idle"

QuiescentDurable ==
  Quiet =>
    /\ rebuildAgentsLocked(base, SavedOver(file), SavedRemoved(file)) = agents
    /\ SavedActive(file) \in {"", activeMode}
    /\ \A m \in KnownModes : SavedModes(file)[m] \in {Absent, Encode(modesConfig[m])}

(* A panic inside a critical section leaves the store locked for ever.  An entry
   of swarm-config that is neither an object nor null can bring it about, and
   nothing else: no sequence of PUTs, saves and restarts, which merge what was
   saved with what was edited, makes such an entry of others. *)
NeverLocked ==
  (\A s \in SwarmConfigs, m \in KnownModes : s.modes[m] # Scalar) => mu = "free"

(* Every request is answered, or its connection dropped. *)
RequestsAnswered == \A h \in Handlers : pc[h] # "idle" ~> pc[h] = "idle"

-----------------------------------------------------------------------------
(* The handlers implement the abstract registry: whatever the interleaving
   and whatever fails, agent requests act on the served list one at a time,
   at the critical section, and answer what they found there. *)

Serving(h) == pc[h] # "idle" /\ req[h].op \in {"post", "prompt", "get", "delete"}

StageOf(h) ==
  IF ~Serving(h) THEN "idle"
  ELSE IF pc[h] = "begin" THEN "called"
  ELSE IF pc[h] = "reply" THEN "replied" ELSE "effected"

R == INSTANCE Registry WITH
       Calls <- AgentRequest,
       NoCall <- NoRequest,
       on <- up,
       reg <- agents,
       call <- [h \in Handlers |-> IF Serving(h) THEN req[h] ELSE NoRequest],
       stage <- [h \in Handlers |-> StageOf(h)],
       res <- [h \in Handlers |-> IF Serving(h) THEN status[h] ELSE 0]

ImplementsRegistry == R!Spec

=============================================================================
