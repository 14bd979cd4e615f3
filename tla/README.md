# Verification of cofiswarm-agent-registry

TLA+ models of the agent registry (Go, `internal/`, `cmd/`), TLC runs that check
them on small instances, and TLAPS proofs of their safety for every value of
the constants. Line numbers below are those of the commit under `src/`.

## The system

The registry is one process. It reads `swarm-config.json` (agents and mode
settings, edited by others, read once at boot), keeps the effective roster in
memory, lets HTTP clients change it, and saves the changes to `overrides.json`
so that the next start can merge them again.

| Component | State | Operations | Interacts with |
|---|---|---|---|
| `roster.Store` (`internal/roster/store.go`, `agents_override.go`) | `baseAgents`, `agentOver`, `removedNames`, `agents`, `modesConfig`, `activeMode`, `mu`; the file `overrides.json` | `New`/`Reload`, `UpsertAgent`, `RemoveAgent`, `SetPrompt`, `SetActiveMode`, `PutModeAgents`, `persistOverrides`, `Agents`, `AgentByName`, `ModeConfig` | called by the HTTP handlers and by the presence announcements |
| mode roster (`internal/roster/modes.go`) | none | `BuildAgentsResponse` | two separate reads of the store, then the live inner map with no lock |
| HTTP API (`internal/httpapi`) | none; one goroutine per request | routing, decoding, statuses | the store |
| mode catalog (`internal/modes`) | none | `Known`, `Names` | the HTTP API; duplicated by `isKnownMode` |
| process (`cmd/cofiswarm-agent-registry`) | presence publisher, signal context | boot, announce, re-announce on hello, goodbye, drain | the store, the presence bus (external SDK) |
| `scripts/sync-agents.sh` | the mirror `data/agents` | sync, `--check` | the files of another repository |
| `legacy/cpp` | the coordinator's routes and roster cache | kept as the reference for parity | not built here |

What is hard in this code: handlers run concurrently and hold `mu` only for the
in-memory change; saving happens afterwards, from a payload that references the
live maps, into a file that is truncated in place, with errors that some
handlers report and some swallow; a panic inside a critical section is
recovered by `net/http` but leaves the lock taken; a restart merges three
sources by rules that the list and the lookup implement separately.

### The properties that make each component correct

- **Store.** A name is served the same way by the list and by the lookup; nothing
  unvalidated is registered; no name is overridden and tombstoned at once; every
  request takes effect at one instant, whatever the interleaving and whatever
  fails; what was answered with success is in force after a restart; every
  request is answered.
- **Mode roster.** Roster and list are read at different moments without a common
  lock: the answer must still be consistent in itself, and report values that were
  current during the call.
- **Process.** An agent that was said goodbye to is offline at exit, a hello is
  followed by an announcement, a signal ends the process.
- **Mirror script.** A run that succeeds has made the mirror equal to its source,
  as far as the source keeps still; a check tells drift exactly, in the same sense;
  a run that was cut short can be repeated.
- **HTTP API.** However a path is split, a request reaches the operation its
  method and path ask for, about the agent it names; the list it serves shows
  under each name what a lookup finds.
- **Roster cache (`legacy/cpp`).** A cached set of names is not believed of another
  content of the file beyond the rewrite that replaced it, although timestamps are
  coarse, rewrites may overlap, and each invalidates the cache between the
  insertion into its stream and the end of the stream.

## Modules

| Module | Models | Extends |
|---|---|---|
| `Roster` | agent record, `ValidateAgent`, `rebuildAgentsLocked`, `findAgentLocked` as operators over name-indexed maps | |
| `Registry` | the abstract service: a map on which requests act one at a time (no counterpart in the code) | `Roster` |
| `Store` | the handlers, `s.mu`, `persistOverrides`, `Reload`, crashes, failing writes, edits of swarm-config | `Roster` |
| `Durability` | `Store` with a history variable: what clients may count on | `Store` |
| `ModeView` | `BuildAgentsResponse`, as readers beside the handlers | `Store` |
| `RosterList` | the list of `rebuildAgentsLocked` when swarm-config repeats a name | `Roster` |
| `HttpApi` | routes, methods, path splitting and decoding: which requests reach `Store`; the list served | `Store`, `RosterList` |
| `Presence` | `main`: announcements, hello watcher, goodbyes, drain | |
| `SyncAgents` | `scripts/sync-agents.sh` | |
| `RosterCache` | the coordinator's roster cache and the upsert that rewrites its file (`legacy/cpp/swarm_config_roster*`) | |
| `MCStore`, `MCDurability`, `MCHttpApi`, `MCModeView`, `MCPresence`, `MCRosterCache` | values of the constants for TLC | |
| `StoreProofs`, `SerialProofs`, `RefinementProofs`, `HttpProofs`, `ModeViewProofs`, `PresenceProofs`, `RosterCacheProofs`, `SyncProofs` | theorems | |

Each model module has a part headed "Defects that the runs have to notice":
alternatives to an operator, which nothing refers to in the specification. Each
stands for a plausible mistake in the code; putting it in the place of the
operator it varies makes the property it is meant for fail.

### Store

State. `base`, `over`, `removed`, `agents`, `modesConfig`, `activeMode` are the
fields of `roster.Store`; a Go map from names is a function to a value or to
`NoAgent`. `swarm` and `file` are the contents of `swarm-config.json` and
`overrides.json`. `mu` is `"free"`, or `"leaked"` after a panic inside a critical
section that has no deferred unlock. For each handler there is `pc`, the request,
the status it is to answer, the payload it is marshalling (`snap`) and the
position of the encoder (`keys`, `unread`).

| Action | Code |
|---|---|
| `Receive`, `Respond` | a request arrives; the handler answers |
| `UpsertAgent`, `RemoveAgent`, `SetPrompt` | `agents_override.go:82`, `:101`, `store.go:185` with the early returns of their handlers |
| `AgentByName`, `Agents` | `agents_override.go:74`, `store.go:156` |
| `SetActiveMode`, `PutModeAgents` | `store.go:208`, `:240` with `server.go`'s checks |
| `PersistSnapshot` | `store.go:121-136`, under `RLock`; copies tombstones and active mode, references the two maps |
| `MarshalAgent`, `MarshalEnds`, `MarshalModes` | `json.MarshalIndent`, `store.go:137`, with no lock |
| `OpenFile`, `WriteFile`, `PersistFails` | `os.WriteFile`, `store.go:144`: truncate, write, or fail at either |
| `Boot` | `New` and `Reload` |
| `Crash`, `MapFatal` | the process is killed; the runtime ends it for a concurrent map iteration and write |
| `EditSwarm` | `swarm-config.json` is edited by somebody else |

A critical section is one step, because every access to its variables from
outside it takes the same lock, with the exception of the encoder and of
`ModeView`'s readers, whose meeting with a write is `MapFatal`, `ReadFatal`, or an
arbitrary order of the two. `Registry` is implemented with `reg <- agents` and
the step of the critical section as the linearization point.

Abstractions: of an agent's fields only port, engine and prompt are kept (the ones
`ValidateAgent` and `SetPrompt` look at); of a mode's configuration the four keys
`PutModeAgents` writes, its values opaque in `Store` and JSON arrays in
`ModeView`. `base` holds the first record of a name in `swarm-config.json`, the
one a lookup stops at (`RosterList` adds the others); when the file cannot be read
`main` exits, that is, `Boot` is not taken. Encoding `modes_config` is one step: a file that
mixes the modes of two moments, and a panic of the encoder over them, are left out.
A file with a part of one payload and a part of another, or with part of
one, is `Garbage`, which does not parse. The tail of a PUT that builds
the answer is one of `ModeView`'s readers. Only one process uses the file.

### HttpApi

Routing keeps no state, so the behaviours are those of `Store`, and `HttpApi` says
which requests reach it. An HTTP request is a method, a path, a body and, to state
properties, the agent its client means (`about`). A path is the sequence of its
segments after `/api`, decoded, so that a name with a slash has several. `Handler`
is the mux: it makes of a request one of `Store`'s, a read or a status, with
`handleAgents`, `handleAgentSub`, `handleAgentPrompt`, `handleActive` and
`handleModeSub` as in the code; `HttpAssumption` says that `Requests` is what it
makes of `HttpRequests`. How a name is split at its slashes is a constant
(`Segments`), of which only this is assumed: there is at least one segment, and if
there is just one it is the name. `ClientAssumption` says how clients build a
request that changes an agent (`Url`, `Aimed`): the route of the operation, with the
name of the agent they mean in its place. A client of a name with a slash is
assumed not to forget the suffix `/prompt`, since for the name `a/prompt` it would
edit `a`.

The list of `GET /api/agents` is sorted by name and modelled as what it holds under
each name: `rebuildList` of `RosterList`, over the roster that `base` abstracts
(`Later` gives the records of a name after the first). Which of two records with
the same name comes first is left open by `sort.Slice`, and no property looks at
it.

### ModeView

A reader takes the lock for the names, then for the mode's configuration, and then
reads keys of the live inner map with no lock. `names0` and `lists0` are history:
rosters and lists that were current since the call.

### Presence

`main` and `watcher` are the two goroutines; `roster` and `leaked` are what they
see of the store; `busy` are the requests in progress. The bus and the observer
SDK are external and modelled from their use: publishing is synchronous and takes
no context, one message per member; several hellos that come while an announcement
is being made count as one. `quiet` and `told` are history.

### RosterCache

`file` is `swarm-config.json` with its size and modification time; size 0 is the
truncated file of a rewrite under way, which does not parse (`Broken`), and `Gone`
a file that is missing. A lookup is `Call`, `FirstIdentity` (two steps: existence
and size, then time), `Look`, `ReadDoc`, `SecondIdentity`, `StoreEntry`, `Return`.
Only `Look` and `StoreEntry` hold the cache's lock. A failure of the first identity
ends the lookup; one of the second is ignored, and a file that has gone leaves the
first identity, or a time no file has. A document without an agents array is
answered `false`, and nothing is cached.

`upsert_agent_field` is `ReadForUpsert`, `OpenFails` or `Truncate` (line 60), `Insert`
(line 62), `Invalidate` (line 63), `Close` (line 65, the stream's destructor). How
much of the document the insertion passes on depends on the size of the stream's
buffer: nothing, a part or all of it; `Close` writes what is left, or fails to.
Upserts take no lock, so there are several, and each works at its own offset: once
two have truncated and write (`w \notin sole`), the file holds whatever they leave.
`EditConfig` is anybody else who writes, breaks, removes or restores the file: at
any time, with any modification time.

An upsert may leave the time and the size of the file as they were. That is what
the cache's owner relies on the invalidation for, and what the properties are about.
History: `old` are the rosters an upsert has replaced and not yet invalidated;
`dirty`, that the file changed since a lookup read it; `fit`, a field of the entry,
that its file did not change while it was filled, and that no change since is hidden
from both its time and an invalidation to come; `trusted`, that an answer rests on
no unfit entry; `truths`, the answers that could be believed since the call.
What makes an entry unfit is what the code does not guard against: an outside change
within the tick, or to an earlier one, and the rest of one upsert's stream written
into another's document after the first has invalidated. Each of these was taken out
in turn, and TLC then finds `CacheCoherent` or `AnswerWasRight` violated.

Abstractions: existence and size are asked for in one step, and the document is read
at one instant (the parser reads through a buffer); upserts and lookups do not set the
clock back. There is one file: both callers use the same path.

### SyncAgents

`src` and `dst` map file names to contents; the loop variables and the counter of
the script are `todo`, `name`, `diffs`. `set -e` ends the script at a failing
`cp`, which may leave a torn file. The source may be edited at any step. `were`, what
each of its files has held since the run began, and `born`, the files it has got since,
are history.

## Runs

The bounds are the ones of the `.cfg` files. All passing runs are exhaustive.

| Run | Instance | Shows |
|---|---|---|
| `http_serial` | one handler, four names (one blank, one with a slash), every route with every early return, two swarm-configs (one names an agent twice), kills | `TypeOK`; `QuiescentDurable`: an idle process and its file agree; `NoTombstonedOverride`; `ListShowsLookup`; `OnlyNamedChanges` |
| `store_handlers` | two handlers, two names, failing writes, no kill but the runtime's; the agent in swarm-config has no engine, and a prompt edit copies it into the overrides | `ListMatchesLookup`, `NoHalfAgent`, `TombstoneDiscipline`, `ImplementsRegistry` |
| `dur_clean` | one handler, failing writes, kills | `SurvivesCleanRestart` |
| `view_answers` | one reader, one handler, lists with a repeated name, with a stale one, with an item that is no name, empty; both fair; mode entries objects or null | `AnswerSelects`, `AnswerIsRegular`, `NeverLocked`, `RequestsAnswered`, `ReadsAnswered` |
| `presence_run` | two agents, one client, two hellos, two changes, lock leaks | `TypeOK`, `QuietExitOffline`, `HelloAnswered`, `ShutdownEnds` |
| `roster_cache` | two lookups and two upserts (each symmetric), one name, one size and that of an empty file, two ticks, two upserts or outside changes | `TypeOK`; `CacheCoherent`; `AnswerWasRight` |
| `sync_run` | two files, two contents, two edits of the source | `TypeOK`, `SyncReaches`, `CheckVerdict` |

Five runs end in a counterexample, which is what they show:

| Run | Statement in the repository | What happens |
|---|---|---|
| `dur_lost` | registrations "survive restarts" (`agents_override.go:10-11`) | of two POSTs, the one with the older payload writes last; the other is not in the file |
| `dur_torn` | the same | a kill between truncation and write leaves an empty file, which `Reload` ignores: every earlier registration is gone |
| `dur_prompt` | `SetPrompt` "PERSISTS" (`store.go:183`) | its write fails, the answer says `"persisted": true` |
| `store_leak` | coordinator parity (`README.md:9`) | PUT to a mode whose entry is not an object panics with `s.mu` held; no later request is answered |
| `presence_goodbye` | goodbye for every agent, offline now (`main.go:82-83`) | an announcement under way when the watcher is cancelled publishes an agent after its goodbye |

Why the bounds are enough. The handlers of the store interfere through one
payload, one file and entries of maps: two handlers and two names (one in
swarm-config, one not) show every order of two critical sections, two
encodings and two writes, and what holds of the memory is proved for any
number. `http_serial` repeats requests without limit; a state that differs only in what
was sent earlier is the same state. Of the kinds of names, agents and lists each
is present once: blank, unknown, in swarm-config, invalid port, invalid
engine, repeated, stale. `MaxHellos` 2 gives a hello during the announcement of
another; `Presence`'s `MaxWrites` 2 a roster that changes between two readings of it.
`MaxEdits` 2 puts two edits of the source at any two points of a run of the script:
a file that comes and goes, or two that change between the loops.

Deadlock is checked everywhere except where the system really stops: after a
leaked lock (`store_leak`) and after the exit of the process (`presence_*`).

In `RosterCache` one name is enough, since an entry is compared with the file as a
whole, and one size, since an entry of another size is only harder to match: every
non-empty content of the instance has the size of every other. Two ticks give
changes that move the time and changes that do not; two changes give a lookup, an
entry and a rewrite each of another content, and two upserts whose streams cross.
Records without a name, more sizes and more changes are in the scope of the proofs.

Fairness. `ModeView!VFairSpec` asks weak fairness of the handlers and the readers,
`Store!FairSpec` of the handlers alone: a goroutine that can
run is scheduled, and with `mu` free or leaked, never handed over between steps, no
stronger assumption is needed for the lock. `Presence!FairSpec` asks it of the two
goroutines and includes the deadline of `Shutdown`, which is a timer. Clients,
signals, hellos, edits, failures and kills are never obliged to happen. The
termination of the script is not stated, since it is a loop over finite lists.

## Proofs

Assumptions: those of the constants (`RosterAssumption`, `StoreAssumption`,
`OpenAssumption`, `HttpAssumption`, `ClientAssumption`, `ViewAssumption`,
`PresenceAssumption`, `CacheAssumption`, `SyncAssumption`), which TLC evaluates in
the runs, and the hypotheses that a theorem states. Sets of names,
handlers, requests, configurations and files are arbitrary.

| Theorem | Statement | Argument |
|---|---|---|
| `StoreProofs!TypeCorrect` | `Spec => []TypeOK` | inductive as it is, one lemma per group of actions |
| `StoreProofs!ListAgrees` | `[]ListMatchesLookup` | `Rebuilt`: `agents` is always the rebuilt roster; lemma `EffectiveRoster`: the merge and the lookup compute the same |
| `StoreProofs!OnlySoundAgents` | `[]NoHalfAgent` | `HalfInv` adds that the base roster came from a swarm-config: a prompt edit copies it to the overrides, a payload copies those, the file the payload, a boot the file |
| `StoreProofs!TombstonesDisciplined` | `TombstoneDiscipline` | step by step, from `TypeOK` |
| `StoreProofs!LockIsReleased` | `[]NeverLocked` | `PlainInv`: if no entry of a swarm-config is other than an object or null, none ever is, in memory, in a payload or in the file; lemma `PlainEntry`: such an entry yields an object to write to, and `null` in the file is read back as null |
| `SerialProofs!SerialDurable` | no write error: `Spec /\ []InTurn => []QuiescentDurable` | `SerialInv`: at each step of the request whose turn it is, how much of the payload has been filled from memory (`Filled`) and how far the file is up to date (`UpToDate`) |
| `SerialProofs!SerialTombstones` | the same: `[]NoTombstonedOverride` | the same invariant |
| `SerialProofs!AnsweredIsKept` | `FixedAgents`, `FailuresTold`: `DSpec /\ []InTurn => SurvivesCleanRestart` | `KeepInv`: a name a client counts on is served now, and would be after a restart that found the file whole; while a request on it is under way it is open; before a success is answered the file has the change |
| `RefinementProofs!StoreImplementsRegistry` | `Spec => ImplementsRegistry` | `RefInv`: types, `Rebuilt`, and the status a handler holds before its effect; every action maps to an abstract step or a stutter |
| `PresenceProofs!PresenceTyped`, `QuietExit` | `[]TypeOK`, `[]QuietExitOffline` | `QuietInv`: once the watcher was stopped while waiting it never publishes again, so what is online is either not yet dismissed or was never told goodbye |
| `HttpProofs!ListShowsWhatIsFound` | `Spec => []ListShowsLookup` | `BaseWasRead`: the base roster is the whole of some swarm-config; lemma `ListedIsFound`: the two loops of the merge against the lookup |
| `HttpProofs!ChangesAreMeant` | `Spec => OnlyNamedChanges` | lemmas `RoutedToAbout`: what the routes make of a request names the agent it is about; `ChangedByRequest`: a step changes no other entry of the merged roster than that of its request |
| `HttpProofs!SlashedStays` | a served agent whose name has a slash is served until the process ends | lemma `SubRoutes`: what is routed to a removal has a path of one segment; then as above |
| `ModeViewProofs!AnswersSelect` | `VSpec => []AnswerSelects` | `SelectInv`: the roster, list and view of a reader that is to reply are those of one `Select`; lemma `SelectSelects`: what `Select` yields, by induction over the prefixes of the list |
| `ModeViewProofs!AnswersAreRegular` | `VSpec => []AnswerIsRegular` | `ReaderInv`: no reader outlives its process; lemma `ObjectsStay`: an entry that is an object stays one, so the map a reader holds is the store's |
| `RosterCacheProofs!CacheTyped` | `[]TypeOK` | inductive as it is |
| `RosterCacheProofs!CacheIsCoherent` | `[]CacheCoherent` | `CacheInv`: a fit entry is not younger than the file, and while it has its time it holds a roster that stands; `ReadInv`: what a lookup read of a file that has not changed; `SoleInv`: while a stream that writes alone holds a rest the file does not parse, so that between invalidation and rest nobody fills a fit entry |
| `RosterCacheProofs!AnswersWereRight` | `[]AnswerWasRight` | the same with `IdentityInv`: a fit entry that a lookup's identity can still match was right during the call; `AnswerInv`: so is what it read and what it answers |
| `SyncProofs!SyncTyped`, `SyncReachesSource`, `CheckTells` | `[]TypeOK`, `SyncReaches`, `CheckVerdict` | `RunInv`: each file the first loop is past is `Dealt` with: the mirror has what the source had during the run (`Settled`), or the source lacked it at some moment and has it now, if at all, only since; after the second loop it is `Settled`, unless `born`. A check's counter is not zero only if some file differed from what the source was, and zero only if the above holds of all |

`InTurn`, the hypothesis of the three theorems of `SerialProofs`, says that at any
moment at most one handler serves a request that may change something (a POST, PUT
or DELETE); any number of handlers may serve reads meanwhile. With one handler, as
in `http_serial` and `dur_clean`, it always holds. Clients bring it about by waiting
for an answer before the next change is sent; one that gives up waiting does not,
since its handler goes on. Without it `QuiescentDurable` and `SurvivesCleanRestart`
are false: `dur_lost` is a counterexample. `QuiescentDurable` is not inductive by
itself since it says nothing of a request under way; hence `SerialInv`, which
says of the handler whose turn it is what its payload holds, and of the others
that they do not persist. `SerialInv` covers failing writes too, after which
nothing is claimed of the file.

The other hypotheses of `AnsweredIsKept` are there for a reason each. With prompt
edits and failing writes `dur_prompt` is a counterexample, which `FailuresTold`
excludes (a POST or a DELETE that was not written is answered with an error, and
nobody counts on it). `FixedAgents`: an agent that clients removed is kept away by a
tombstone only if swarm-config had it when it was removed, so an edit that adds it
brings it back; the code intends that. The instance of `dur_clean` satisfies all
three, with kills and write errors.

`Select` folds over the items of a list. What a fold computes for every list is
proved by induction over naturals stated as a fact about sets (`NatInd`, from the
well-foundedness of `<`): the iteration that the fold is defined by exists for
every length (`IterationExists`), so that it can be unrolled one item at a time
(`SelectUnrolled`).

Only model-checked: liveness (`RequestsAnswered`, `ReadsAnswered`, `HelloAnswered`,
`ShutdownEnds`), which is out of the prover's reach. `NeverLocked` is the
part of `RequestsAnswered` that is proved: without it a lock taken for ever.

## Differences between the code and what is said of it, not run

Met while modelling, plain from the text, and not repeated as runs:

- POST answers 400 when only the write failed (`agents_routes.go:67`): the agent
  is registered, in memory, all the same. `Registry!Store` allows that answer.
- DELETE answers 500 in the same case; a retry gets 404.
- A PUT that names only unknown agents is stored, and the mode has no
  effective agent (`store.go:246-249`); the coordinator refuses it
  (`legacy/cpp/coordinator_routes_modes_put.cpp:47-52`).
- `configured_agents` is null where the coordinator sends an empty array
  (`modes.go:19`, `legacy/cpp/coordinator_routes_modes_config.h:10`).
- SIGTERM does not end a process whose store is locked for ever (`main.go:91`):
  the goodbyes come before the drain and its deadline. `ShutdownEnds` excuses it.
- POST registers a name with a slash (`agents_override.go:17` refuses only blank
  ones), and the paths of GET, DELETE and PUT, split at slashes after decoding
  (`agents_routes.go:88-104`), can never address it: it is listed until the process ends (`SlashedStays`), and
  after a restart if it was saved.
- An agent that swarm-config names twice is listed twice (`agents_override.go:39`);
  a lookup finds the first record, and one prompt edit replaces both in the list.
- An entry of the coordinator's cache may be believed of a content it does not have
  until the next write, in three cases, which `CacheCoherent` and `AnswerWasRight` set
  apart as unfit: it was filled while the file was rewritten, so that it pairs the old
  names with the identity of the new file
  (`legacy/cpp/swarm_config_roster.cpp:49-68`); somebody else changed the file within
  the same tick and to the same size; the rest of one upsert's stream reached the
  document of another after the first had invalidated
  (`legacy/cpp/swarm_config_roster_io.h:60-65`).
- A file that the source gets after the first loop of `sync-agents.sh` has listed it, and
  of which the mirror holds an old copy, escapes both loops (lines 38, 48): the run
  ends with "mirror matches SoT". `SyncReaches` and `CheckVerdict` set it apart (`born`).
- `sync-agents.sh --check` promises to write nothing (line 10) and creates the
  mirror directory (line 34).

## Not modelled

- `listProjection`, descriptions of the modes, wording of errors: layout of
  answers, without state. Redirects of paths that are not clean (`net/http`).
- The rest of `legacy/cpp`: the coordinator's routes act on state and call
  functions declared in headers that the repository does not have
  (`coordinator_routes_includes.h`, `coordinator_routes_internal.h`,
  `swarm_config_store.h`); a model of them would be a guess.
- The bus, the SDK, `net/http` and the file system beyond what the code uses of
  them; a disk that loses what a completed `write` stored (nothing is synced).

## Plan

Done in this order: `Roster`, `Store` (one handler, then several), `Registry` and
the refinement, `Durability`, `ModeView`, `Presence`, `SyncAgents`, the proofs of
what TLC agreed to, `RosterList`, `HttpApi`, `RosterCache`, then the proofs of
`SurvivesCleanRestart`, `OnlyNamedChanges`, `AnswerSelects` and `NeverLocked`.

What is left is to prove more, most important first:

1. `BuildAgentsResponse` against an abstract reader that takes roster and list at two
   moments (`AnswersAreRegular` and `AnswersSelect` together, as a refinement).
2. Of the script, that a run that was cut short can be repeated: what `SyncReaches`
   says of a run is independent of the mirror it began with.
