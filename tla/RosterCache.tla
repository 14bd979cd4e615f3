----------------------------- MODULE RosterCache -----------------------------
(***************************************************************************)
(* The roster cache of the former coordinator, legacy/cpp: the agent names *)
(* of swarm-config.json, kept with the size and the modification time the  *)
(* file had.  Lookups take no lock but the cache's own.  Upserts, which    *)
(* take no other either, truncate the file, write it through a stream and  *)
(* invalidate the cache in between.  Others may change the file any time.  *)
(***************************************************************************)
EXTENDS Naturals

CONSTANTS
  Threads, Writers,        \* concurrent lookups and upserts
  Names,                   \* agent names
  Nameless,                \* the name of a record that has none: the empty string
  Contents,                \* the names that agents arrays hold
  NoAgents, Broken, Gone,  \* no agents array; does not parse; there is no file
  Sizes,                   \* sizes of a file that is not empty
  MaxTick,                 \* bound: ticks of the clock of modification times
  MaxWrites                \* bound: upserts and outside changes in a behaviour

ASSUME CacheAssumption ==
  /\ Sizes \subseteq Nat \ {0} /\ MaxTick \in Nat \ {0} /\ MaxWrites \in Nat
  /\ Nameless \notin Names /\ Contents \subseteq SUBSET (Names \cup {Nameless})
  /\ {} \in Contents /\ \A n \in Names, c \in Contents : c \cup {n} \in Contents
  /\ \A c \in Contents : c \notin {NoAgents, Broken, Gone}
  /\ Broken # Gone

VARIABLES
  file,      \* what it holds, its size and mtime; of a missing file, when it went
  cache,     \* the entry of the file, or NoEntry
  pc, name, id, names, answer, \* per lookup: step, name asked for, identity, names read
  wpc, doc, rest, \* per upsert: step, document to write, its stream holds some yet
  sole,      \* the upsert, if any, that alone has written since it truncated
  writes,
  old,       \* history, per upsert: rosters it replaced and has yet to invalidate,
  dirty,     \* per lookup: the file changed since it was read,
  trusted,   \* the entry its answer rests on was fit,
  truths     \* the answers that were right since the call

lookups == <<pc, name, id, names, answer>>
upserts == <<wpc, doc, rest, sole, writes, old>>
cvars == <<file, cache, lookups, upserts, dirty, trusted, truths>>

Rosters == SUBSET Names
Ticks == 1..MaxTick
Bodies == {NoAgents, Broken, Gone} \cup Contents
Reading == {"resize", "retime", "store"}

(* file_time_type::min() is tick 0, which no file has. *)
NoIdentity == [size |-> 0, mtime |-> 0]
NoEntry == [size |-> 0, mtime |-> 0, names |-> {}, fit |-> FALSE]

TypeOK ==
  /\ file \in [size : Sizes \cup {0}, mtime : Ticks, body : Bodies]
  /\ cache \in [size : Sizes \cup {0}, mtime : Ticks \cup {0}, names : Rosters, fit : BOOLEAN]
  /\ pc \in [Threads -> {"idle", "size", "mtime", "look", "read", "reply"} \cup Reading]
  /\ \A t \in Threads : pc[t] = "look" => id[t].mtime # 0
  /\ name \in [Threads -> Names]
  /\ id \in [Threads -> [size : Sizes \cup {0}, mtime : Ticks \cup {0}]]
  /\ names \in [Threads -> Rosters] /\ answer \in [Threads -> BOOLEAN]
  /\ wpc \in [Writers -> {"idle", "open", "insert", "invalidate", "close"}]
  /\ doc \in [Writers -> Contents] /\ rest \in [Writers -> BOOLEAN]
  /\ sole \subseteq Writers /\ writes \in 0..MaxWrites /\ old \in [Writers -> SUBSET Contents]
  /\ dirty \in [Threads -> BOOLEAN] /\ trusted \in [Threads -> BOOLEAN]
  /\ truths \in [Threads -> SUBSET BOOLEAN]

-----------------------------------------------------------------------------
(* Defects that the runs have to notice. *)

NotErased(entry) == entry
SameSize(entry, i) == entry.size = i.size
CarryOn(t, from) ==
  /\ pc[t] = from /\ pc' = [pc EXCEPT ![t] = "look"]
  /\ UNCHANGED <<id, names, answer, dirty, trusted>>

-----------------------------------------------------------------------------
(* agent_name_in_persisted_roster. *)

Listed(body) == {body} \ {NoAgents, Broken, Gone}

Answer(body, n) == Listed(body) # {} /\ n \in body

NamesOf(contents) == contents \ {Nameless}

Step(t, from, to) == pc[t] = from /\ pc' = [pc EXCEPT ![t] = to]

Call(t) ==
  /\ Step(t, "idle", "size")
  /\ \E n \in Names : name' = [name EXCEPT ![t] = n]
  /\ UNCHANGED <<cache, id, names, answer, dirty, trusted>>

Reset(f, t, v) == f' = [f EXCEPT ![t] = v]

(* The lookup's locals end with it. *)
Reply(t, from, known, believed) ==
  /\ Step(t, from, "reply")
  /\ Reset(answer, t, known) /\ Reset(trusted, t, believed)
  /\ Reset(id, t, NoIdentity) /\ Reset(names, t, {}) /\ Reset(dirty, t, FALSE)

GiveUp(t, from) == Reply(t, from, FALSE, TRUE)

(* path_identity asks whether there is a file and for its size, then for its
   time.  Before the cache is looked at, its failure ends the lookup. *)
FirstIdentity(t) ==
  /\ \/ file.body = Gone /\ \E s \in {"size", "mtime"} : GiveUp(t, s)
     \/ /\ file.body # Gone
        /\ \/ Step(t, "size", "mtime") /\ id' = [id EXCEPT ![t].size = file.size]
           \/ Step(t, "mtime", "look") /\ id' = [id EXCEPT ![t].mtime = file.mtime]
        /\ UNCHANGED <<names, answer, dirty, trusted>>
  /\ UNCHANGED <<cache, name>>

(* After the document was read it is ignored: a file that has gone leaves the
   first identity, one that goes after its size was read has no time. *)
SecondIdentity(t) ==
  /\ \/ file.body = Gone /\ Step(t, "resize", "store") /\ UNCHANGED id
     \/ file.body = Gone /\ Step(t, "retime", "store") /\ id' = [id EXCEPT ![t].mtime = 0]
     \/ file.body # Gone /\ Step(t, "resize", "retime") /\ id' = [id EXCEPT ![t].size = file.size]
     \/ file.body # Gone /\ Step(t, "retime", "store") /\ id' = [id EXCEPT ![t].mtime = file.mtime]
  /\ UNCHANGED <<cache, name, names, answer, dirty, trusted>>

Matches(entry, i) == entry.size = i.size /\ entry.mtime = i.mtime

Look(t) ==
  /\ IF Matches(cache, id[t])
     THEN Reply(t, "look", name[t] \in cache.names, cache.fit)
     ELSE Step(t, "look", "read") /\ UNCHANGED <<id, names, answer, dirty, trusted>>
  /\ UNCHANGED <<cache, name>>

ReadDoc(t) ==
  /\ IF Listed(file.body) = {}
     THEN Reply(t, "read", FALSE, TRUE)
     ELSE /\ Step(t, "read", "resize")
          /\ names' = [names EXCEPT ![t] = NamesOf(file.body)]
          /\ UNCHANGED <<id, answer, dirty, trusted>>
  /\ UNCHANGED <<cache, name>>

StoreEntry(t) ==
  /\ Reply(t, "store", name[t] \in names[t], TRUE)
  /\ cache' = [size |-> id[t].size, mtime |-> id[t].mtime, names |-> names[t], fit |-> ~dirty[t]]
  /\ UNCHANGED name

Return(t) ==
  /\ Step(t, "reply", "idle") /\ Reset(answer, t, FALSE) /\ Reset(trusted, t, TRUE)
  /\ UNCHANGED <<cache, name, id, names, dirty>>

Lookup(t) ==
  /\ \/ Call(t) \/ FirstIdentity(t) \/ SecondIdentity(t) \/ Look(t) \/ ReadDoc(t)
     \/ StoreEntry(t) \/ Return(t)
  /\ UNCHANGED <<file, upserts>>

-----------------------------------------------------------------------------
(* The file.  Timestamps are coarse: a change need not move them. *)

FileBecomes(body, size, mtime) ==
  /\ file' = [size |-> size, mtime |-> mtime, body |-> body]
  /\ body \notin {Broken, Gone} => size # 0
  /\ dirty' = [t \in Threads |-> pc[t] \in Reading]

Now == {m \in Ticks : m >= file.mtime}

(* A stream of upsert w reaches the file, which then holds body; if the
   streams of several upserts cross, or an outside change came between, it holds
   whatever they leave.  A file that was removed or replaced gets nothing. *)
Writes(w, body) ==
  /\ file.body # Gone
  /\ \E s \in Sizes, m \in Now, b \in IF w \in sole THEN {body} ELSE {Broken} \cup Contents :
       FileBecomes(b, s, m)

Unfit(entry) == [entry EXCEPT !.fit = FALSE]

(* Somebody else writes, breaks or removes the file, or puts an older one in
   its place.  If its time tells nothing, no entry may be relied on. *)
EditConfig ==
  /\ writes < MaxWrites /\ writes' = writes + 1
  /\ \E b \in Bodies, s \in Sizes \cup {0}, m \in Ticks :
       /\ b = Gone => s = 0
       /\ FileBecomes(b, s, m)
       /\ cache' = IF m > file.mtime THEN cache ELSE Unfit(cache)
  /\ sole' = {}
  /\ UNCHANGED <<wpc, doc, rest, old>>

-----------------------------------------------------------------------------
(* upsert_agent_field. *)

WStep(w, from, to) == wpc[w] = from /\ wpc' = [wpc EXCEPT ![w] = to]

Replaces(w) == old' = [old EXCEPT ![w] = @ \cup Listed(file.body)]

(* A document without an agents array gets one. *)
ReadForUpsert(w) ==
  /\ WStep(w, "idle", "open") /\ writes < MaxWrites /\ writes' = writes + 1
  /\ file.body \notin {Broken, Gone}
  /\ \E n \in Names : doc' = [doc EXCEPT ![w] = (UNION Listed(file.body)) \cup {n}]
  /\ UNCHANGED <<file, cache, rest, sole, old, dirty>>

OpenFails(w) ==
  /\ WStep(w, "open", "idle") /\ Reset(doc, w, {})
  /\ UNCHANGED <<file, cache, rest, sole, writes, old, dirty>>

Truncate(w) ==
  /\ WStep(w, "open", "insert")
  /\ \E m \in Now : FileBecomes(Broken, 0, m)
  /\ sole' = {w} /\ Replaces(w)
  /\ UNCHANGED <<cache, doc, rest, writes>>

(* The stream passes on nothing, a part or all of the document at once, as its
   buffer is large or small; what it keeps is written when it is destroyed. *)
Insert(w) ==
  /\ WStep(w, "insert", "invalidate")
  /\ \/ /\ UNCHANGED <<file, sole, dirty>>
        /\ \E r \in BOOLEAN : Reset(rest, w, r)
     \/ /\ Writes(w, Broken) /\ sole' = sole \cap {w}
        /\ \E r \in BOOLEAN : Reset(rest, w, r)
     \/ Writes(w, doc[w]) /\ sole' = sole \cap {w} /\ Reset(rest, w, FALSE)
  /\ Replaces(w)
  /\ UNCHANGED <<cache, doc, writes>>

Erased(entry) == NoEntry

Invalidate(w) ==
  /\ WStep(w, "invalidate", "close")
  /\ cache' = Erased(cache) /\ Reset(old, w, {})
  /\ UNCHANGED <<file, doc, rest, sole, writes, dirty>>

(* Nobody invalidates after the stream's rest, which matters if it reaches a
   document that is not of this upsert. *)
Close(w) ==
  /\ WStep(w, "close", "idle") /\ Reset(rest, w, FALSE) /\ Reset(doc, w, {})
  /\ \/ UNCHANGED <<file, cache, dirty>> /\ sole' = sole \ {w}
     \/ /\ rest[w] /\ (Writes(w, doc[w]) \/ Writes(w, Broken)) /\ sole' = {}
        /\ cache' = IF w \in sole THEN cache ELSE Unfit(cache)
  /\ UNCHANGED <<writes, old>>

Upsert(w) ==
  ReadForUpsert(w) \/ OpenFails(w) \/ Truncate(w) \/ Insert(w) \/ Invalidate(w) \/ Close(w)

Change == (EditConfig \/ \E w \in Writers : Upsert(w)) /\ UNCHANGED <<lookups, trusted>>

-----------------------------------------------------------------------------

Init ==
  /\ file \in [size : Sizes, mtime : {1}, body : Contents]
  /\ cache = NoEntry
  /\ pc = [t \in Threads |-> "idle"] /\ name \in [Threads -> Names]
  /\ id = [t \in Threads |-> NoIdentity] /\ names = [t \in Threads |-> {}]
  /\ answer = [t \in Threads |-> FALSE]
  /\ wpc = [w \in Writers |-> "idle"] /\ doc = [w \in Writers |-> {}]
  /\ rest = [w \in Writers |-> FALSE] /\ sole = {} /\ writes = 0
  /\ old = [w \in Writers |-> {}]
  /\ dirty = [t \in Threads |-> FALSE] /\ trusted = [t \in Threads |-> TRUE]
  /\ truths = [t \in Threads |-> {}]

(* The rosters that may be believed: the file's, and those that an upsert has
   replaced without having invalidated yet. *)
Standing == Listed(file.body) \cup UNION {old[w] : w \in Writers}

(* What may be believed before a step of a call may be answered. *)
Witness ==
  truths' = [t \in Threads |->
    IF pc'[t] = "idle" THEN {}
    ELSE truths[t] \cup {Answer(file.body, name'[t])} \cup {(name'[t] \in b) : b \in Standing}]

Next == ((\E t \in Threads : Lookup(t)) \/ Change) /\ Witness

Spec == Init /\ [][Next]_cvars

-----------------------------------------------------------------------------
(* Properties.  An entry is fit unless it was filled while the file changed, or
   the file has since changed in a way that neither its time nor an
   invalidation to come tells: an outside change in the same tick, or the rest
   of one upsert that reaches the document of another. *)

(* A fit entry is believed only of the content it was filled from: an upsert
   that leaves size and time as they were has replaced it, but has yet to
   invalidate.  That ends with the invalidation, wherever in the order of
   truncation, writes and flush the streams of several upserts put it. *)
CacheCoherent ==
  cache.fit /\ cache.size = file.size /\ cache.mtime = file.mtime
    => \E b \in Standing : cache.names = NamesOf(b)

(* A lookup that uses no unfit entry answers what was so at some moment
   between its call and its reply, or what an upsert not yet over replaced. *)
AnswerWasRight ==
  \A t \in Threads : pc[t] = "reply" /\ trusted[t] => answer[t] \in truths[t]

=============================================================================
