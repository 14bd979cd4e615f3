-------------------------- MODULE RosterCacheProofs --------------------------
(* Safety of the roster cache for every number of lookups and upserts, and   *)
(* whatever changes the file from outside.                                   *)
EXTENDS RosterCache, TLAPS

(* While the stream of an upsert that wrote alone still holds something, the
   file does not parse; from the invalidation on there is then no fit entry. *)
SoleInv ==
  \A w \in sole :
    /\ wpc[w] = "insert" \/ rest[w] => file.body = Broken
    /\ wpc[w] = "close" /\ rest[w] => ~cache.fit

(* A fit entry is not younger than the file, and as long as it has the file's
   time it holds a roster that may be believed. *)
CacheInv ==
  cache.fit =>
    /\ cache.mtime <= file.mtime
    /\ cache.mtime = file.mtime => \E b \in Standing : cache.names = NamesOf(b)

(* What a lookup has read of a file that has not changed since is of that file. *)
ReadInv ==
  \A t \in Threads : pc[t] \in Reading /\ ~dirty[t] =>
    /\ file.body \in Contents
    /\ names[t] = NamesOf(file.body)
    /\ pc[t] = "store" => id[t].mtime = file.mtime

(* The time a lookup read singles out an entry that could be believed during
   the call, be it one that was stored meanwhile. *)
IdentityInv ==
  \A t \in Threads : cache.fit /\ pc[t] = "look" /\ cache.mtime = id[t].mtime =>
    (name[t] \in cache.names) \in truths[t]

AnswerInv ==
  \A t \in Threads :
    /\ pc[t] \in Reading => (name[t] \in names[t]) \in truths[t]
    /\ pc[t] = "reply" /\ trusted[t] => answer[t] \in truths[t]

-----------------------------------------------------------------------------
(* Types. *)

FileType == [size : Sizes \cup {0}, mtime : Ticks, body : Bodies]
EntryType == [size : Sizes \cup {0}, mtime : Ticks \cup {0}, names : Rosters, fit : BOOLEAN]
IdType == [size : Sizes \cup {0}, mtime : Ticks \cup {0}]

LEMMA Constants ==
  /\ NoEntry \in EntryType /\ NoIdentity \in IdType
  /\ \A m \in Ticks \cup {0} : m \in Nat
  /\ 0 \notin Ticks
BY CacheAssumption DEF NoEntry, NoIdentity, Ticks, Rosters, EntryType, IdType

LEMMA ListedBodies ==
  ASSUME NEW b \in Bodies
  PROVE  /\ b \in Contents => Listed(b) = {b} /\ b \notin {Broken, Gone, NoAgents}
         /\ b \notin Contents => Listed(b) = {}
         /\ Listed(b) \subseteq Contents
         /\ Listed(b) # {} <=> b \in Contents
         /\ b \in {Broken, Gone} => b \notin Contents
BY CacheAssumption DEF Bodies, Listed

LEMMA Rostered ==
  ASSUME NEW c \in Contents
  PROVE  NamesOf(c) \in Rosters
BY CacheAssumption DEF NamesOf, Rosters

(* Nameless aside, the names of a content are those that were asked for. *)
LEMMA SameNames ==
  ASSUME NEW n \in Names, NEW c \in Contents
  PROVE  (n \in NamesOf(c)) = (n \in c)
BY CacheAssumption DEF NamesOf

LEMMA TruthsTyped ==
  ASSUME TypeOK, Witness
  PROVE  truths' \in [Threads -> SUBSET BOOLEAN]
<1>1. \A n : Answer(file.body, n) \in BOOLEAN
  BY DEF Answer
<1>2. \A t \in Threads : {(name'[t] \in b) : b \in Standing} \subseteq BOOLEAN
  <2> TAKE t \in Threads
  <2>1. \A x \in {(name'[t] \in b) : b \in Standing} : \E b \in Standing : x = (name'[t] \in b)
    OBVIOUS
  <2>2. \A b \in Standing : (name'[t] \in b) \in BOOLEAN
    OBVIOUS
  <2> QED
    BY <2>1, <2>2
<1> QED
  BY <1>1, <1>2 DEF Witness, TypeOK

LEMMA FileTyped ==
  ASSUME TypeOK, NEW b \in Bodies, NEW s \in Sizes \cup {0}, NEW m \in Ticks, FileBecomes(b, s, m)
  PROVE  /\ file' \in FileType /\ dirty' \in [Threads -> BOOLEAN]
         /\ file'.body = b /\ file'.mtime = m
BY DEF FileBecomes, FileType

(* What a write of an upsert does to the file. *)
LEMMA WritesTyped ==
  ASSUME TypeOK, NEW w \in Writers, NEW b \in {Broken} \cup Contents, Writes(w, b)
  PROVE  /\ file' \in FileType /\ dirty' \in [Threads -> BOOLEAN]
         /\ file'.mtime >= file.mtime
         /\ w \in sole => file'.body = b
         /\ dirty' = [t \in Threads |-> pc[t] \in Reading]
<1>1. PICK s \in Sizes, m \in Now, c \in IF w \in sole THEN {b} ELSE {Broken} \cup Contents :
        FileBecomes(c, s, m)
  BY DEF Writes
<1>2. c \in Bodies /\ m \in Ticks /\ m >= file.mtime
  BY <1>1 DEF Bodies, Now
<1>3. dirty' = [t \in Threads |-> pc[t] \in Reading]
  BY <1>1 DEF FileBecomes
<1> QED
  BY <1>1, <1>2, <1>3, FileTyped

(* The parts of the type invariant that lookups and upserts touch. *)
LookupTypes ==
  /\ pc \in [Threads -> {"idle", "size", "mtime", "look", "read", "reply"} \cup Reading]
  /\ \A t \in Threads : pc[t] = "look" => id[t].mtime # 0
  /\ name \in [Threads -> Names] /\ id \in [Threads -> IdType]
  /\ names \in [Threads -> Rosters] /\ answer \in [Threads -> BOOLEAN]

UpsertTypes ==
  /\ wpc \in [Writers -> {"idle", "open", "insert", "invalidate", "close"}]
  /\ doc \in [Writers -> Contents] /\ rest \in [Writers -> BOOLEAN]
  /\ sole \subseteq Writers /\ writes \in 0..MaxWrites /\ old \in [Writers -> SUBSET Contents]

HistoryTypes ==
  /\ dirty \in [Threads -> BOOLEAN] /\ trusted \in [Threads -> BOOLEAN]
  /\ truths \in [Threads -> SUBSET BOOLEAN]

LEMMA TypeParts ==
  TypeOK <=> /\ file \in FileType /\ cache \in EntryType
             /\ LookupTypes /\ UpsertTypes /\ HistoryTypes
BY DEF TypeOK, FileType, EntryType, IdType, LookupTypes, UpsertTypes, HistoryTypes

LEMMA TypePartsNext ==
  TypeOK' <=> /\ file' \in FileType /\ cache' \in EntryType
              /\ LookupTypes' /\ UpsertTypes' /\ HistoryTypes'
BY DEF TypeOK, FileType, EntryType, IdType, LookupTypes, UpsertTypes, HistoryTypes

LEMMA ReplyTyped ==
  ASSUME TypeOK, NEW t \in Threads, NEW from \in {"size", "mtime", "look", "read", "store"},
         Step(t, from, "reply"), Reset(id, t, NoIdentity), Reset(names, t, {}), Reset(dirty, t, FALSE),
         answer' \in [Threads -> BOOLEAN], trusted' \in [Threads -> BOOLEAN],
         UNCHANGED name, truths' \in [Threads -> SUBSET BOOLEAN]
  PROVE  LookupTypes' /\ HistoryTypes'
<1> USE Constants, TypeParts
<1>1. id' \in [Threads -> IdType] /\ names' \in [Threads -> Rosters]
  BY DEF Reset, LookupTypes, Rosters
<1>2. \A u \in Threads : pc'[u] = "look" => u # t
  BY DEF Step, LookupTypes
<1>3. \A u \in Threads : pc'[u] = "look" => id'[u].mtime # 0
  BY <1>2 DEF Step, Reset, LookupTypes
<1>4. pc' \in [Threads -> {"idle", "size", "mtime", "look", "read", "reply"} \cup Reading]
  BY DEF Step, LookupTypes
<1> QED
  BY <1>1, <1>3, <1>4 DEF Reset, LookupTypes, HistoryTypes

(* What a lookup answers is a Boolean. *)
LEMMA AnswerTyped ==
  ASSUME TypeOK, NEW t \in Threads, NEW n, NEW S, NEW believed \in BOOLEAN,
         Reset(answer, t, n \in S), Reset(trusted, t, believed)
  PROVE  answer' \in [Threads -> BOOLEAN] /\ trusted' \in [Threads -> BOOLEAN]
<1> DEFINE known == n \in S
<1>1. known \in BOOLEAN
  OBVIOUS
<1>2. answer' = [answer EXCEPT ![t] = known] /\ trusted' = [trusted EXCEPT ![t] = believed]
  BY DEF Reset
<1> HIDE DEF known
<1> QED
  BY <1>1, <1>2 DEF TypeOK

LEMMA TypedLookup ==
  ASSUME TypeOK, NEW t \in Threads, Lookup(t), Witness
  PROVE  TypeOK'
<1> USE TypeParts
<1>1. UNCHANGED file /\ UpsertTypes'
  BY DEF Lookup, upserts, UpsertTypes
<1>2. truths' \in [Threads -> SUBSET BOOLEAN]
  BY TruthsTyped
<1> SUFFICES cache' \in EntryType /\ LookupTypes' /\ HistoryTypes'
  BY <1>1, TypePartsNext
<1>3. CASE Call(t)
  BY <1>2, <1>3 DEF Call, Step, LookupTypes, HistoryTypes
<1>4. CASE FirstIdentity(t)
  <2>1. CASE \E s \in {"size", "mtime"} : GiveUp(t, s)
    <3>1. answer' \in [Threads -> BOOLEAN] /\ trusted' \in [Threads -> BOOLEAN]
      BY <2>1 DEF GiveUp, Reply, Reset, LookupTypes, HistoryTypes
    <3> QED
      BY <1>2, <1>4, <2>1, <3>1, ReplyTyped DEF FirstIdentity, GiveUp, Reply
  <2>2. CASE Step(t, "size", "mtime") /\ id' = [id EXCEPT ![t].size = file.size]
             /\ UNCHANGED <<names, answer, dirty, trusted>>
    <3>1. id' \in [Threads -> IdType]
      BY <2>2 DEF LookupTypes, IdType, FileType
    <3>2. \A u \in Threads : pc'[u] = "look" => id'[u].mtime # 0
      BY <2>2 DEF Step, LookupTypes
    <3> QED
      BY <1>2, <1>4, <2>2, <3>1, <3>2 DEF FirstIdentity, Step, LookupTypes, HistoryTypes
  <2>3. CASE Step(t, "mtime", "look") /\ id' = [id EXCEPT ![t].mtime = file.mtime]
             /\ UNCHANGED <<names, answer, dirty, trusted>>
    <3>1. id' \in [Threads -> IdType]
      BY <2>3 DEF LookupTypes, IdType, FileType
    <3>2. \A u \in Threads : pc'[u] = "look" => id'[u].mtime # 0
      BY <2>3, Constants DEF Step, LookupTypes, FileType, IdType
    <3> QED
      BY <1>2, <1>4, <2>3, <3>1, <3>2 DEF FirstIdentity, Step, LookupTypes, HistoryTypes
  <2> QED
    BY <1>4, <2>1, <2>2, <2>3 DEF FirstIdentity
<1>5. CASE SecondIdentity(t)
  <2>1. id' \in [Threads -> IdType]
    BY <1>5 DEF SecondIdentity, LookupTypes, IdType, FileType
  <2>2. pc' \in [Threads -> {"idle", "size", "mtime", "look", "read", "reply"} \cup Reading]
    BY <1>5 DEF SecondIdentity, Step, LookupTypes, Reading
  <2>3. \A u \in Threads : pc'[u] = "look" => u # t /\ pc[u] = "look"
    BY <1>5 DEF SecondIdentity, Step, LookupTypes
  <2>4. \A u \in Threads : pc'[u] = "look" => id'[u].mtime # 0
    BY <1>5, <2>3 DEF SecondIdentity, LookupTypes
  <2> QED
    BY <1>2, <1>5, <2>1, <2>2, <2>4 DEF SecondIdentity, LookupTypes, HistoryTypes
<1>6. CASE Look(t)
  <2>1. CASE Matches(cache, id[t])
    <3>1. Reply(t, "look", name[t] \in cache.names, cache.fit) /\ cache.fit \in BOOLEAN
      BY <1>6, <2>1 DEF Look, EntryType
    <3>2. answer' \in [Threads -> BOOLEAN] /\ trusted' \in [Threads -> BOOLEAN]
      BY <3>1, AnswerTyped DEF Reply
    <3> QED
      BY <1>2, <1>6, <3>1, <3>2, ReplyTyped DEF Look, Reply
  <2>2. CASE ~Matches(cache, id[t])
    BY <1>2, <1>6, <2>2 DEF Look, Step, LookupTypes, HistoryTypes
  <2> QED
    BY <2>1, <2>2
<1>7. CASE ReadDoc(t)
  <2>1. CASE Listed(file.body) = {}
    <3>1. answer' \in [Threads -> BOOLEAN] /\ trusted' \in [Threads -> BOOLEAN]
      BY <1>7, <2>1 DEF ReadDoc, Reply, Reset, LookupTypes, HistoryTypes
    <3> QED
      BY <1>2, <1>7, <2>1, <3>1, ReplyTyped DEF ReadDoc, Reply
  <2>2. CASE Listed(file.body) # {}
    <3>1. file.body \in Contents
      BY <2>2, ListedBodies DEF FileType
    <3> QED
      BY <1>2, <1>7, <2>2, <3>1, Rostered DEF ReadDoc, Step, Reading, LookupTypes, HistoryTypes
  <2> QED
    BY <2>1, <2>2
<1>8. CASE StoreEntry(t)
  <2>1. Reply(t, "store", name[t] \in names[t], TRUE) /\ UNCHANGED name
    BY <1>8 DEF StoreEntry
  <2>2. answer' \in [Threads -> BOOLEAN] /\ trusted' \in [Threads -> BOOLEAN]
    BY <2>1, AnswerTyped DEF Reply
  <2>3. LookupTypes' /\ HistoryTypes'
    BY <1>2, <2>1, <2>2, ReplyTyped DEF Reply
  <2>4. cache' \in EntryType
    BY <1>8 DEF StoreEntry, LookupTypes, HistoryTypes, IdType, EntryType
  <2> QED
    BY <2>3, <2>4
<1>9. CASE Return(t)
  BY <1>2, <1>9 DEF Return, Reset, Step, LookupTypes, HistoryTypes
<1> QED
  BY <1>3, <1>4, <1>5, <1>6, <1>7, <1>8, <1>9 DEF Lookup

LEMMA TypedChange ==
  ASSUME TypeOK, Change, Witness
  PROVE  TypeOK'
<1> USE TypeParts
<1>1. LookupTypes' /\ UNCHANGED trusted
  BY DEF Change, lookups, LookupTypes
<1>2. truths' \in [Threads -> SUBSET BOOLEAN]
  BY TruthsTyped
<1> SUFFICES file' \in FileType /\ cache' \in EntryType /\ UpsertTypes'
             /\ dirty' \in [Threads -> BOOLEAN]
  BY <1>1, <1>2, TypePartsNext DEF HistoryTypes
<1>3. \A e \in EntryType : Unfit(e) \in EntryType
  BY DEF Unfit, EntryType
<1>4. file.body \in Bodies /\ Listed(file.body) \subseteq Contents
  BY ListedBodies DEF FileType
<1>5. MaxWrites \in Nat
  BY CacheAssumption
<1>6. CASE EditConfig
  <2>1. PICK b \in Bodies, s \in Sizes \cup {0}, m \in Ticks :
          /\ FileBecomes(b, s, m)
          /\ cache' = IF m > file.mtime THEN cache ELSE Unfit(cache)
    BY <1>6 DEF EditConfig
  <2>2. file' \in FileType /\ dirty' \in [Threads -> BOOLEAN]
    BY <2>1, FileTyped
  <2>3. cache' \in EntryType
    BY <1>3, <2>1
  <2>4. UpsertTypes'
    BY <1>5, <1>6 DEF EditConfig, UpsertTypes
  <2> QED
    BY <2>2, <2>3, <2>4
<1>7. ASSUME NEW w \in Writers, Upsert(w)
      PROVE  file' \in FileType /\ cache' \in EntryType /\ UpsertTypes'
             /\ dirty' \in [Threads -> BOOLEAN]
  <2>1. CASE ReadForUpsert(w)
    <3>1. doc' \in [Writers -> Contents]
      <4>1. PICK n \in Names : doc' = [doc EXCEPT ![w] = (UNION Listed(file.body)) \cup {n}]
        BY <2>1 DEF ReadForUpsert
      <4>2. (UNION Listed(file.body)) \cup {n} \in Contents
        <5>1. CASE file.body \in Contents
          <6>1. UNION Listed(file.body) = file.body
            BY <1>4, <5>1, ListedBodies
          <6> QED
            BY <5>1, <6>1, CacheAssumption
        <5>2. CASE file.body \notin Contents
          <6>1. UNION Listed(file.body) = {}
            BY <1>4, <5>2, ListedBodies
          <6> QED
            BY <6>1, CacheAssumption
        <5> QED
          BY <5>1, <5>2
      <4> QED
        BY <4>1, <4>2 DEF UpsertTypes
    <3>2. writes' \in 0..MaxWrites
      BY <1>5, <2>1 DEF ReadForUpsert, UpsertTypes
    <3> QED
      BY <2>1, <3>1, <3>2 DEF ReadForUpsert, WStep, UpsertTypes, HistoryTypes
  <2>2. CASE OpenFails(w)
    BY <2>2, CacheAssumption DEF OpenFails, WStep, Reset, UpsertTypes, HistoryTypes
  <2>3. CASE Truncate(w)
    <3>1. PICK m \in Now : FileBecomes(Broken, 0, m)
      BY <2>3 DEF Truncate
    <3>2. file' \in FileType /\ dirty' \in [Threads -> BOOLEAN]
      BY <3>1, FileTyped DEF Now, Bodies
    <3>3. old' \in [Writers -> SUBSET Contents]
      BY <1>4, <2>3 DEF Truncate, Replaces, UpsertTypes
    <3> QED
      BY <2>3, <3>2, <3>3 DEF Truncate, WStep, UpsertTypes
  <2>4. CASE Insert(w)
    <3>1. old' \in [Writers -> SUBSET Contents]
      BY <1>4, <2>4 DEF Insert, Replaces, UpsertTypes
    <3>2. UpsertTypes'
      <4>1. rest' \in [Writers -> BOOLEAN] /\ sole' \subseteq Writers
        BY <2>4 DEF Insert, Reset, UpsertTypes
      <4> QED
        BY <2>4, <3>1, <4>1 DEF Insert, WStep, UpsertTypes
    <3>3. CASE UNCHANGED <<file, dirty>>
      BY <2>4, <3>2, <3>3 DEF Insert, HistoryTypes
    <3>4. CASE Writes(w, Broken)
      BY <2>4, <3>2, <3>4, WritesTyped DEF Insert
    <3>5. CASE Writes(w, doc[w])
      <4>1. doc[w] \in Contents
        BY DEF UpsertTypes
      <4> QED
        BY <2>4, <3>2, <3>5, <4>1, WritesTyped DEF Insert
    <3> QED
      BY <2>4, <3>3, <3>4, <3>5 DEF Insert
  <2>5. CASE Invalidate(w)
    BY <2>5, Constants DEF Invalidate, Erased, WStep, Reset, UpsertTypes, HistoryTypes
  <2>6. CASE Close(w)
    <3>1. UpsertTypes'
      <4>1. sole' \subseteq Writers
        BY <2>6 DEF Close, UpsertTypes
      <4> QED
        BY <2>6, <4>1, CacheAssumption DEF Close, WStep, Reset, UpsertTypes
    <3>2. CASE UNCHANGED <<file, cache, dirty>>
      BY <3>1, <3>2 DEF HistoryTypes
    <3>3. CASE ~UNCHANGED <<file, cache, dirty>>
      <4>1. PICK b \in {Broken, doc[w]} : Writes(w, b)
        BY <2>6, <3>3 DEF Close
      <4>2. b \in {Broken} \cup Contents
        BY DEF UpsertTypes
      <4>3. file' \in FileType /\ dirty' \in [Threads -> BOOLEAN]
        BY <4>1, <4>2, WritesTyped
      <4>4. cache' \in EntryType
        BY <1>3, <2>6 DEF Close
      <4> QED
        BY <3>1, <4>3, <4>4
    <3> QED
      BY <3>2, <3>3
  <2> QED
    BY <1>7, <2>1, <2>2, <2>3, <2>4, <2>5, <2>6 DEF Upsert
<1> QED
  BY <1>6, <1>7 DEF Change

LEMMA TypedInit == Init => TypeOK
<1> SUFFICES ASSUME Init PROVE TypeOK
  OBVIOUS
<1>1. 1 \in Ticks /\ 0 \in 0..MaxWrites
  BY CacheAssumption DEF Ticks
<1>2. file \in FileType
  BY <1>1 DEF Init, FileType, Bodies
<1>3. cache \in EntryType /\ UpsertTypes /\ HistoryTypes
  BY <1>1, Constants, CacheAssumption DEF Init, UpsertTypes, HistoryTypes
<1>4. LookupTypes
  BY Constants DEF Init, LookupTypes, Rosters
<1> QED
  BY <1>2, <1>3, <1>4, TypeParts

LEMMA TypedStep == TypeOK /\ [Next]_cvars => TypeOK'
<1> SUFFICES ASSUME TypeOK, [Next]_cvars PROVE TypeOK'
  OBVIOUS
<1>1. CASE UNCHANGED cvars
  BY <1>1 DEF cvars, lookups, upserts, TypeOK
<1> QED
  BY <1>1, TypedLookup, TypedChange DEF Next

(* Every variable keeps to its type, and no lookup compares an entry with an
   identity that it could not read. *)
THEOREM CacheTyped == Spec => []TypeOK
BY TypedInit, TypedStep, PTL DEF Spec

-----------------------------------------------------------------------------
(* Coherence. *)

Coherent == TypeOK /\ SoleInv /\ CacheInv /\ ReadInv

(* A change of the file is noted by every lookup that has read it. *)
LEMMA ReadChange ==
  ASSUME TypeOK, ReadInv, Change
  PROVE  ReadInv'
<1>1. UNCHANGED <<pc, name, id, names>>
  BY DEF Change, lookups
<1>2. CASE UNCHANGED <<file, dirty>>
  BY <1>1, <1>2 DEF ReadInv
<1>3. CASE dirty' = [t \in Threads |-> pc[t] \in Reading]
  BY <1>1, <1>3 DEF ReadInv
<1>4. UNCHANGED <<file, dirty>> \/ dirty' = [t \in Threads |-> pc[t] \in Reading]
  BY DEF Change, EditConfig, Upsert, ReadForUpsert, OpenFails, Truncate, Insert, Invalidate, Close,
         Writes, FileBecomes
<1> QED
  BY <1>2, <1>3, <1>4

LEMMA ReadLookup ==
  ASSUME TypeOK, ReadInv, NEW t \in Threads, Lookup(t)
  PROVE  ReadInv'
<1>1. UNCHANGED file
  BY DEF Lookup
<1>2. CASE Call(t) \/ Return(t)
  BY <1>1, <1>2 DEF Call, Return, Step, Reset, TypeOK, ReadInv, Reading
<1>3. CASE FirstIdentity(t)
  BY <1>1, <1>3 DEF FirstIdentity, GiveUp, Reply, Step, Reset, TypeOK, ReadInv, Reading
<1>4. CASE SecondIdentity(t)
  <2>1. ~dirty[t] /\ pc[t] \in Reading => file.body # Gone
    BY ListedBodies DEF ReadInv, TypeOK
  <2> QED
    BY <1>1, <1>4, <2>1 DEF SecondIdentity, Step, TypeOK, ReadInv, Reading
<1>5. CASE Look(t)
  BY <1>1, <1>5 DEF Look, Reply, Step, Reset, TypeOK, ReadInv, Reading
<1>6. CASE ReadDoc(t)
  <2>1. Listed(file.body) # {} => file.body \in Contents
    BY ListedBodies DEF TypeOK
  <2> QED
    BY <1>1, <1>6, <2>1 DEF ReadDoc, Reply, Step, Reset, TypeOK, ReadInv, Reading
<1>7. CASE StoreEntry(t)
  BY <1>1, <1>7 DEF StoreEntry, Reply, Step, Reset, TypeOK, ReadInv, Reading
<1> QED
  BY <1>2, <1>3, <1>4, <1>5, <1>6, <1>7 DEF Lookup

(* Only StoreEntry touches the cache, and a fit entry is of the file as it is. *)
LEMMA Filled ==
  ASSUME TypeOK, ReadInv, NEW t \in Threads, Lookup(t), cache' # cache, cache'.fit
  PROVE  /\ file.body \in Contents /\ Listed(file.body) = {file.body}
         /\ cache'.names = NamesOf(file.body) /\ cache'.mtime = file.mtime
<1>1. StoreEntry(t)
  BY DEF Lookup, Call, FirstIdentity, SecondIdentity, Look, ReadDoc, Return
<1>2. pc[t] = "store" /\ ~dirty[t] /\ cache'.names = names[t] /\ cache'.mtime = id[t].mtime
  BY <1>1 DEF StoreEntry, Reply, Step
<1>3. file.body \in Contents /\ names[t] = NamesOf(file.body) /\ id[t].mtime = file.mtime
  BY <1>2 DEF ReadInv, Reading
<1> QED
  BY <1>2, <1>3, ListedBodies DEF TypeOK

LEMMA CoherentLookup ==
  ASSUME Coherent, NEW t \in Threads, Lookup(t), Witness
  PROVE  Coherent'
<1> USE DEF Coherent
<1>1. UNCHANGED <<file, wpc, rest, sole, old>>
  BY DEF Lookup, upserts
<1>2. TypeOK' /\ ReadInv'
  BY TypedLookup, ReadLookup
<1>3. CASE cache' = cache
  BY <1>1, <1>2, <1>3 DEF SoleInv, CacheInv, Standing
<1>4. CASE cache' # cache /\ ~cache'.fit
  BY <1>1, <1>2, <1>4 DEF SoleInv, CacheInv
<1>5. CASE cache' # cache /\ cache'.fit
  <2>1. /\ file.body \in Contents /\ Listed(file.body) = {file.body}
        /\ cache'.names = NamesOf(file.body) /\ cache'.mtime = file.mtime
    BY <1>5, Filled
  <2>2. file.body # Broken
    BY <2>1, CacheAssumption
  <2>3. file.mtime \in Nat
    BY Constants DEF TypeOK
  <2>4. Standing' = Standing /\ file.body \in Standing
    BY <1>1, <2>1 DEF Standing
  <2>5. CacheInv'
    BY <1>1, <2>1, <2>3, <2>4 DEF CacheInv
  <2>6. SoleInv'
    BY <1>1, <2>2 DEF SoleInv, TypeOK
  <2> QED
    BY <1>2, <2>5, <2>6
<1> QED
  BY <1>3, <1>4, <1>5

(* A roster that may be believed remains so when an upsert replaces it. *)
LEMMA StandingGrows ==
  ASSUME TypeOK, NEW w \in Writers, Replaces(w)
  PROVE  Standing \subseteq Standing'
<1>1. Listed(file.body) \subseteq old'[w]
  BY DEF Replaces, TypeOK
<1>2. \A v \in Writers : old[v] \subseteq old'[v]
  BY DEF Replaces, TypeOK
<1> QED
  BY <1>1, <1>2 DEF Standing

LEMMA CoherentUpsert ==
  ASSUME Coherent, NEW w \in Writers, Upsert(w), TypeOK'
  PROVE  SoleInv' /\ CacheInv'
<1> USE DEF Coherent
<1>1. file.mtime \in Nat /\ file'.mtime \in Nat /\ cache.mtime \in Nat
  BY Constants DEF TypeOK
<1>2. doc[w] \in {Broken} \cup Contents
  BY DEF TypeOK
<1>3. CASE ReadForUpsert(w)
  BY <1>3 DEF ReadForUpsert, WStep, SoleInv, CacheInv, Standing, TypeOK
<1>4. CASE OpenFails(w)
  BY <1>4 DEF OpenFails, WStep, SoleInv, CacheInv, Standing, TypeOK
<1>5. CASE Truncate(w)
  <2>1. PICK m \in Now : FileBecomes(Broken, 0, m)
    BY <1>5 DEF Truncate
  <2>2. file'.body = Broken /\ file'.mtime >= file.mtime
    BY <2>1 DEF FileBecomes, Now
  <2>3. Standing \subseteq Standing' /\ cache' = cache
    BY <1>5, StandingGrows DEF Truncate
  <2>4. CacheInv'
    BY <1>1, <2>2, <2>3 DEF CacheInv
  <2>5. SoleInv'
    BY <1>5, <2>2 DEF Truncate, WStep, SoleInv, TypeOK
  <2> QED
    BY <2>4, <2>5
<1>6. CASE Insert(w)
  <2>1. Standing \subseteq Standing' /\ cache' = cache
    BY <1>6, StandingGrows DEF Insert
  <2>2. \A v \in Writers : v # w => wpc'[v] = wpc[v] /\ rest'[v] = rest[v]
    BY <1>6 DEF Insert, WStep, Reset, TypeOK
  <2>3. wpc[w] = "insert" /\ wpc'[w] = "invalidate"
    BY <1>6 DEF Insert, WStep, TypeOK
  <2>4. CASE UNCHANGED <<file, sole>>
    BY <2>1, <2>2, <2>3, <2>4 DEF SoleInv, CacheInv, TypeOK
  <2>5. CASE sole' = sole \cap {w} /\ Writes(w, Broken)
    <3>1. file'.mtime >= file.mtime /\ (w \in sole => file'.body = Broken)
      BY <2>5, WritesTyped
    <3> QED
      BY <1>1, <2>1, <2>3, <2>5, <3>1 DEF SoleInv, CacheInv
  <2>6. CASE sole' = sole \cap {w} /\ Writes(w, doc[w]) /\ Reset(rest, w, FALSE)
    <3>1. file'.mtime >= file.mtime
      BY <1>2, <2>6, WritesTyped
    <3>2. ~rest'[w]
      BY <2>6 DEF Reset, TypeOK
    <3> QED
      BY <1>1, <2>1, <2>3, <2>6, <3>1, <3>2 DEF SoleInv, CacheInv
  <2> QED
    BY <1>6, <2>4, <2>5, <2>6 DEF Insert
<1>7. CASE Invalidate(w)
  BY <1>7 DEF Invalidate, Erased, NoEntry, WStep, SoleInv, CacheInv, TypeOK
<1>8. CASE Close(w)
  <2>1. wpc[w] = "close" /\ wpc'[w] = "idle" /\ ~rest'[w] /\ old' = old
    BY <1>8 DEF Close, WStep, Reset, TypeOK
  <2>2. \A v \in Writers : v # w => wpc'[v] = wpc[v] /\ rest'[v] = rest[v]
    BY <1>8 DEF Close, WStep, Reset, TypeOK
  <2>3. CASE UNCHANGED <<file, cache, dirty>> /\ sole' = sole \ {w}
    BY <2>1, <2>2, <2>3 DEF SoleInv, CacheInv, Standing, TypeOK
  <2>4. CASE rest[w] /\ sole' = {} /\ cache' = IF w \in sole THEN cache ELSE Unfit(cache)
    <3>1. ~cache'.fit
      BY <2>1, <2>4 DEF SoleInv, Unfit, TypeOK
    <3> QED
      BY <2>4, <3>1 DEF SoleInv, CacheInv
  <2> QED
    BY <1>8, <2>3, <2>4 DEF Close
<1> QED
  BY <1>3, <1>4, <1>5, <1>6, <1>7, <1>8 DEF Upsert

LEMMA CoherentEdit ==
  ASSUME Coherent, EditConfig, UNCHANGED <<wpc, rest, old>>
  PROVE  SoleInv' /\ CacheInv'
<1>1. PICK b \in Bodies, s \in Sizes \cup {0}, m \in Ticks :
        /\ FileBecomes(b, s, m)
        /\ cache' = IF m > file.mtime THEN cache ELSE Unfit(cache)
  BY DEF EditConfig
<1>2. file.mtime \in Nat /\ m \in Nat /\ cache.mtime \in Nat /\ file'.mtime = m
  BY <1>1, Constants DEF Coherent, TypeOK, FileBecomes
<1>3. sole' = {}
  BY DEF EditConfig
<1>4. CASE m > file.mtime
  BY <1>1, <1>2, <1>3, <1>4 DEF Coherent, SoleInv, CacheInv
<1>5. CASE ~(m > file.mtime)
  BY <1>1, <1>3, <1>5 DEF Unfit, SoleInv, CacheInv, Coherent, TypeOK
<1> QED
  BY <1>4, <1>5

LEMMA CoherentStep == Coherent /\ [Next]_cvars => Coherent'
<1> SUFFICES ASSUME Coherent, [Next]_cvars PROVE Coherent'
  OBVIOUS
<1>1. CASE \E t \in Threads : Lookup(t) /\ Witness
  BY <1>1, CoherentLookup
<1>2. CASE Change /\ Witness
  <2>1. TypeOK' /\ ReadInv'
    BY <1>2, TypedChange, ReadChange DEF Coherent
  <2>2. SoleInv' /\ CacheInv'
    BY <1>2, <2>1, CoherentUpsert, CoherentEdit DEF Change, EditConfig
  <2> QED
    BY <2>1, <2>2 DEF Coherent
<1>3. CASE UNCHANGED cvars
  BY <1>3 DEF cvars, lookups, upserts, Coherent, TypeOK, SoleInv, CacheInv, ReadInv, Standing
<1> QED
  BY <1>1, <1>2, <1>3 DEF Next

LEMMA AlwaysCoherent == Spec => []Coherent
<1>1. Init => Coherent
  BY TypedInit DEF Init, NoEntry, Coherent, SoleInv, CacheInv, ReadInv, Reading
<1> QED
  BY <1>1, CoherentStep, PTL DEF Spec

(* A fit entry is believed only of the content it was filled from, or while an
   upsert that replaced that content has yet to invalidate: for any number of
   lookups and upserts, however their steps and writes fall. *)
THEOREM CacheIsCoherent == Spec => []CacheCoherent
<1>1. Coherent => CacheCoherent
  BY DEF Coherent, CacheInv, CacheCoherent
<1> QED
  BY <1>1, AlwaysCoherent, PTL

-----------------------------------------------------------------------------
(* Answers. *)

Invariants == Coherent /\ IdentityInv /\ AnswerInv

(* What may be believed before a step of a call joins what may be answered. *)
LEMMA TruthsGrow ==
  ASSUME TypeOK, Witness, NEW t \in Threads, pc'[t] # "idle"
  PROVE  /\ truths[t] \subseteq truths'[t]
         /\ Answer(file.body, name'[t]) \in truths'[t]
         /\ \A b \in Standing : (name'[t] \in b) \in truths'[t]
BY DEF Witness

(* The names of a roster that may be believed give an answer that may be given. *)
LEMMA BelievedIsTrue ==
  ASSUME TypeOK, Witness, TypeOK', NEW t \in Threads, pc'[t] # "idle", NEW b \in Standing
  PROVE  (name'[t] \in NamesOf(b)) \in truths'[t]
<1>1. b \in Contents
  BY ListedBodies DEF Standing, TypeOK
<1>2. (name'[t] \in NamesOf(b)) = (name'[t] \in b)
  BY <1>1, SameNames DEF TypeOK
<1> QED
  BY <1>2, TruthsGrow

(* A lookup's time singles out an entry that was filled before it was read, and
   then could be believed when it was read, or since. *)
LEMMA IdentityLookup ==
  ASSUME Invariants, NEW t \in Threads, Lookup(t), Witness
  PROVE  IdentityInv'
<1> USE DEF Invariants, Coherent
<1> SUFFICES ASSUME NEW u \in Threads, cache'.fit, pc'[u] = "look", cache'.mtime = id'[u].mtime
             PROVE  (name'[u] \in cache'.names) \in truths'[u]
  BY DEF IdentityInv
<1>1. UNCHANGED file /\ TypeOK'
  BY TypedLookup DEF Lookup
<1>2. truths[u] \subseteq truths'[u]
  BY TruthsGrow
<1>3. CASE cache' # cache
  <2>1. cache'.names = NamesOf(file.body) /\ file.body \in Standing
    BY <1>3, Filled DEF Standing
  <2> QED
    BY <1>1, <2>1, BelievedIsTrue
<1>4. CASE cache' = cache /\ u = t
  <2>1. id' = [id EXCEPT ![t].mtime = file.mtime]
    BY <1>4 DEF Lookup, Call, FirstIdentity, GiveUp, SecondIdentity, Look, ReadDoc, StoreEntry,
                Return, Reply, Step, TypeOK
  <2>2. cache.mtime = file.mtime
    BY <1>4, <2>1 DEF TypeOK
  <2>3. PICK b \in Standing : cache.names = NamesOf(b)
    BY <1>4, <2>2 DEF CacheInv
  <2> QED
    BY <1>1, <1>4, <2>3, BelievedIsTrue
<1>5. CASE cache' = cache /\ u # t
  <2>1. pc'[u] = pc[u] /\ id'[u] = id[u] /\ name'[u] = name[u]
    BY <1>5 DEF Lookup, Call, FirstIdentity, GiveUp, SecondIdentity, Look, ReadDoc, StoreEntry,
                Return, Reply, Reset, Step, TypeOK
  <2> QED
    BY <1>2, <1>5, <2>1 DEF IdentityInv
<1> QED
  BY <1>3, <1>4, <1>5

LEMMA AnswerLookup ==
  ASSUME Invariants, NEW t \in Threads, Lookup(t), Witness
  PROVE  AnswerInv'
<1> USE DEF Invariants, Coherent
<1> SUFFICES ASSUME NEW u \in Threads
             PROVE  /\ pc'[u] \in Reading => (name'[u] \in names'[u]) \in truths'[u]
                    /\ pc'[u] = "reply" /\ trusted'[u] => answer'[u] \in truths'[u]
  BY DEF AnswerInv
<1>1. TypeOK'
  BY TypedLookup
<1>2. pc'[u] # "idle" => truths[u] \subseteq truths'[u]
  BY TruthsGrow
<1>3. CASE u # t
  <2>1. /\ pc'[u] = pc[u] /\ names'[u] = names[u] /\ name'[u] = name[u]
        /\ answer'[u] = answer[u] /\ trusted'[u] = trusted[u]
    BY <1>3 DEF Lookup, Call, FirstIdentity, GiveUp, SecondIdentity, Look, ReadDoc, StoreEntry,
                Return, Reply, Reset, Step, TypeOK
  <2> QED
    BY <1>2, <2>1 DEF AnswerInv, Reading
<1>4. CASE u = t /\ (Call(t) \/ Return(t))
  BY <1>4 DEF Call, Return, Step, Reading, TypeOK
<1>5. CASE u = t /\ FirstIdentity(t)
  <2>1. CASE \E s \in {"size", "mtime"} : GiveUp(t, s)
    <3>1. pc'[t] = "reply" /\ answer'[t] = FALSE
      BY <2>1 DEF GiveUp, Reply, Step, Reset, TypeOK
    <3>2. Answer(file.body, name'[t]) = FALSE
      <4>1. file.body = Gone
        BY <1>5, <3>1 DEF FirstIdentity, Step, TypeOK
      <4> QED
        BY <4>1 DEF Answer, Listed
    <3> QED
      BY <1>5, <3>1, <3>2, TruthsGrow DEF Reading
  <2>2. CASE ~\E s \in {"size", "mtime"} : GiveUp(t, s)
    BY <1>5, <2>2 DEF FirstIdentity, Step, Reading, TypeOK
  <2> QED
    BY <2>1, <2>2
<1>6. CASE u = t /\ SecondIdentity(t)
  <2>1. pc[t] \in Reading /\ pc'[t] \in Reading /\ name'[t] = name[t] /\ names'[t] = names[t]
    BY <1>6 DEF SecondIdentity, Step, Reading, TypeOK
  <2> QED
    BY <1>2, <1>6, <2>1 DEF AnswerInv, Reading
<1>7. CASE u = t /\ Look(t)
  <2>1. CASE Matches(cache, id[t])
    <3>1. /\ pc[t] = "look" /\ pc'[t] = "reply" /\ trusted'[t] = cache.fit
          /\ answer'[t] = (name[t] \in cache.names)
      BY <1>7, <2>1 DEF Look, Reply, Step, Reset, TypeOK
    <3>2. cache.fit => (name[t] \in cache.names) \in truths[t]
      BY <2>1, <3>1 DEF IdentityInv, Matches
    <3> QED
      BY <1>2, <1>7, <3>1, <3>2 DEF Reading
  <2>2. CASE ~Matches(cache, id[t])
    BY <1>7, <2>2 DEF Look, Step, Reading, TypeOK
  <2> QED
    BY <2>1, <2>2
<1>8. CASE u = t /\ ReadDoc(t)
  <2>1. CASE Listed(file.body) = {}
    <3>1. pc'[t] = "reply" /\ answer'[t] = FALSE
      BY <1>8, <2>1 DEF ReadDoc, Reply, Step, Reset, TypeOK
    <3>2. Answer(file.body, name'[t]) = FALSE
      BY <2>1 DEF Answer
    <3> QED
      BY <1>8, <3>1, <3>2, TruthsGrow DEF Reading
  <2>2. CASE Listed(file.body) # {}
    <3>1. pc'[t] = "resize" /\ names'[t] = NamesOf(file.body)
      BY <1>8, <2>2 DEF ReadDoc, Step, TypeOK
    <3>2. file.body \in Standing
      BY <2>2 DEF Standing, Listed
    <3> QED
      BY <1>1, <1>8, <3>1, <3>2, BelievedIsTrue DEF Reading
  <2> QED
    BY <2>1, <2>2
<1>9. CASE u = t /\ StoreEntry(t)
  <2>1. /\ pc[t] = "store" /\ pc'[t] = "reply" /\ answer'[t] = (name[t] \in names[t])
    BY <1>9 DEF StoreEntry, Reply, Step, Reset, TypeOK
  <2>2. (name[t] \in names[t]) \in truths[t]
    BY <2>1 DEF AnswerInv, Reading
  <2> QED
    BY <1>2, <1>9, <2>1, <2>2 DEF Reading
<1> QED
  BY <1>3, <1>4, <1>5, <1>6, <1>7, <1>8, <1>9 DEF Lookup

(* A change of the file takes nothing back; an entry that is erased, or no
   longer fit, is not one to rely on. *)
LEMMA AnswersChange ==
  ASSUME Invariants, Change, Witness
  PROVE  IdentityInv' /\ AnswerInv'
<1> USE DEF Invariants, Coherent
<1>1. UNCHANGED <<pc, name, id, names, answer, trusted>>
  BY DEF Change, lookups
<1>2. \A t \in Threads : pc[t] # "idle" => truths[t] \subseteq truths'[t]
  BY <1>1, TruthsGrow
<1>3. cache' = cache \/ ~cache'.fit
  <2>1. ~NoEntry.fit /\ ~Unfit(cache).fit
    BY DEF NoEntry, Unfit, TypeOK
  <2>2. cache' \in {cache, NoEntry, Unfit(cache)}
    BY DEF Change, EditConfig, Upsert, ReadForUpsert, OpenFails, Truncate, Insert, Invalidate,
           Erased, Close
  <2> QED
    BY <2>1, <2>2
<1>4. IdentityInv'
  BY <1>1, <1>2, <1>3 DEF IdentityInv
<1>5. AnswerInv'
  BY <1>1, <1>2 DEF AnswerInv, Reading
<1> QED
  BY <1>4, <1>5

(* Two system calls for the identity, a comparison under the cache's lock
   later, a file that several upserts and others rewrite meanwhile: a lookup
   that uses no unfit entry answers what was so during its call, or what an
   upsert that had yet to invalidate had replaced. *)
THEOREM AnswersWereRight == Spec => []AnswerWasRight
<1>1. Init => IdentityInv /\ AnswerInv
  BY DEF Init, IdentityInv, AnswerInv, Reading
<1>2. Invariants /\ [Next]_cvars => IdentityInv' /\ AnswerInv'
  <2> SUFFICES ASSUME Invariants, [Next]_cvars PROVE IdentityInv' /\ AnswerInv'
    OBVIOUS
  <2>1. CASE UNCHANGED cvars
    BY <2>1 DEF cvars, lookups, Invariants, IdentityInv, AnswerInv
  <2> QED
    BY <2>1, IdentityLookup, AnswerLookup, AnswersChange DEF Next
<1>3. Invariants => AnswerWasRight
  BY DEF Invariants, AnswerInv, AnswerWasRight
<1>4. Invariants <=> Coherent /\ IdentityInv /\ AnswerInv
  BY DEF Invariants
<1> QED
  BY <1>1, <1>2, <1>3, <1>4, AlwaysCoherent, PTL DEF Spec

=============================================================================
