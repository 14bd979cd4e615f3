--------------------------- MODULE ModeViewProofs ---------------------------
(* What a reader of a mode's roster reports was current during its call, and
   the agents it is told to use are what its mode's list selects. *)
EXTENDS ModeView, StoreProofs, WellFoundedInduction

ReaderTypes ==
  /\ rpc \in [Readers -> ReadSteps]
  /\ mode \in [Readers -> KnownModes]
  /\ live \in [Readers -> BOOLEAN]
  /\ allNames = [r \in Readers |-> allNames[r]]
  /\ configured \in [Readers -> ModeVals \cup {NoList}]

(* No reader outlives its process, so that the map it holds is the one the
   store holds; that there was none is remembered by what was current then. *)
Reported(r) ==
  IF configured[r] = NoList THEN lists0[r] \cap {Unset, <<>>} # {}
  ELSE configured[r] \in lists0[r]

ReaderInv ==
  \A r \in Readers :
    /\ ~up => rpc[r] = "idle"
    /\ rpc[r] \in {"config", "agents", "options", "reply"} => allNames[r] \in names0[r]
    /\ rpc[r] = "agents" =>
         IF live[r] THEN modesConfig[mode[r]] \in ModeObjects ELSE Unset \in lists0[r]
    /\ rpc[r] \in {"options", "reply"} => Reported(r)

ViewInv == TypeOK /\ ReaderTypes /\ ReaderInv

(* What is so before or after a step of a call joins what was so during it. *)
LEMMA WitnessGrows ==
  ASSUME Witness, NEW r \in Readers, rpc'[r] # "idle"
  PROVE  /\ names0[r] \subseteq names0'[r] /\ lists0[r] \subseteq lists0'[r]
         /\ SortedNames(agents) \in names0'[r]
         /\ ListOf(modesConfig[mode'[r]]) \in lists0'[r]
BY DEF Witness

(* While the process runs, an entry that is an object stays one: a reader may
   go on reading the map it was given. *)
LEMMA ObjectsStay ==
  ASSUME TypeOK, Next, up, up', NEW m \in KnownModes, modesConfig[m] \in ModeObjects
  PROVE  modesConfig'[m] \in ModeObjects
<1>1. ASSUME NEW h \in Handlers, PutModeAgents(h) PROVE modesConfig'[m] \in ModeObjects
  <2> DEFINE k == req[h].mode
             body == req[h].body
             new == Overwrite(ModeObject(modesConfig[k]), body)
  <2>1. body \in ModeObjects
    BY <1>1, RequestFields DEF PutModeAgents, Handling, TypeOK
  <2>2. modesConfig' = modesConfig \/ modesConfig' = [modesConfig EXCEPT ![k] = new]
    BY <1>1 DEF PutModeAgents, Answer, memory
  <2>3. k = m => new \in ModeObjects
    <3>1. k = m => ModeObject(modesConfig[k]) \in ModeObjects /\ NilMap \notin ModeObjects
      BY StoreAssumption DEF ModeObject
    <3> QED
      BY <2>1, <3>1 DEF Overwrite, ModeObjects
  <2> HIDE DEF k, new
  <2> QED
    BY <2>2, <2>3 DEF TypeOK
<1>2. ASSUME NEW h \in Handlers,
             Receive(h) \/ PersistFails(h) \/ (Serve(h) /\ ~PutModeAgents(h))
      PROVE  UNCHANGED modesConfig
  BY <1>2 DEF Receive, PersistFails, Serve, UpsertAgent, RemoveAgent, SetPrompt, AgentByName, Agents,
              SetActiveMode, UnlockToPersist, Answer, PersistSnapshot, MarshalAgent, MarshalEnds,
              MarshalModes, OpenFile, WriteFile, Respond, memory
<1>3. CASE EditSwarm
  BY <1>3 DEF EditSwarm, memory
<1>4. ~(Crash \/ MapFatal \/ Boot)
  BY DEF Crash, MapFatal, Die, Boot
<1> QED
  BY <1>1, <1>2, <1>3, <1>4 DEF Next

LEMMA ReaderStepKeeps ==
  ASSUME ViewInv, ReaderStep, Witness
  PROVE  ViewInv'
<1>1. PICK r \in Readers : (GetMode(r) \/ Read(r)) /\ UNCHANGED vars
  BY DEF ReaderStep
<1>2. TypeOK' /\ up' = up /\ modesConfig' = modesConfig
  BY <1>1, TypedStep DEF ViewInv, vars, memory
<1>3. ReaderTypes'
  <2> USE DEF ReaderTypes, ViewInv, ReadAt, StepTo, ReadSteps
  <2>1. CASE GetMode(r)
    BY <2>1 DEF GetMode
  <2>2. CASE AgentNames(r)
    BY <2>2 DEF AgentNames
  <2>3. CASE ModeConfig(r)
    BY <2>3 DEF ModeConfig
  <2>4. CASE ReadAgents(r)
    <3> DEFINE list == IF live[r] THEN modesConfig[mode[r]]["agents"] ELSE Unset
    <3>1. list \in ModeVals \cup {Unset}
      BY <2>4 DEF ReadAgents, ReaderInv, ModeObjects, ModeKeys
    <3>2. configured' = [configured EXCEPT ![r] = IF Explicit(list) THEN list ELSE NoList]
      BY <2>4 DEF ReadAgents
    <3> HIDE DEF list
    <3>3. configured' \in [Readers -> ModeVals \cup {NoList}]
      BY <3>1, <3>2 DEF Explicit
    <3> QED
      BY <2>4, <3>3 DEF ReadAgents
  <2>5. CASE ReadOption(r) \/ SendView(r)
    BY <2>5 DEF ReadOption, SendView
  <2>6. CASE Forget(r)
    BY <2>6 DEF Forget, KnownModes
  <2> QED
    BY <1>1, <2>1, <2>2, <2>3, <2>4, <2>5, <2>6 DEF Read
<1>4. ReaderInv'
  <2> SUFFICES ASSUME NEW u \in Readers
               PROVE  /\ ~up' => rpc'[u] = "idle"
                      /\ rpc'[u] \in {"config", "agents", "options", "reply"} =>
                           allNames'[u] \in names0'[u]
                      /\ rpc'[u] = "agents" =>
                           IF live'[u] THEN modesConfig'[mode'[u]] \in ModeObjects
                           ELSE Unset \in lists0'[u]
                      /\ rpc'[u] \in {"options", "reply"} => Reported(u)'
    BY DEF ReaderInv
  <2> USE DEF ReadAt, StepTo
  <2>1. CASE u # r
    <3>1. /\ rpc'[u] = rpc[u] /\ mode'[u] = mode[u] /\ live'[u] = live[u]
          /\ allNames'[u] = allNames[u] /\ configured'[u] = configured[u]
      BY <1>1, <2>1 DEF ViewInv, ReaderTypes, Read, GetMode, AgentNames, ModeConfig, ReadAgents,
                        ReadOption, SendView, Forget
    <3> QED
      BY <1>2, <3>1, WitnessGrows DEF ViewInv, ReaderInv, Reported
  <2>2. CASE u = r /\ GetMode(r)
    BY <1>2, <2>2 DEF GetMode, ViewInv, ReaderTypes
  <2>3. CASE u = r /\ AgentNames(r)
    BY <1>2, <2>3, WitnessGrows DEF AgentNames, ViewInv, ReaderTypes
  <2>4. CASE u = r /\ ModeConfig(r)
    <3>1. /\ rpc[r] = "config" /\ rpc'[r] = "agents" /\ up /\ mode' = mode
          /\ allNames' = allNames /\ live'[r] = (modesConfig[mode[r]] \in ModeObjects)
      BY <2>4 DEF ModeConfig, ViewInv, ReaderTypes
    <3>2. ~live'[r] => Unset \in lists0'[r]
      BY <3>1, WitnessGrows DEF ListOf
    <3> QED
      BY <1>2, <2>4, <3>1, <3>2, WitnessGrows DEF ViewInv, ReaderInv
  <2>5. CASE u = r /\ ReadAgents(r)
    <3> DEFINE list == IF live[r] THEN modesConfig[mode[r]]["agents"] ELSE Unset
    <3>1. /\ rpc[r] = "agents" /\ rpc'[r] = "options" /\ up /\ mode' = mode /\ allNames' = allNames
      BY <2>5 DEF ReadAgents, ViewInv, ReaderTypes
    <3>2. configured'[r] = IF Explicit(list) THEN list ELSE NoList
      BY <2>5 DEF ReadAgents, ViewInv, ReaderTypes
    <3>3. list \in lists0'[r]
      BY <3>1, WitnessGrows DEF ViewInv, ReaderInv, ListOf
    <3>4. list \in ModeVals \cup {Unset}
      BY <3>1 DEF ViewInv, ReaderInv, ReaderTypes, ModeObjects, ModeKeys
    <3> HIDE DEF list
    <3>5. Reported(r)'
      BY <3>2, <3>3, <3>4, ViewAssumption DEF Reported, Explicit
    <3> QED
      BY <1>2, <2>5, <3>1, <3>5, WitnessGrows DEF ViewInv, ReaderInv
  <2>6. CASE u = r /\ (ReadOption(r) \/ SendView(r))
    <3>1. /\ rpc[r] = "options" /\ rpc'[r] \in {"options", "reply"} /\ up
          /\ allNames' = allNames /\ configured' = configured
      BY <2>6 DEF ReadOption, SendView, ViewInv, ReaderTypes
    <3> QED
      BY <1>2, <2>6, <3>1, WitnessGrows DEF ViewInv, ReaderInv, Reported
  <2>7. CASE u = r /\ Forget(r)
    BY <2>7 DEF Forget, ViewInv, ReaderTypes
  <2> QED
    BY <1>1, <2>1, <2>2, <2>3, <2>4, <2>5, <2>6, <2>7 DEF Read
<1> QED
  BY <1>2, <1>3, <1>4 DEF ViewInv

LEMMA StoreStepKeeps ==
  ASSUME ViewInv, StoreStep, Witness
  PROVE  ViewInv'
<1>1. TypeOK'
  BY TypedStep, TypedProcess DEF ViewInv, StoreStep, ReadFatal
<1>2. CASE up /\ ~up'
  <2>1. ReadersLost
    BY <1>2 DEF StoreStep
  <2>2. ReaderTypes'
    BY <2>1 DEF ReadersLost, AllReaders, ReaderTypes, ReadSteps, KnownModes
  <2>3. \A r \in Readers : rpc'[r] = "idle"
    BY <2>1 DEF ReadersLost, AllReaders
  <2> QED
    BY <1>1, <2>2, <2>3 DEF ViewInv, ReaderInv
<1>3. CASE ~(up /\ ~up')
  <2>1. UNCHANGED <<rpc, mode, allNames, live, configured>>
    BY <1>3 DEF StoreStep
  <2>2. ReaderTypes'
    BY <2>1 DEF ViewInv, ReaderTypes
  <2>3. up' => Next
    BY DEF StoreStep, ReadFatal, Die
  <2>4. ASSUME NEW r \in Readers, rpc[r] # "idle", live[r], modesConfig[mode[r]] \in ModeObjects
        PROVE  modesConfig'[mode[r]] \in ModeObjects
    BY <1>3, <2>3, <2>4, ObjectsStay DEF ViewInv, ReaderTypes, ReaderInv
  <2>5. \A r \in Readers : rpc[r] # "idle" =>
          names0[r] \subseteq names0'[r] /\ lists0[r] \subseteq lists0'[r]
    BY <2>1, WitnessGrows
  <2>6. up \/ \A r \in Readers : rpc[r] = "idle"
    BY DEF ViewInv, ReaderInv
  <2>7. ReaderInv'
    BY <1>3, <2>1, <2>4, <2>5, <2>6 DEF ViewInv, ReaderInv, Reported
  <2> QED
    BY <1>1, <2>2, <2>7 DEF ViewInv
<1> QED
  BY <1>2, <1>3

(* Readers start idle, and every step of theirs or of the store keeps what
   they hold and report current. *)
LEMMA ViewStarts == VInit => ViewInv
<1> SUFFICES ASSUME VInit PROVE ViewInv
  OBVIOUS
<1>1. TypeOK
  BY InitTyped DEF VInit
<1> QED
  BY <1>1 DEF VInit, ReadersStart, AllReaders, ViewInv, ReaderTypes, ReaderInv, ReadSteps, KnownModes

LEMMA ViewKept == ViewInv /\ [VNext]_vvars => ViewInv'
<1> SUFFICES ASSUME ViewInv, [VNext]_vvars PROVE ViewInv'
  OBVIOUS
<1>1. CASE VNext
  BY <1>1, ReaderStepKeeps, StoreStepKeeps DEF VNext
<1>2. CASE UNCHANGED vvars
  BY <1>2, TypedStep DEF vvars, reading, vars, memory, ViewInv, ReaderTypes, ReaderInv, Reported
<1> QED
  BY <1>1, <1>2

(* Although names, list and options are read at different moments and partly
   without a lock, the names and the list of an answer were each current at
   some moment of the call, for all readers, handlers and lists. *)
THEOREM AnswersAreRegular == VSpec => []AnswerIsRegular
<1>1. ViewInv => AnswerIsRegular
  BY DEF ViewInv, ReaderInv, Reported, AnswerIsRegular
<1> QED
  BY <1>1, ViewStarts, ViewKept, PTL DEF VSpec

-----------------------------------------------------------------------------
(* Induction over the natural numbers, as a fact about sets of them. *)
LEMMA NatMin ==
  ASSUME NEW T \in SUBSET Nat, T # {}
  PROVE  \E x \in T : \A y \in T : ~(y < x)
<1> DEFINE below == {ss \in Nat \X Nat : ss[1] < ss[2]}
<1>1. IsWellFoundedOn(below, Nat)
  BY NatLessThanWellFounded DEF OpToRel
<1>2. \E x \in T : \A y \in T : <<y, x>> \notin below
  <2> HIDE DEF below
  <2> QED
    BY <1>1, WFMin
<1> QED
  BY <1>2

LEMMA NatInd ==
  ASSUME NEW T \in SUBSET Nat, 0 \in T, \A n \in T : n + 1 \in T
  PROVE  T = Nat
<1> SUFFICES ASSUME Nat \ T # {} PROVE FALSE
  OBVIOUS
<1>1. PICK x \in Nat \ T : \A y \in Nat \ T : ~(y < x)
  BY NatMin
<1>2. x - 1 \in T
  BY <1>1
<1> QED
  BY <1>1, <1>2

-----------------------------------------------------------------------------
(* The loop over the configured items: what Select computes, item by item. *)

LastOf(S) == CHOOSE x \in S : \A y \in S : x >= y
After(m, A, s, it, S) ==
  IF S = {} THEN NoView ELSE SelectItem(m, A, it[S \ {LastOf(S)}], s[LastOf(S)])

IsIteration(m, A, s, k, it) == it = [S \in SUBSET (1..k) |-> After(m, A, s, it, S)]

(* The fold takes the last position off, as long as there is one. *)
LEMMA SelectIsIterated ==
  ASSUME NEW m, NEW A, NEW s
  PROVE  Select(m, A, s) =
           (CHOOSE it : it = [S \in SUBSET DOMAIN s |-> After(m, A, s, it, S)])[DOMAIN s]
BY DEF Select, FoldLeft, MapThenFoldSet, Max, After, LastOf

LEMMA LastOfPrefix ==
  ASSUME NEW k \in Nat, NEW S \in SUBSET (1..(k + 1)), k + 1 \in S
  PROVE  LastOf(S) = k + 1 /\ S \ {k + 1} \in SUBSET (1..k)
<1>1. \A y \in S : k + 1 >= y
  OBVIOUS
<1>2. \A x \in S : (\A y \in S : x >= y) => x = k + 1
  OBVIOUS
<1>3. LastOf(S) = k + 1
  <2>1. \E x \in S : \A y \in S : x >= y
    BY <1>1
  <2>2. LastOf(S) \in S /\ \A y \in S : LastOf(S) >= y
    BY <2>1, Zenon DEF LastOf
  <2> QED
    BY <1>2, <2>2
<1>4. S \ {k + 1} \in SUBSET (1..k)
  OBVIOUS
<1> QED
  BY <1>3, <1>4

(* There is such a function of the sets of positions: one for the first k
   positions extends to k + 1. *)
LEMMA IterationExists ==
  ASSUME NEW m, NEW A, NEW s, NEW k \in Nat
  PROVE  \E it : IsIteration(m, A, s, k, it)
<1> USE DEF IsIteration
<1> DEFINE Iterated(n, it) == it = [S \in SUBSET (1..n) |-> After(m, A, s, it, S)]
           T == {n \in Nat : \E it : Iterated(n, it)}
<1>1. 0 \in T
  <2> DEFINE it == [S \in SUBSET (1..0) |-> NoView]
  <2>1. 1..0 = {}
    OBVIOUS
  <2>2. \A S \in SUBSET (1..0) : After(m, A, s, it, S) = NoView
    BY <2>1 DEF After
  <2>3. Iterated(0, it)
    BY <2>2
  <2> QED
    BY <2>3
<1>2. ASSUME NEW n \in T PROVE n + 1 \in T
  <2>1. PICK it : Iterated(n, it)
    OBVIOUS
  <2> DEFINE D == 1..n
             E == 1..(n + 1)
             new == [S \in SUBSET E |->
                       IF n + 1 \in S THEN SelectItem(m, A, it[S \ {n + 1}], s[n + 1])
                       ELSE it[S]]
  <2>2. n \in Nat
    OBVIOUS
  <2>3. \A S \in SUBSET E : n + 1 \notin S => S \in SUBSET D
    BY <2>2
  <2>4. D \subseteq E /\ n + 1 \notin D
    BY <2>2
  <2>5. \A S \in SUBSET D : new[S] = it[S]
    BY <2>4
  <2>6. ASSUME NEW S \in SUBSET E PROVE new[S] = After(m, A, s, new, S)
    <3>1. CASE n + 1 \in S
      <4>1. LastOf(S) = n + 1 /\ S \ {n + 1} \in SUBSET D
        BY <2>2, <3>1, LastOfPrefix
      <4>2. new[S] = SelectItem(m, A, it[S \ {n + 1}], s[n + 1])
        BY <3>1
      <4>3. new[S \ {n + 1}] = it[S \ {n + 1}]
        BY <2>5, <4>1
      <4>4. After(m, A, s, new, S) = SelectItem(m, A, new[S \ {n + 1}], s[n + 1])
        <5> HIDE DEF new
        <5> QED
          BY <3>1, <4>1 DEF After
      <4> QED
        BY <4>2, <4>3, <4>4
    <3>2. CASE n + 1 \notin S
      <4>1. S \in SUBSET D /\ S \ {LastOf(S)} \in SUBSET D
        BY <2>3, <3>2
      <4>2. new[S] = it[S] /\ new[S \ {LastOf(S)}] = it[S \ {LastOf(S)}]
        BY <2>5, <4>1
      <4>3. it[S] = After(m, A, s, it, S)
        BY <2>1, <4>1
      <4> HIDE DEF new
      <4> QED
        BY <4>2, <4>3 DEF After
    <3> QED
      BY <3>1, <3>2
  <2>7. Iterated(n + 1, new)
    BY <2>6
  <2> QED
    <3> HIDE DEF new, Iterated
    <3> QED
      BY <2>2, <2>7
<1>3. T = Nat
  <2> HIDE DEF T
  <2> QED
    BY <1>1, <1>2, NatInd, T \subseteq Nat DEF T
<1>4. \E it : Iterated(k, it)
  BY <1>3
<1> QED
  BY <1>4

(* The accumulator after each item. *)
LEMMA SelectUnrolled ==
  ASSUME NEW m, NEW A, NEW X, NEW s \in Seq(X)
  PROVE  \E acc : /\ acc[0] = NoView
                  /\ \A k \in 0..(Len(s) - 1) : acc[k + 1] = SelectItem(m, A, acc[k], s[k + 1])
                  /\ Select(m, A, s) = acc[Len(s)]
<1> DEFINE n == Len(s)
           it == CHOOSE jt : IsIteration(m, A, s, n, jt)
           acc == [k \in 0..n |-> it[1..k]]
<1>1. n \in Nat /\ DOMAIN s = 1..n
  OBVIOUS
<1>2. IsIteration(m, A, s, n, it)
  BY <1>1, IterationExists, Zenon
<1>3. Select(m, A, s) = it[1..n]
  BY <1>1, SelectIsIterated DEF IsIteration
<1> HIDE DEF it, n
<1>4. \A S \in SUBSET (1..n) : it[S] = After(m, A, s, it, S)
  BY <1>2 DEF IsIteration
<1>5. acc[0] = NoView
  <2>1. 1..0 = {} /\ {} \in SUBSET (1..n) /\ 0 \in 0..n
    BY <1>1
  <2> QED
    BY <1>4, <2>1 DEF After
<1>6. ASSUME NEW k \in 0..(n - 1) PROVE acc[k + 1] = SelectItem(m, A, acc[k], s[k + 1])
  <2> DEFINE S == 1..(k + 1)
  <2>1. k \in Nat /\ k + 1 \in S /\ k \in 0..n /\ k + 1 \in 0..n
    BY <1>1
  <2>2. S \ {k + 1} = 1..k
    BY <2>1
  <2>3. S \in SUBSET (1..n)
    BY <1>1, <2>1
  <2>4. LastOf(S) = k + 1
    BY <2>1, LastOfPrefix
  <2>5. it[S] = After(m, A, s, it, S)
    BY <1>4, <2>3
  <2>6. it[S] = SelectItem(m, A, it[1..k], s[k + 1])
    <3> HIDE DEF S
    <3> QED
      BY <2>1, <2>2, <2>4, <2>5 DEF After
  <2> QED
    BY <2>1, <2>6
<1>7. acc[n] = it[1..n]
  BY <1>1
<1> HIDE DEF acc
<1> QED
  BY <1>3, <1>5, <1>6, <1>7 DEF n

-----------------------------------------------------------------------------
(* What the loop picks. *)

LEMMA PicksRange ==
  ASSUME NEW list, NEW I, NEW out, Picks(out, list, I)
  PROVE  Range(out) = {list[i] : i \in I}
<1>1. PICK at \in [DOMAIN out -> DOMAIN list] :
         Range(at) = I /\ \A i \in DOMAIN out : out[i] = list[at[i]]
  BY DEF Picks
<1>2. I = {at[i] : i \in DOMAIN out} /\ Range(out) = {out[i] : i \in DOMAIN out}
  BY <1>1 DEF Range
<1> QED
  BY <1>1, <1>2

LEMMA PicksNone ==
  ASSUME NEW list
  PROVE  Picks(<<>>, list, {})
<1> DEFINE at == [i \in {} |-> i]
<1>1. DOMAIN <<>> = {} /\ at \in [{} -> DOMAIN list] /\ Range(at) = {}
  BY DEF Range
<1> HIDE DEF at
<1> QED
  BY <1>1 DEF Picks

(* Appending the item at a later position picks that one as well. *)
LEMMA PicksOneMore ==
  ASSUME NEW X, NEW list \in Seq(X), NEW k \in Nat, k + 1 \in DOMAIN list,
         NEW out \in Seq(X), NEW I \in SUBSET (1..k), Picks(out, list, I)
  PROVE  Picks(Append(out, list[k + 1]), list, I \cup {k + 1})
<1> DEFINE n == Len(out)
           more == Append(out, list[k + 1])
<1>1. n \in Nat /\ DOMAIN out = 1..n /\ list[k + 1] \in X
  OBVIOUS
<1>2. DOMAIN more = 1..(n + 1) /\ more[n + 1] = list[k + 1] /\ \A i \in 1..n : more[i] = out[i]
  BY <1>1
<1>3. PICK at \in [1..n -> DOMAIN list] :
         /\ \A i, j \in 1..n : i < j => at[i] < at[j]
         /\ Range(at) = I
         /\ \A i \in 1..n : out[i] = list[at[i]]
  BY <1>1 DEF Picks
<1> DEFINE new == [i \in 1..(n + 1) |-> IF i = n + 1 THEN k + 1 ELSE at[i]]
<1> HIDE DEF n, more
<1>4. \A i \in 1..n : at[i] \in 1..k
  BY <1>3 DEF Range
<1>5. new \in [1..(n + 1) -> DOMAIN list]
  BY <1>1, <1>3
<1>6. new[n + 1] = k + 1 /\ \A i \in 1..n : new[i] = at[i]
  BY <1>1
<1>7. Range(new) = I \cup {k + 1}
  <2>1. Range(new) = {new[i] : i \in 1..(n + 1)} /\ I = {at[i] : i \in 1..n}
    BY <1>3 DEF Range
  <2>2. 1..(n + 1) = (1..n) \cup {n + 1}
    BY <1>1
  <2> HIDE DEF new
  <2> QED
    BY <1>6, <2>1, <2>2
<1> HIDE DEF new
<1>8. \A i, j \in 1..(n + 1) : i < j => new[i] < new[j]
  <2> SUFFICES ASSUME NEW i \in 1..(n + 1), NEW j \in 1..(n + 1), i < j
               PROVE  new[i] < new[j]
    OBVIOUS
  <2>1. i \in 1..n
    BY <1>1
  <2>2. CASE j = n + 1
    BY <1>4, <1>6, <2>1, <2>2
  <2>3. CASE j \in 1..n
    BY <1>3, <1>6, <2>1, <2>3
  <2> QED
    BY <1>1, <2>2, <2>3
<1>9. \A i \in 1..(n + 1) : more[i] = list[new[i]]
  BY <1>1, <1>2, <1>3, <1>6
<1> QED
  BY <1>2, <1>5, <1>7, <1>8, <1>9 DEF Picks, more

LEMMA PicksInPrefix ==
  ASSUME NEW X, NEW list \in Seq(X), NEW k \in Nat, k + 1 \in DOMAIN list,
         NEW out \in Seq(X), NEW I, Picks(out, list, I \cap (1..k))
  PROVE  Picks(IF k + 1 \in I THEN Append(out, list[k + 1]) ELSE out, list, I \cap (1..(k + 1)))
<1>1. I \cap (1..k) \in SUBSET (1..k) /\ 1..(k + 1) = (1..k) \cup {k + 1}
  OBVIOUS
<1>2. I \cap (1..(k + 1)) = IF k + 1 \in I THEN (I \cap (1..k)) \cup {k + 1} ELSE I \cap (1..k)
  BY <1>1
<1>3. CASE k + 1 \in I
  <2>1. Picks(Append(out, list[k + 1]), list, (I \cap (1..k)) \cup {k + 1})
    BY <1>1, PicksOneMore, Zenon
  <2> QED
    BY <1>2, <1>3, <2>1
<1>4. CASE k + 1 \notin I
  BY <1>2, <1>4
<1> QED
  BY <1>3, <1>4

(* Outside a pipeline a name has been emitted iff it stood at an earlier
   position: the first of those was offered. *)
LEMMA OfferedOnce ==
  ASSUME NEW m, m # "pipeline", NEW A, NEW X, NEW list \in Seq(X), NEW k \in Nat,
         k + 1 \in DOMAIN list, list[k + 1] \in A \ {NotString}
  PROVE  (\E i \in Offered(m, A, list) \cap (1..k) : list[i] = list[k + 1])
           <=> k + 1 \notin Offered(m, A, list)
<1>1. DOMAIN list = 1..Len(list) /\ Len(list) \in Nat
  OBVIOUS
<1>2. k + 1 \notin Offered(m, A, list) <=> \E j \in 1..k : list[j] = list[k + 1]
  <2>1. (k + 1) - 1 = k
    OBVIOUS
  <2> QED
    BY <2>1 DEF Offered
<1>3. ASSUME NEW j \in 1..k, list[j] = list[k + 1]
      PROVE  \E i \in Offered(m, A, list) \cap (1..k) : list[i] = list[k + 1]
  <2> DEFINE T == {i \in 1..k : list[i] = list[k + 1]}
  <2>1. PICK i \in T : \A h \in T : ~(h < i)
    <3>1. T \in SUBSET Nat /\ T # {}
      BY <1>3
    <3> HIDE DEF T
    <3> QED
      BY <3>1, NatMin
  <2>2. i \in 1..k /\ list[i] = list[k + 1] /\ i \in DOMAIN list
    BY <1>1, <2>1
  <2>3. \A h \in 1..(i - 1) : list[h] # list[i]
    BY <2>1, <2>2
  <2> QED
    BY <2>2, <2>3 DEF Offered
<1> QED
  BY <1>2, <1>3

(* Select picks, in order, what is offered and what is unknown. *)
LEMMA SelectSelects ==
  ASSUME NEW m, NEW A, NEW X, NEW s \in Seq(X)
  PROVE  /\ Picks(Select(m, A, s).effective, s, Offered(m, A, s))
         /\ Picks(Select(m, A, s).stale, s, Unknown(A, s))
<1> DEFINE n == Len(s)
           O == Offered(m, A, s)
           U == Unknown(A, s)
           Good(e, t, k) == Picks(e, s, O \cap (1..k)) /\ Picks(t, s, U \cap (1..k))
<1>1. n \in Nat /\ DOMAIN s = 1..n /\ O \subseteq 1..n /\ U \subseteq 1..n
  BY DEF Offered, Unknown
<1>2. PICK acc : /\ acc[0] = NoView
                 /\ \A k \in 0..(n - 1) : acc[k + 1] = SelectItem(m, A, acc[k], s[k + 1])
                 /\ Select(m, A, s) = acc[n]
  BY SelectUnrolled
<1> HIDE DEF n
<1> DEFINE Chosen(k) == \E e, t \in Seq(X) :
                            acc[k] = [effective |-> e, stale |-> t] /\ Good(e, t, k)
           T == {k \in Nat : k <= n => Chosen(k)}
<1>3. Chosen(0)
  <2>1. Good(<<>>, <<>>, 0)
    <3>1. O \cap (1..0) = {} /\ U \cap (1..0) = {}
      OBVIOUS
    <3> QED
      BY <3>1, PicksNone
  <2>2. <<>> \in Seq(X) /\ acc[0] = [effective |-> <<>>, stale |-> <<>>]
    BY <1>2 DEF NoView
  <2> HIDE DEF Good
  <2> QED
    BY <2>1, <2>2
<1>4. ASSUME NEW k \in Nat, k + 1 <= n, Chosen(k) PROVE Chosen(k + 1)
  <2>1. PICK e \in Seq(X), t \in Seq(X) :
          acc[k] = [effective |-> e, stale |-> t] /\ Good(e, t, k)
    BY <1>4
  <2> DEFINE item == s[k + 1]
  <2>2. k + 1 \in DOMAIN s /\ k \in 0..(n - 1) /\ item \in X
    BY <1>1, <1>4
  <2>3. acc[k + 1] = SelectItem(m, A, [effective |-> e, stale |-> t], item)
    BY <1>2, <2>1, <2>2
  <2>4. k + 1 \in U <=> item \notin A \cup {NotString}
    BY <2>2 DEF Unknown
  <2>5. k + 1 \in O => item \in A \ {NotString}
    BY <2>2 DEF Offered
  <2>6. Append(e, item) \in Seq(X) /\ Append(t, item) \in Seq(X)
    BY <2>2
  <2>7. /\ k + 1 \in O => Picks(Append(e, item), s, O \cap (1..(k + 1)))
        /\ k + 1 \notin O => Picks(e, s, O \cap (1..(k + 1)))
        /\ k + 1 \in U => Picks(Append(t, item), s, U \cap (1..(k + 1)))
        /\ k + 1 \notin U => Picks(t, s, U \cap (1..(k + 1)))
    <3> HIDE DEF O, U
    <3>1. /\ Picks(IF k + 1 \in O THEN Append(e, item) ELSE e, s, O \cap (1..(k + 1)))
          /\ Picks(IF k + 1 \in U THEN Append(t, item) ELSE t, s, U \cap (1..(k + 1)))
      BY <2>1, <2>2, PicksInPrefix
    <3> QED
      BY <3>1
  <2> HIDE DEF O, U
  <2>8. CASE item = NotString
    <3>1. acc[k + 1] = [effective |-> e, stale |-> t]
      BY <2>3, <2>8 DEF SelectItem
    <3> QED
      BY <2>4, <2>5, <2>7, <2>8, <3>1
  <2>9. CASE item # NotString /\ item \notin A
    <3>1. acc[k + 1] = [effective |-> e, stale |-> Append(t, item)]
      BY <2>3, <2>9 DEF SelectItem
    <3> QED
      BY <2>4, <2>5, <2>6, <2>7, <2>9, <3>1
  <2>10. CASE item # NotString /\ item \in A
    <3>1. k + 1 \in O <=> m = "pipeline" \/ item \notin Range(e)
      <4>1. CASE m = "pipeline"
        BY <2>2, <2>10, <4>1 DEF O, Offered
      <4>2. CASE m # "pipeline"
        <5>1. Range(e) = {s[i] : i \in O \cap (1..k)}
          BY <2>1, PicksRange, Zenon
        <5>2. item \in Range(e) <=> \E i \in O \cap (1..k) : s[i] = item
          BY <5>1
        <5> QED
          BY <2>2, <2>10, <4>2, <5>2, OfferedOnce DEF O
      <4> QED
        BY <4>1, <4>2
    <3>2. acc[k + 1] = IF k + 1 \in O THEN [effective |-> Append(e, item), stale |-> t]
                       ELSE [effective |-> e, stale |-> t]
      BY <2>3, <2>10, <3>1 DEF SelectItem
    <3> QED
      BY <2>4, <2>6, <2>7, <2>10, <3>2
  <2> QED
    BY <2>8, <2>9, <2>10
<1>5. Chosen(n)
  <2>1. 0 \in T /\ T \in SUBSET Nat
    BY <1>3
  <2>2. ASSUME NEW k \in T PROVE k + 1 \in T
    <3>1. k \in Nat /\ (k + 1 <= n => k <= n)
      BY <1>1
    <3> HIDE DEF Chosen
    <3> QED
      BY <1>4, <3>1
  <2> HIDE DEF T
  <2>3. T = Nat
    BY <2>1, <2>2, NatInd
  <2> HIDE DEF Chosen
  <2> QED
    BY <1>1, <2>3 DEF T
<1>6. O \cap (1..n) = O /\ U \cap (1..n) = U
  BY <1>1
<1>7. PICK e \in Seq(X), t \in Seq(X) : acc[n] = [effective |-> e, stale |-> t] /\ Good(e, t, n)
  BY <1>5
<1>8. Picks(e, s, O) /\ Picks(t, s, U)
  BY <1>6, <1>7
<1>9. Select(m, A, s).effective = e /\ Select(m, A, s).stale = t
  BY <1>2, <1>7
<1> QED
  BY <1>8, <1>9

-----------------------------------------------------------------------------
(* What a reader answers. *)

(* From the moment the list is read, the view is what Select makes of it and
   of the names read before; nothing that is read later touches it. *)
Selected(r) ==
  IF configured[r] = NoList THEN view[r] = [effective |-> allNames[r], stale |-> <<>>]
  ELSE /\ configured[r] \in ModeVals
       /\ view[r] = Select(mode[r], Range(allNames[r]), configured[r])

SelectInv ==
  /\ ViewInv
  /\ view = [r \in Readers |-> view[r]]
  /\ \A r \in Readers : rpc[r] \in {"options", "reply"} => Selected(r)

LEMMA ReadSelects ==
  ASSUME SelectInv, NEW r \in Readers, ReadAgents(r)
  PROVE  Selected(r)' /\ view' = [u \in Readers |-> view'[u]]
<1> DEFINE list == IF live[r] THEN modesConfig[mode[r]]["agents"] ELSE Unset
<1>1. rpc[r] = "agents" /\ mode' = mode /\ allNames' = allNames
  BY DEF ReadAgents, ReadAt
<1>2. /\ configured'[r] = IF Explicit(list) THEN list ELSE NoList
      /\ view'[r] = BuildView(mode[r], allNames[r], list)
      /\ view' = [u \in Readers |-> view'[u]]
  BY DEF ReadAgents, SelectInv, ViewInv, ReaderTypes
<1>3. list \in ModeVals \cup {Unset}
  BY <1>1 DEF SelectInv, ViewInv, ReaderInv, ReaderTypes, ModeObjects, ModeKeys, ReadAt, ReadAgents
<1> HIDE DEF list
<1>4. CASE Explicit(list)
  BY <1>1, <1>2, <1>3, <1>4, ViewAssumption DEF Selected, BuildView, Explicit
<1>5. CASE ~Explicit(list)
  BY <1>1, <1>2, <1>5 DEF Selected, BuildView, NoView
<1> QED
  BY <1>2, <1>4, <1>5

LEMMA SelectKept == SelectInv /\ [VNext]_vvars => SelectInv'
<1> SUFFICES ASSUME SelectInv, [VNext]_vvars PROVE SelectInv'
  OBVIOUS
<1>1. ViewInv'
  BY ViewKept DEF SelectInv
<1>2. CASE UNCHANGED vvars
  BY <1>1, <1>2 DEF vvars, reading, SelectInv, Selected
<1>3. CASE StoreStep
  <2>1. CASE ReadersLost
    BY <1>1, <2>1 DEF ReadersLost, AllReaders, SelectInv
  <2>2. CASE UNCHANGED <<rpc, mode, allNames, configured, view>>
    BY <1>1, <2>2 DEF SelectInv, Selected
  <2> QED
    BY <1>3, <2>1, <2>2 DEF StoreStep
<1>4. CASE ReaderStep
  <2>1. PICK r \in Readers : GetMode(r) \/ Read(r)
    BY <1>4 DEF ReaderStep
  <2>2. ASSUME NEW u \in Readers, u # r
        PROVE  /\ rpc'[u] = rpc[u] /\ mode'[u] = mode[u] /\ allNames'[u] = allNames[u]
               /\ configured'[u] = configured[u] /\ view'[u] = view[u]
    BY <2>1, <2>2 DEF SelectInv, ViewInv, ReaderTypes, Read, GetMode, AgentNames, ModeConfig,
                      ReadAgents, ReadOption, SendView, Forget, StepTo
  <2>3. /\ view' = [u \in Readers |-> view'[u]]
        /\ rpc'[r] \in {"options", "reply"} => Selected(r)'
    <3>1. CASE ReadAgents(r)
      BY <3>1, ReadSelects
    <3>2. CASE ReadOption(r) \/ SendView(r)
      <4>1. rpc[r] = "options" /\ UNCHANGED <<mode, allNames, configured, view>>
        BY <3>2 DEF ReadOption, SendView, ReadAt
      <4> QED
        BY <4>1 DEF SelectInv, Selected
    <3>3. CASE GetMode(r) \/ AgentNames(r) \/ ModeConfig(r)
      BY <3>3 DEF GetMode, AgentNames, ModeConfig, StepTo, SelectInv, ViewInv, ReaderTypes
    <3>4. CASE Forget(r)
      BY <3>4 DEF Forget, StepTo, SelectInv, ViewInv, ReaderTypes
    <3> QED
      BY <2>1, <3>1, <3>2, <3>3, <3>4 DEF Read
  <2>4. \A u \in Readers : rpc'[u] \in {"options", "reply"} => Selected(u)'
    BY <2>2, <2>3 DEF SelectInv, Selected
  <2> QED
    BY <1>1, <2>3, <2>4 DEF SelectInv
<1> QED
  BY <1>2, <1>3, <1>4 DEF VNext

(* What every answer owes its client, for any lists and however the reads race
   with the handlers: of the configured names those that the same answer lists
   as available, in order, each once but in a pipeline, and as stale the rest. *)
THEOREM AnswersSelect == VSpec => []AnswerSelects
<1>1. VInit => SelectInv
  <2> SUFFICES ASSUME VInit PROVE SelectInv
    OBVIOUS
  <2> QED
    BY ViewStarts DEF VInit, ReadersStart, AllReaders, SelectInv
<1>2. SelectInv => AnswerSelects
  <2> SUFFICES ASSUME SelectInv, NEW r \in Readers, rpc[r] = "reply", configured[r] # NoList
               PROVE  LET all == Range(allNames[r])
                          list == configured[r]
                      IN /\ Picks(view[r].effective, list, Offered(mode[r], all, list))
                         /\ Picks(view[r].stale, list, Unknown(all, list))
    BY DEF AnswerSelects, SelectInv, Selected
  <2>1. /\ configured[r] \in Seq(Names \cup {NotString})
        /\ view[r] = Select(mode[r], Range(allNames[r]), configured[r])
    BY ViewAssumption DEF SelectInv, Selected
  <2> QED
    BY <2>1, SelectSelects
<1> QED
  BY <1>1, <1>2, SelectKept, PTL DEF VSpec

=============================================================================
