------------------------------ MODULE ModeView ------------------------------
(***************************************************************************)
(* GET /api/modes/{mode}/agents and the tail of PUT: BuildAgentsResponse,  *)
(* run by readers beside the handlers of Store.  A reader locks the store  *)
(* once for the names and once for the mode's configuration; what it gets  *)
(* then is the live inner map, from which it reads each key without a      *)
(* lock while PutModeAgents may be writing it.                             *)
(*                                                                         *)
(* The values of a mode's configuration are JSON arrays here: sequences of *)
(* agent names and of items that are not strings.                          *)
(***************************************************************************)
EXTENDS Store, SequencesExt

CONSTANTS
  Readers,    \* concurrent reads of a mode's roster
  NameOrder,  \* Names in the order sort.Slice gives them
  NotString,  \* an array item that is not a string
  NoList      \* JSON null where the reader found no explicit list

ASSUME ViewAssumption ==
  /\ NameOrder \in Seq(Names)
  /\ Range(NameOrder) = Names
  /\ IsInjective(NameOrder)
  /\ NotString \notin Names
  /\ ModeVals \subseteq Seq(Names \cup {NotString})
  /\ NoList \notin ModeVals

VARIABLES
  rpc, mode,      \* per reader: step, the mode asked for
  allNames, live, \* the names read; whether cfg is a map that can be read
  configured, options, unseen, \* cfg["agents"], the copied keys, those still to copy
  view,           \* effective and stale agents
  names0, lists0  \* history: rosters and lists that were current since the call

reading == <<rpc, mode, allNames, live, configured, options, unseen, view, names0, lists0>>
vvars == <<vars, reading>>

ReadSteps == {"idle", "names", "config", "agents", "options", "reply"}

(* The keys BuildAgentsResponse copies, in its order, that PutModeAgents can
   change; the policy keys between them are never written. *)
OptionKeys == <<"max_select", "synthesizer", "order">>
NoOptions == [k \in Range(OptionKeys) |-> Unset]
NoView == [effective |-> <<>>, stale |-> <<>>]

SortedNames(r) == SelectSeq(NameOrder, LAMBDA n : r[n] # NoAgent)
ListOf(config) == IF config \in ModeObjects THEN config["agents"] ELSE Unset

-----------------------------------------------------------------------------
(* Defects that the runs have to notice. *)

SelectRepeating(m, active, acc, item) ==
  IF item = NotString THEN acc
  ELSE IF item \in active
       THEN [acc EXCEPT !.effective = Append(@, item)]
       ELSE [acc EXCEPT !.stale = Append(@, item)]

(* Asserting []string, which decoded JSON never is. *)
ExplicitNever(list) == FALSE

-----------------------------------------------------------------------------

(* cfg["agents"] counts when it is an array with at least one item. *)
Explicit(list) == list # Unset /\ list # <<>>

(* The loop over the configured items: a name is emitted once, except in a
   pipeline, where an agent may have several stages. *)
SelectItem(m, active, acc, item) ==
  IF item = NotString THEN acc
  ELSE IF item \in active
       THEN IF m = "pipeline" \/ item \notin Range(acc.effective)
            THEN [acc EXCEPT !.effective = Append(@, item)]
            ELSE acc
       ELSE [acc EXCEPT !.stale = Append(@, item)]

Select(m, active, items) ==
  FoldLeft(LAMBDA acc, item : SelectItem(m, active, acc, item), NoView, items)

BuildView(m, all, list) ==
  IF Explicit(list) THEN Select(m, Range(all), list) ELSE [NoView EXCEPT !.effective = all]

-----------------------------------------------------------------------------
(* Readers. *)

ReadAt(r, step) == up /\ rpc[r] = step

StepTo(r, step) == rpc' = [rpc EXCEPT ![r] = step]

(* What is current before or after a step counts as current during it. *)
Witness ==
  /\ names0' = [r \in Readers |->
       IF rpc'[r] = "idle" THEN {}
       ELSE names0[r] \cup {SortedNames(agents), SortedNames(agents')}]
  /\ lists0' = [r \in Readers |->
       IF rpc'[r] = "idle" THEN {}
       ELSE lists0[r] \cup {ListOf(modesConfig[mode'[r]]), ListOf(modesConfig'[mode'[r]])}]

GetMode(r) ==
  /\ ReadAt(r, "idle")
  /\ \E m \in KnownModes : mode' = [mode EXCEPT ![r] = m]
  /\ StepTo(r, "names")
  /\ UNCHANGED <<allNames, live, configured, options, unseen, view>>

AgentNames(r) ==
  /\ ReadAt(r, "names")
  /\ mu = "free"
  /\ allNames' = [allNames EXCEPT ![r] = SortedNames(agents)]
  /\ StepTo(r, "config")
  /\ UNCHANGED <<mode, live, configured, options, unseen, view>>

(* A nil map reads as an empty one, but nothing is copied from it. *)
ModeConfig(r) ==
  /\ ReadAt(r, "config")
  /\ mu = "free"
  /\ live' = [live EXCEPT ![r] = modesConfig[mode[r]] \in ModeObjects]
  /\ StepTo(r, "agents")
  /\ UNCHANGED <<mode, allNames, configured, options, unseen, view>>

ReadAgents(r) ==
  /\ ReadAt(r, "agents")
  /\ LET list == IF live[r] THEN modesConfig[mode[r]]["agents"] ELSE Unset IN
       /\ configured' = [configured EXCEPT ![r] = IF Explicit(list) THEN list ELSE NoList]
       /\ view' = [view EXCEPT ![r] = BuildView(mode[r], allNames[r], list)]
  /\ unseen' = [unseen EXCEPT ![r] = IF live[r] THEN OptionKeys ELSE <<>>]
  /\ StepTo(r, "options")
  /\ UNCHANGED <<mode, allNames, live, options>>

ReadOption(r) ==
  /\ ReadAt(r, "options")
  /\ unseen[r] # <<>>
  /\ LET k == Head(unseen[r]) IN
       options' = [options EXCEPT ![r][k] = modesConfig[mode[r]][k]]
  /\ unseen' = [unseen EXCEPT ![r] = Tail(@)]
  /\ UNCHANGED <<rpc, mode, allNames, live, configured, view>>

SendView(r) ==
  /\ ReadAt(r, "options")
  /\ unseen[r] = <<>>
  /\ StepTo(r, "reply")
  /\ UNCHANGED <<mode, allNames, live, configured, options, unseen, view>>

Forget(r) ==
  /\ ReadAt(r, "reply")
  /\ StepTo(r, "idle")
  /\ mode' = [mode EXCEPT ![r] = "flat"]
  /\ allNames' = [allNames EXCEPT ![r] = <<>>]
  /\ live' = [live EXCEPT ![r] = FALSE]
  /\ configured' = [configured EXCEPT ![r] = NoList]
  /\ options' = [options EXCEPT ![r] = NoOptions]
  /\ view' = [view EXCEPT ![r] = NoView]
  /\ UNCHANGED unseen

(* The runtime kills the process when a read of a map meets a write to it. *)
ReadFatal ==
  /\ up
  /\ \E g \in Handlers, r \in Readers :
       /\ pc[g] = "begin" /\ mu = "free" /\ req[g].op = "putmode"
       /\ req[g].mode = mode[r] /\ Touched(req[g].body) # {}
       /\ live[r] /\ rpc[r] \in {"agents", "options"}
  /\ Die

-----------------------------------------------------------------------------

AllReaders(v) == [r \in Readers |-> v]

ReadersStart ==
  /\ rpc = AllReaders("idle") /\ mode = AllReaders("flat")
  /\ allNames = AllReaders(<<>>) /\ live = AllReaders(FALSE)
  /\ configured = AllReaders(NoList) /\ options = AllReaders(NoOptions)
  /\ unseen = AllReaders(<<>>) /\ view = AllReaders(NoView)

ReadersLost ==
  /\ rpc' = AllReaders("idle") /\ mode' = AllReaders("flat")
  /\ allNames' = AllReaders(<<>>) /\ live' = AllReaders(FALSE)
  /\ configured' = AllReaders(NoList) /\ options' = AllReaders(NoOptions)
  /\ unseen' = AllReaders(<<>>) /\ view' = AllReaders(NoView)

VInit == Init /\ ReadersStart /\ names0 = AllReaders({}) /\ lists0 = AllReaders({})

Read(r) ==
  \/ AgentNames(r) \/ ModeConfig(r) \/ ReadAgents(r) \/ ReadOption(r)
  \/ SendView(r) \/ Forget(r)

ReaderStep == \E r \in Readers : (GetMode(r) \/ Read(r)) /\ UNCHANGED vars

StoreStep ==
  /\ Next \/ ReadFatal
  /\ IF up /\ ~up' THEN ReadersLost
     ELSE UNCHANGED <<rpc, mode, allNames, live, configured, options, unseen, view>>

VNext == (ReaderStep \/ StoreStep) /\ Witness

VSpec == VInit /\ [][VNext]_vvars

(* Readers and handlers are goroutines alike: one that can run is scheduled. *)
VFairSpec ==
  /\ VSpec
  /\ \A h \in Handlers : WF_vars(Serve(h))
  /\ \A r \in Readers : WF_vvars(Read(r) /\ UNCHANGED vars /\ Witness)

-----------------------------------------------------------------------------
(* Properties. *)

(* out is the items of list at the positions I, in their order. *)
Picks(out, list, I) ==
  \E at \in [DOMAIN out -> DOMAIN list] :
    /\ \A i, j \in DOMAIN out : i < j => at[i] < at[j]
    /\ Range(at) = I
    /\ \A i \in DOMAIN out : out[i] = list[at[i]]

Offered(m, all, list) ==
  {i \in DOMAIN list : /\ list[i] \in all \ {NotString}
                       /\ m = "pipeline" \/ \A j \in 1..(i - 1) : list[j] # list[i]}

Unknown(all, list) == {i \in DOMAIN list : list[i] \notin all \cup {NotString}}

(* What the answer owes its client whatever raced with the read: the agents
   to use are the configured ones that the same answer lists as available,
   in the configured order, each once unless the mode is a pipeline; the
   stale ones are exactly the other names. *)
AnswerSelects ==
  \A r \in Readers : rpc[r] = "reply" =>
    LET all == Range(allNames[r])
        list == configured[r]
    IN IF list = NoList THEN view[r] = [effective |-> allNames[r], stale |-> <<>>]
       ELSE /\ Picks(view[r].effective, list, Offered(mode[r], all, list))
            /\ Picks(view[r].stale, list, Unknown(all, list))

(* Although roster and list are read at different moments, each was current
   at some moment between the call and the answer, and an answer without a
   list was given because none was configured then. *)
AnswerIsRegular ==
  \A r \in Readers : rpc[r] = "reply" =>
    /\ allNames[r] \in names0[r]
    /\ IF configured[r] = NoList THEN lists0[r] \cap {Unset, <<>>} # {}
       ELSE configured[r] \in lists0[r]

(* Every read of a mode's roster is answered, however often the roster and
   the mode are changed meanwhile. *)
ReadsAnswered == \A r \in Readers : rpc[r] # "idle" ~> rpc[r] = "idle"

=============================================================================
