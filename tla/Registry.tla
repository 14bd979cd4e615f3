------------------------------ MODULE Registry ------------------------------
(***************************************************************************)
(* What the registry promises its clients about agents: a map from names   *)
(* to agents on which every request takes effect at one instant between    *)
(* the call and the reply, the reply telling what was found there.         *)
(* Storing the map may fail, which only changes the reply.  What a restart *)
(* brings back is the business of the storage properties, not of this one. *)
(***************************************************************************)
EXTENDS Roster

CONSTANTS Handlers, Calls, NoCall

VARIABLES
  on,     \* the service answers
  reg,    \* the map
  call,   \* per handler: the request in progress,
  stage,  \* "idle", "called", "effected" or "replied",
  res     \* and the status it has been given

vars == <<on, reg, call, stage, res>>

Init ==
  /\ on = FALSE
  /\ reg = EmptyRoster
  /\ call = [h \in Handlers |-> NoCall]
  /\ stage = [h \in Handlers |-> "idle"]
  /\ res = [h \in Handlers |-> 0]

Called(h, op) == on /\ stage[h] = "called" /\ call[h].op = op

Moves(h, from, to, code) ==
  /\ on
  /\ stage[h] \in from
  /\ stage' = [stage EXCEPT ![h] = to]
  /\ res' = [res EXCEPT ![h] = code]

Effect(h, n, entry, code) ==
  /\ Moves(h, {"called"}, "effected", code)
  /\ reg' = [reg EXCEPT ![n] = entry]
  /\ UNCHANGED <<on, call>>

Reply(h, code) ==
  /\ Moves(h, {"called"}, "replied", code)
  /\ UNCHANGED <<on, reg, call>>

Known(h) == reg[call[h].name] # NoAgent

Call(h) ==
  /\ Moves(h, {"idle"}, "called", 0)
  /\ \E c \in Calls : call' = [call EXCEPT ![h] = c]
  /\ UNCHANGED <<on, reg>>

Register(h) ==
  /\ Called(h, "post")
  /\ LET n == call[h].name
         a == call[h].agent IN
     IF ValidateAgent(n, a) THEN Effect(h, n, a, IF Known(h) THEN 200 ELSE 201)
     ELSE Reply(h, 400)

Withdraw(h) ==
  /\ Called(h, "delete")
  /\ IF Known(h) THEN Effect(h, call[h].name, NoAgent, 200) ELSE Reply(h, 404)

Amend(h) ==
  /\ Called(h, "prompt")
  /\ LET n == call[h].name
         p == call[h].prompt IN
     IF p = EmptyPrompt THEN Reply(h, 400)
     ELSE IF Known(h) THEN Effect(h, n, [reg[n] EXCEPT !.prompt = p], 200)
     ELSE Reply(h, 404)

Look(h) == Called(h, "get") /\ Reply(h, IF Known(h) THEN 200 ELSE 404)

(* The effect is stored, or storing it failed: of the three requests only a
   prompt edit hides that from its client. *)
Store(h) ==
  /\ stage[h] = "effected"
  /\ \E code \in {res[h], CASE call[h].op = "post" -> 400
                            [] call[h].op = "delete" -> 500
                            [] OTHER -> res[h]} :
       Moves(h, {"effected"}, "replied", code)
  /\ UNCHANGED <<on, reg, call>>

(* The reply is delivered, or the connection is dropped without one. *)
Finish(h) ==
  /\ Moves(h, {"effected", "replied"}, "idle", 0)
  /\ call' = [call EXCEPT ![h] = NoCall]
  /\ UNCHANGED <<on, reg>>

Halt ==
  /\ on' = FALSE
  /\ reg' = EmptyRoster
  /\ call' = [h \in Handlers |-> NoCall]
  /\ stage' = [h \in Handlers |-> "idle"]
  /\ res' = [h \in Handlers |-> 0]

Resume ==
  /\ ~on /\ on'
  /\ reg' \in Rosters
  /\ UNCHANGED <<call, stage, res>>

Next ==
  \/ \E h \in Handlers : \/ Call(h) \/ Register(h) \/ Withdraw(h) \/ Amend(h) \/ Look(h)
                         \/ Store(h) \/ Finish(h)
  \/ Halt \/ Resume

Spec == Init /\ [][Next]_vars

=============================================================================
