------------------------------ MODULE Presence ------------------------------
(***************************************************************************)
(* The process around the store when COFISWARM_BRIDGE_URL is set: it       *)
(* announces itself and its agents on the presence bus at boot and after   *)
(* every hello of the bus, and says goodbye for them on SIGINT or SIGTERM  *)
(* before it drains the HTTP server.  Main, the hello watcher and the HTTP *)
(* handlers run concurrently; the store is its roster and its lock.        *)
(*                                                                         *)
(* The bus and the SDK are external.  From their use in main.go: publishing*)
(* is synchronous and takes no context, one message per member; WatchHello *)
(* calls back once per hello until its context is cancelled.               *)
(***************************************************************************)
EXTENDS Naturals, FiniteSets

CONSTANTS
  Names,      \* agent names
  Self,       \* the component id of the registry itself
  Clients,    \* concurrent HTTP requests
  MaxHellos,  \* bound: hellos of the bus in a behaviour
  MaxWrites,  \* bound: changes of the roster by requests
  Leaks       \* whether a panic in PutModeAgents may leave the store locked

ASSUME PresenceAssumption ==
  /\ Self \notin Names
  /\ MaxHellos \in Nat /\ MaxWrites \in Nat
  /\ Leaks \in BOOLEAN

VARIABLES
  roster,         \* the names store.Agents() returns
  leaked,         \* s.mu is held for ever
  main, watcher,  \* where the two goroutines are
  todo, wtodo,    \* the members each has still to publish
  cancelled,      \* stopWatch has run
  hello,          \* a hello of the bus awaits the watcher
  busy,           \* requests being served
  online,         \* what the bus believes present
  quiet, told,    \* history: no announcement was under way when stopWatch ran;
                  \* the names told goodbye
  hellos, writes  \* counters of the bounds

pvars == <<roster, leaked, main, watcher, todo, wtodo, cancelled, hello, busy, online,
           quiet, told, hellos, writes>>

store == <<roster, leaked, busy, writes>>

TypeOK ==
  /\ roster \subseteq Names /\ todo \subseteq Names /\ wtodo \subseteq Names
  /\ told \subseteq Names /\ online \subseteq Names \cup {Self}
  /\ {leaked, cancelled, hello, quiet} \subseteq BOOLEAN
  /\ main \in {"announce", "names", "members", "serve", "stop", "goodbye", "listed",
               "goodbyes", "shutdown", "exit", "killed"}
  /\ watcher \in {"off", "wait", "announce", "names", "members"}
  /\ busy \subseteq Clients
  /\ hellos \in 0..MaxHellos /\ writes \in 0..MaxWrites

Running == main \notin {"exit", "killed"}
Serving == main \in {"serve", "stop", "goodbye", "listed", "goodbyes"}

-----------------------------------------------------------------------------
(* Defects that the runs have to notice. *)

GoodbyeMembersOnly(on) == on
MembersAndSelf(r) == r \cup {Self}
Nobody(r) == {}
NoDeadline == FALSE

-----------------------------------------------------------------------------
(* agentMembers: one bus member per agent of the roster read under s.mu. *)
agentMembers(r) == r

Offline(on) == on \ {Self}

(* Main. *)

AnnounceSelf ==
  /\ main = "announce"
  /\ online' = online \cup {Self}
  /\ main' = "names"
  /\ UNCHANGED <<store, watcher, todo, wtodo, cancelled, hello, quiet, told, hellos>>

ListToAnnounce ==
  /\ main = "names" /\ ~leaked
  /\ todo' = agentMembers(roster)
  /\ main' = "members"
  /\ UNCHANGED <<store, watcher, wtodo, cancelled, hello, online, quiet, told, hellos>>

AnnounceMember ==
  /\ main = "members"
  /\ \E n \in todo : online' = online \cup {n} /\ todo' = todo \ {n}
  /\ UNCHANGED <<store, main, watcher, wtodo, cancelled, hello, quiet, told, hellos>>

(* go WatchHello, go ListenAndServe, then wait for a signal. *)
Serve ==
  /\ main = "members" /\ todo = {}
  /\ main' = "serve"
  /\ watcher' = "wait"
  /\ UNCHANGED <<store, todo, wtodo, cancelled, hello, online, quiet, told, hellos>>

Signal ==
  /\ main = "serve"
  /\ main' = "stop"
  /\ UNCHANGED <<store, watcher, todo, wtodo, cancelled, hello, online, quiet, told, hellos>>

(* Before NotifyContext a signal has its default effect, and a listener that
   fails is fatal: the process ends with no goodbye. *)
DieEarly ==
  /\ main \in {"announce", "names", "members", "serve"}
  /\ main' = "killed"
  /\ watcher' = "off"
  /\ UNCHANGED <<store, todo, wtodo, cancelled, hello, online, quiet, told, hellos>>

(* stopWatch cancels the watcher's context and does not wait for it. *)
StopWatch ==
  /\ main = "stop"
  /\ cancelled' = TRUE
  /\ quiet' = (watcher = "wait")
  /\ main' = "goodbye"
  /\ UNCHANGED <<store, watcher, todo, wtodo, hello, online, told, hellos>>

GoodbyeSelf ==
  /\ main = "goodbye"
  /\ online' = Offline(online)
  /\ main' = "listed"
  /\ UNCHANGED <<store, watcher, todo, wtodo, cancelled, hello, quiet, told, hellos>>

ListToDismiss ==
  /\ main = "listed" /\ ~leaked
  /\ todo' = agentMembers(roster)
  /\ main' = "goodbyes"
  /\ UNCHANGED <<store, watcher, wtodo, cancelled, hello, online, quiet, told, hellos>>

GoodbyeMember ==
  /\ main = "goodbyes"
  /\ \E n \in todo :
       online' = online \ {n} /\ todo' = todo \ {n} /\ told' = told \cup {n}
  /\ UNCHANGED <<store, main, watcher, wtodo, cancelled, hello, quiet, hellos>>

Shutdown ==
  /\ main = "goodbyes" /\ todo = {}
  /\ main' = "shutdown"
  /\ UNCHANGED <<store, watcher, todo, wtodo, cancelled, hello, online, quiet, told, hellos>>

(* Shutdown returns when no request is left or when the five seconds of its
   context are over, which they always are in the end. *)
Deadline == TRUE

Exit ==
  /\ main = "shutdown"
  /\ busy = {} \/ Deadline
  /\ main' = "exit"
  /\ watcher' = "off"
  /\ UNCHANGED <<store, todo, wtodo, cancelled, hello, online, quiet, told, hellos>>

(* The watcher. *)

WatchHello ==
  /\ watcher = "wait" /\ hello /\ ~cancelled
  /\ watcher' = "announce"
  /\ hello' = FALSE
  /\ UNCHANGED <<store, main, todo, wtodo, cancelled, online, quiet, told, hellos>>

ReannounceSelf ==
  /\ watcher = "announce"
  /\ online' = online \cup {Self}
  /\ watcher' = "names"
  /\ UNCHANGED <<store, main, todo, wtodo, cancelled, hello, quiet, told, hellos>>

ListAgain ==
  /\ watcher = "names" /\ ~leaked
  /\ wtodo' = agentMembers(roster)
  /\ watcher' = "members"
  /\ UNCHANGED <<store, main, todo, cancelled, hello, online, quiet, told, hellos>>

ReannounceMember ==
  /\ watcher = "members"
  /\ \E n \in wtodo : online' = online \cup {n} /\ wtodo' = wtodo \ {n}
  /\ UNCHANGED <<store, main, watcher, todo, cancelled, hello, quiet, told, hellos>>

WatchAgain ==
  /\ watcher = "members" /\ wtodo = {}
  /\ watcher' = "wait"
  /\ UNCHANGED <<store, main, todo, wtodo, cancelled, hello, online, quiet, told, hellos>>

(* HTTP requests. *)

Arrive(c) ==
  /\ Serving
  /\ c \notin busy
  /\ busy' = busy \cup {c}
  /\ UNCHANGED <<roster, leaked, writes>>

(* A POST or DELETE of an agent; nobody announces the change. *)
Change(c) ==
  /\ Running /\ c \in busy /\ ~leaked /\ writes < MaxWrites
  /\ \E n \in Names : roster' \in {roster \cup {n}, roster \ {n}}
  /\ writes' = writes + 1
  /\ busy' = busy \ {c}
  /\ UNCHANGED leaked

Answer(c) ==
  /\ Running /\ c \in busy /\ ~leaked
  /\ busy' = busy \ {c}
  /\ UNCHANGED <<roster, leaked, writes>>

Leak(c) ==
  /\ Running /\ Leaks /\ c \in busy /\ ~leaked
  /\ leaked' = TRUE
  /\ busy' = busy \ {c}
  /\ UNCHANGED <<roster, writes>>

Request ==
  /\ \E c \in Clients : Arrive(c) \/ Change(c) \/ Answer(c) \/ Leak(c)
  /\ UNCHANGED <<main, watcher, todo, wtodo, cancelled, hello, online, quiet, told, hellos>>

(* The bus. *)
SayHello ==
  /\ hellos < MaxHellos
  /\ hello' = TRUE
  /\ hellos' = hellos + 1
  /\ UNCHANGED <<store, main, watcher, todo, wtodo, cancelled, online, quiet, told>>

-----------------------------------------------------------------------------

Init ==
  /\ roster \in SUBSET Names
  /\ leaked = FALSE
  /\ main = "announce" /\ watcher = "off"
  /\ todo = {} /\ wtodo = {}
  /\ cancelled = FALSE /\ hello = FALSE /\ quiet = FALSE
  /\ busy = {} /\ online = {} /\ told = {}
  /\ hellos = 0 /\ writes = 0

MainStep ==
  \/ AnnounceSelf \/ ListToAnnounce \/ AnnounceMember \/ Serve \/ StopWatch
  \/ GoodbyeSelf \/ ListToDismiss \/ GoodbyeMember \/ Shutdown \/ Exit

WatcherStep == WatchHello \/ ReannounceSelf \/ ListAgain \/ ReannounceMember \/ WatchAgain

Next ==
  \/ MainStep \/ Signal \/ DieEarly
  \/ Running /\ WatcherStep
  \/ Request
  \/ Running /\ SayHello

Spec == Init /\ [][Next]_pvars

(* Both goroutines are scheduled; the five second deadline passes. *)
FairSpec == Spec /\ WF_pvars(MainStep) /\ WF_pvars(Running /\ WatcherStep)

-----------------------------------------------------------------------------
(* Properties. *)

(* "Say goodbye for every agent (flip offline now, not after the observer's
   TTL)" (main.go:82-83): when the process has shut down, nothing that it
   said goodbye for is left online. *)
OfflineAtExit == main = "exit" => online \cap (told \cup {Self}) = {}

(* That much does hold when no announcement was under way as the watcher
   was stopped, whatever requests did to the roster meanwhile. *)
QuietExitOffline == quiet => OfflineAtExit

(* "Re-announce whenever the middle man broadcasts hello" (main.go:58): an
   agent that is registered when a hello comes, and stays so, is announced
   unless the process is stopped or its store has been locked for ever. *)
HelloAnswered ==
  \A n \in Names :
    (hello /\ main = "serve" /\ n \in roster)
      ~> (n \in online \/ n \notin roster \/ main # "serve" \/ leaked)

(* A signal ends the process, in-flight requests or not, unless the store
   has been locked for ever: the goodbyes wait for its lock. *)
ShutdownEnds == main = "stop" ~> (main = "exit" \/ leaked)

=============================================================================
