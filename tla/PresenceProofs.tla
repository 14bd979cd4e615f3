--------------------------- MODULE PresenceProofs ---------------------------
(* What the shutdown sequence guarantees, for every set of names and clients *)
(* and any number of hellos and changes of the roster.                       *)
EXTENDS Presence, TLAPS

(* Every variable of Presence keeps to its type. *)
THEOREM PresenceTyped == Spec => []TypeOK
<1>1. Init => TypeOK
  <2> SUFFICES ASSUME Init PROVE TypeOK
    OBVIOUS
  <2>1. hellos \in 0..MaxHellos /\ writes \in 0..MaxWrites
    BY PresenceAssumption DEF Init
  <2> QED
    BY <2>1 DEF Init, TypeOK
<1>2. TypeOK /\ [Next]_pvars => TypeOK'
  <2> SUFFICES ASSUME TypeOK, [Next]_pvars PROVE TypeOK'
    OBVIOUS
  <2>1. CASE AnnounceSelf \/ ListToAnnounce \/ AnnounceMember \/ Serve \/ StopWatch
    BY <2>1 DEF AnnounceSelf, ListToAnnounce, AnnounceMember, Serve, StopWatch, agentMembers,
                store, TypeOK
  <2>2. CASE GoodbyeSelf \/ ListToDismiss \/ GoodbyeMember \/ Shutdown \/ Exit
    BY <2>2 DEF GoodbyeSelf, ListToDismiss, GoodbyeMember, Shutdown, Exit, Offline,
                agentMembers, store, TypeOK
  <2>3. CASE Signal \/ DieEarly
    BY <2>3 DEF Signal, DieEarly, store, TypeOK
  <2>4. CASE WatcherStep
    BY <2>4 DEF WatcherStep, WatchHello, ReannounceSelf, ListAgain, ReannounceMember,
                WatchAgain, agentMembers, store, TypeOK
  <2>5. CASE Request
    <3>1. PICK c \in Clients : Arrive(c) \/ Change(c) \/ Answer(c) \/ Leak(c)
      BY <2>5 DEF Request
    <3>2. /\ roster' \subseteq Names /\ leaked' \in BOOLEAN /\ busy' \subseteq Clients
          /\ writes' \in 0..MaxWrites
      <4>1. CASE Arrive(c)
        BY <4>1 DEF Arrive, TypeOK
      <4>2. CASE Change(c)
        <5>1. writes' \in 0..MaxWrites
          BY <4>2, PresenceAssumption DEF Change, TypeOK
        <5>2. roster' \subseteq Names
          BY <4>2 DEF Change, TypeOK
        <5> QED
          BY <4>2, <5>1, <5>2 DEF Change, TypeOK
      <4>3. CASE Answer(c) \/ Leak(c)
        BY <4>3 DEF Answer, Leak, TypeOK
      <4> QED
        BY <3>1, <4>1, <4>2, <4>3
    <3> QED
      BY <2>5, <3>2 DEF Request, TypeOK
  <2>6. CASE SayHello
    BY <2>6, PresenceAssumption DEF SayHello, store, TypeOK
  <2>7. CASE UNCHANGED pvars
    BY <2>7 DEF pvars, TypeOK
  <2> QED
    BY <2>1, <2>2, <2>3, <2>4, <2>5, <2>6, <2>7 DEF Next, MainStep
<1> QED
  BY <1>1, <1>2, PTL DEF Spec

-----------------------------------------------------------------------------
(* Once the watcher was stopped between two announcements it stays so, and
   from then on only goodbyes change what is online. *)

QuietInv ==
  /\ main \notin {"goodbyes", "shutdown", "exit"} => told = {}
  /\ quiet =>
       /\ cancelled
       /\ watcher \in {"off", "wait"}
       /\ main \in {"goodbye", "listed", "goodbyes", "shutdown", "exit"}
       /\ main # "goodbye" => Self \notin online
       /\ online \cap told = {}

LEMMA QuietStep ==
  ASSUME TypeOK, QuietInv, [Next]_pvars
  PROVE  QuietInv'
<1>1. CASE AnnounceSelf \/ ListToAnnounce \/ AnnounceMember \/ Serve
  BY <1>1 DEF AnnounceSelf, ListToAnnounce, AnnounceMember, Serve, store, QuietInv
<1>2. CASE StopWatch
  BY <1>2 DEF StopWatch, store, QuietInv
<1>3. CASE GoodbyeSelf \/ ListToDismiss \/ Shutdown \/ Exit
  BY <1>3 DEF GoodbyeSelf, ListToDismiss, Shutdown, Exit, Offline, store, QuietInv
<1>4. CASE GoodbyeMember
  BY <1>4 DEF GoodbyeMember, store, QuietInv
<1>5. CASE Signal \/ DieEarly \/ Request \/ SayHello \/ UNCHANGED pvars
  BY <1>5 DEF Signal, DieEarly, Request, SayHello, pvars, store, QuietInv
<1>6. CASE WatcherStep
  BY <1>6 DEF WatcherStep, WatchHello, ReannounceSelf, ListAgain, ReannounceMember,
              WatchAgain, store, QuietInv
<1> QED
  BY <1>1, <1>2, <1>3, <1>4, <1>5, <1>6 DEF Next, MainStep

(* When no announcement was under way as the watcher was stopped, nothing the
   process said goodbye for is online at its exit, however many requests
   changed the roster and hellos came meanwhile. *)
THEOREM QuietExit == Spec => []QuietExitOffline
<1>1. Init => QuietInv
  BY DEF Init, QuietInv
<1>2. TypeOK /\ QuietInv /\ [Next]_pvars => QuietInv'
  BY QuietStep
<1>3. QuietInv => QuietExitOffline
  BY DEF QuietInv, QuietExitOffline, OfflineAtExit
<1> QED
  BY <1>1, <1>2, <1>3, PresenceTyped, PTL DEF Spec

=============================================================================
