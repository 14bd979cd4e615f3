----------------------------- MODULE SyncProofs -----------------------------
(* What a run of sync-agents.sh that went to its end guarantees, for every   *)
(* set of files and contents, whatever earlier runs left behind.             *)
EXTENDS SyncAgents, TLAPS

(* Both directories and their history, well typed. *)
Disks ==
  /\ src \in [Files -> Disk] /\ dst \in [Files -> Disk \cup {Torn}]
  /\ srcDir \in BOOLEAN /\ dstDir \in BOOLEAN
  /\ (~srcDir => \A f \in Files : src[f] = None) /\ (~dstDir => \A f \in Files : dst[f] = None)
  /\ were \in [Files -> SUBSET Disk] /\ born \subseteq Files

Script ==
  /\ check \in BOOLEAN
  /\ pc \in {"idle", "update", "copy", "prune"} /\ (pc # "idle" => dstDir)
  /\ todo \subseteq Files /\ name \in Files
  /\ diffs \in Nat /\ code \in 0..2 /\ edits \in 0..MaxEdits

LEMMA TypeParts == TypeOK <=> Disks /\ Script
BY DEF TypeOK, Disks, Script

(* Every variable of SyncAgents keeps to its type. *)
THEOREM SyncTyped == Spec => []TypeOK
<1>1. Init => TypeOK
  <2> SUFFICES ASSUME Init PROVE TypeOK
    OBVIOUS
  <2>1. Disks
    BY DEF Init, Disks, Disk
  <2>2. Script
    <3>1. edits \in 0..MaxEdits
      BY SyncAssumption DEF Init
    <3>2. diffs \in Nat /\ code \in 0..2
      BY DEF Init
    <3>3. /\ check \in BOOLEAN /\ todo \subseteq Files /\ name \in Files
          /\ pc = "idle"
      BY DEF Init
    <3> QED
      BY <3>1, <3>2, <3>3 DEF Script
  <2> QED
    BY <2>1, <2>2, TypeParts
<1>2. TypeOK /\ [Next]_svars => TypeOK'
  <2> SUFFICES ASSUME Disks, Script, [Next]_svars PROVE Disks' /\ Script'
    BY TypeParts DEF TypeOK, Disks, Script
  <2>1. CASE Start
    <3>1. CASE srcDir
      BY <2>1, <3>1 DEF Start, Present, Disks, Script, Disk
    <3>2. CASE ~srcDir
      BY <2>1, <3>2 DEF Start, Exit, Disks, Script, Disk
    <3> QED
      BY <3>1, <3>2
  <2>2. CASE Compare
    BY <2>2 DEF Compare, history, Disks, Script
  <2>3. CASE Copy
    BY <2>3 DEF Copy, history, Disks, Script, Disk
  <2>4. CASE CopyFails
    BY <2>4 DEF CopyFails, Exit, history, Disks, Script
  <2>5. CASE Interrupt
    BY <2>5 DEF Interrupt, Exit, history, Disks, Script
  <2>6. CASE StartPrune \/ Finish
    BY <2>6 DEF StartPrune, ToPrune, Present, Finish, Exit, history, Disks, Script
  <2>7. CASE Prune
    BY <2>7 DEF Prune, CountStale, history, Disks, Script, Disk
  <2>8. CASE EditSource
    <3>1. edits' \in 0..MaxEdits
      BY <2>8, SyncAssumption DEF EditSource, Script
    <3>2. /\ src' \in [Files -> Disk]
          /\ were' = [f \in Files |-> were[f] \cup {src'[f]}]
      BY <2>8 DEF EditSource, Disks
    <3>3. were' \in [Files -> SUBSET Disk]
      BY <3>2 DEF Disks
    <3>4. born' \subseteq Files
      BY <2>8 DEF EditSource, Present, Disks
    <3>5. Disks'
      BY <2>8, <3>2, <3>3, <3>4 DEF EditSource, Disks
    <3> QED
      BY <2>8, <3>1, <3>5 DEF EditSource, Script
  <2>9. CASE UNCHANGED svars
    BY <2>9 DEF svars, history, Disks, Script
  <2> QED
    BY <2>1, <2>2, <2>3, <2>4, <2>5, <2>6, <2>7, <2>8, <2>9 DEF Next
<1> QED
  BY <1>1, <1>2, PTL DEF Spec

-----------------------------------------------------------------------------
(* What the loops have established.  A check keeps no file but the verdict. *)

Settled(f) == dst[f] \in were[f]

(* The loops have dealt with f, or will not: the source did not have it when
   the run began. *)
Dealt(f) == Settled(f) \/ (None \in were[f] /\ (src[f] # None => f \in born))

Differed(f) == were[f] # {dst[f]}

(* The files that the update loop has still to compare or to copy. *)
Ahead == IF pc = "copy" THEN todo \cup {name} ELSE todo

UpdateInv ==
  pc \in {"update", "copy"} =>
    /\ \A f \in todo : \E c \in were[f] : c # None
    /\ ~check \/ diffs = 0 => \A f \in Files \ Ahead : Dealt(f)

PruneInv ==
  pc = "prune" =>
    /\ check => todo \subseteq Present(dst)
    /\ ~check \/ diffs = 0 =>
         /\ \A f \in todo : Dealt(f)
         /\ \A f \in Files \ (todo \cup born) : Settled(f)

RunInv ==
  pc # "idle" =>
    /\ \A f \in Files : src[f] \in were[f]
    /\ pc = "copy" => ~check
    /\ check /\ diffs # 0 => \E f \in Files : Differed(f)
    /\ UpdateInv /\ PruneInv

LEMMA StartRun ==
  ASSUME TypeOK, Start
  PROVE  RunInv'
<1>1. CASE ~srcDir
  BY <1>1 DEF Start, Exit, RunInv
<1>2. CASE srcDir
  <2>1. /\ pc' = "update" /\ todo' = Present(src) /\ diffs' = 0 /\ src' = src /\ dst' = dst
        /\ were' = [f \in Files |-> {src[f]}] /\ born' = {}
    BY <1>2 DEF Start
  <2>2. \A f \in Files \ todo' : src[f] = None
    BY <2>1 DEF Present
  <2>3. \A f \in todo' : src[f] # None /\ f \in Files
    BY <2>1 DEF Present
  <2>4. UpdateInv'
    BY <2>1, <2>2, <2>3 DEF UpdateInv, Ahead, Dealt
  <2> QED
    BY <2>1, <2>4 DEF RunInv, PruneInv
<1> QED
  BY <1>1, <1>2

LEMMA CompareRun ==
  ASSUME TypeOK, RunInv, Compare
  PROVE  RunInv'
<1>1. PICK f \in todo :
        /\ todo' = todo \ {f}
        /\ IF src[f] = dst[f] /\ src[f] # None
           THEN UNCHANGED <<pc, diffs, name>>
           ELSE /\ diffs' = diffs + 1
                /\ name' = f
                /\ pc' = IF check THEN "update" ELSE "copy"
  BY DEF Compare
<1>2. pc = "update" /\ UNCHANGED <<src, dst, check, were, born>> /\ f \in Files /\ diffs \in Nat
  BY DEF Compare, history, TypeOK
<1>3. src[f] \in were[f] /\ \E c \in were[f] : c # None
  BY <1>2 DEF RunInv, UpdateInv
<1>4. CASE src[f] = dst[f] /\ src[f] # None
  <2>1. Settled(f)
    BY <1>3, <1>4 DEF Settled
  <2> QED
    BY <1>1, <1>2, <1>4, <2>1 DEF RunInv, UpdateInv, PruneInv, Ahead, Dealt, Settled, Differed
<1>5. CASE ~(src[f] = dst[f] /\ src[f] # None) /\ check
  <2>1. Differed(f)
    BY <1>3, <1>5 DEF Differed
  <2>2. pc' = "update" /\ diffs' # 0
    BY <1>1, <1>2, <1>5
  <2> QED
    BY <1>1, <1>2, <1>5, <2>1, <2>2 DEF RunInv, UpdateInv, PruneInv, Differed
<1>6. CASE ~(src[f] = dst[f] /\ src[f] # None) /\ ~check
  <2>1. pc' = "copy" /\ name' = f
    BY <1>1, <1>6
  <2>2. Ahead' = Ahead
    BY <1>1, <1>2, <2>1 DEF Ahead
  <2> QED
    BY <1>1, <1>2, <1>6, <2>1, <2>2 DEF RunInv, UpdateInv, PruneInv, Dealt, Settled
<1> QED
  BY <1>4, <1>5, <1>6

LEMMA CopyRun ==
  ASSUME TypeOK, RunInv, Copy
  PROVE  RunInv'
<1>1. /\ pc = "copy" /\ pc' = "update" /\ UNCHANGED <<src, were, born, todo, check, diffs>>
      /\ dst' = [dst EXCEPT ![name] = src[name]] /\ name \in Files /\ ~check
  BY DEF Copy, history, TypeOK, RunInv
<1>2. src[name] \in were[name]
  BY <1>1 DEF RunInv
<1>3. dst'[name] = src[name] /\ \A f \in Files \ {name} : dst'[f] = dst[f]
  BY <1>1 DEF TypeOK
<1> QED
  BY <1>1, <1>2, <1>3 DEF RunInv, UpdateInv, PruneInv, Ahead, Dealt, Settled

LEMMA StartPruneRun ==
  ASSUME TypeOK, RunInv, StartPrune
  PROVE  RunInv'
<1>1. /\ pc = "update" /\ todo = {} /\ pc' = "prune" /\ todo' = Present(dst)
      /\ UNCHANGED <<src, dst, were, born, check, diffs>>
  BY DEF StartPrune, ToPrune, history
<1>2. ~check \/ diffs = 0 => \A f \in Files : Dealt(f)
  BY <1>1 DEF RunInv, UpdateInv, Ahead
<1>3. \A f \in Files \ Present(dst) : dst[f] = None
  BY DEF Present
<1>4. PruneInv'
  BY <1>1, <1>2, <1>3 DEF PruneInv, Dealt, Settled, Present
<1> QED
  BY <1>1, <1>4 DEF RunInv, UpdateInv, Differed

LEMMA PruneRun ==
  ASSUME TypeOK, RunInv, Prune
  PROVE  RunInv'
<1>1. PICK f \in todo :
        /\ todo' = todo \ {f}
        /\ IF src[f] # None THEN UNCHANGED <<diffs, dst>>
           ELSE /\ diffs' = diffs + 1
                /\ dst' = IF check THEN dst ELSE [dst EXCEPT ![f] = None]
  BY DEF Prune, CountStale
<1>2. /\ pc = "prune" /\ pc' = "prune" /\ UNCHANGED <<src, check, were, born>>
      /\ f \in Files /\ diffs \in Nat
  BY DEF Prune, history, TypeOK
<1>3. src[f] \in were[f]
  BY <1>2 DEF RunInv
<1>4. CASE src[f] # None
  BY <1>1, <1>2, <1>4 DEF RunInv, UpdateInv, PruneInv, Dealt, Settled, Differed
<1>5. CASE src[f] = None /\ check
  <2>1. dst[f] # None
    BY <1>2, <1>5 DEF RunInv, PruneInv, Present
  <2>2. Differed(f)
    BY <1>3, <1>5, <2>1 DEF Differed
  <2> QED
    BY <1>1, <1>2, <1>5, <2>2 DEF RunInv, UpdateInv, PruneInv, Differed
<1>6. CASE src[f] = None /\ ~check
  <2>1. dst'[f] = None /\ \A g \in Files \ {f} : dst'[g] = dst[g]
    BY <1>1, <1>2, <1>6 DEF TypeOK
  <2>2. Settled(f)'
    BY <1>2, <1>3, <1>6, <2>1 DEF Settled
  <2>3. \A g \in Files \ {f} : (Settled(g) => Settled(g)') /\ (Dealt(g) => Dealt(g)')
    BY <1>2, <2>1 DEF Settled, Dealt
  <2>4. PruneInv'
    BY <1>1, <1>2, <1>6, <2>2, <2>3 DEF RunInv, PruneInv, TypeOK
  <2> QED
    BY <1>2, <1>6, <2>4 DEF RunInv, UpdateInv
<1> QED
  BY <1>4, <1>5, <1>6

(* An edit adds to what a file of the source has been; a file that it creates
   is one that the run need not know of. *)
LEMMA EditRun ==
  ASSUME TypeOK, RunInv, EditSource, pc # "idle"
  PROVE  RunInv'
<1>1. /\ UNCHANGED <<dst, pc, check, todo, name, diffs>>
      /\ were' = [f \in Files |-> were[f] \cup {src'[f]}]
      /\ born' = born \cup (Present(src') \ Present(src))
  BY DEF EditSource
<1>2. \A f \in Files : were'[f] = were[f] \cup {src'[f]}
  BY <1>1
<1>3. \A f \in Files : Settled(f) => Settled(f)'
  BY <1>1, <1>2 DEF Settled
<1>4. \A f \in Files : Differed(f) => Differed(f)'
  <2>1. \A f \in Files : src[f] \in were[f]
    BY DEF RunInv
  <2> QED
    BY <1>1, <1>2, <2>1 DEF Differed
<1>5. \A f \in Files : Dealt(f) => Dealt(f)'
  BY <1>1, <1>2, <1>3 DEF Dealt, Present
<1>6. UpdateInv'
  BY <1>1, <1>2, <1>5 DEF RunInv, UpdateInv, Ahead, TypeOK
<1>7. PruneInv'
  BY <1>1, <1>3, <1>5 DEF RunInv, PruneInv, TypeOK
<1> QED
  BY <1>1, <1>2, <1>4, <1>6, <1>7 DEF RunInv

LEMMA RunStep ==
  ASSUME TypeOK, RunInv, [Next]_svars
  PROVE  RunInv'
<1>1. CASE CopyFails \/ Interrupt \/ Finish
  BY <1>1 DEF CopyFails, Interrupt, Finish, Exit, RunInv
<1>2. CASE EditSource
  <2>1. CASE pc = "idle"
    BY <1>2, <2>1 DEF EditSource, RunInv
  <2> QED
    BY <1>2, <2>1, EditRun
<1>3. CASE UNCHANGED svars
  BY <1>3 DEF svars, history, RunInv, UpdateInv, PruneInv, Ahead, Dealt, Settled, Differed
<1> QED
  BY <1>1, <1>2, <1>3, StartRun, CompareRun, CopyRun, StartPruneRun, PruneRun DEF Next

LEMMA AlwaysRun == Spec => []RunInv
<1>1. Init => RunInv
  BY DEF Init, RunInv
<1>2. TypeOK /\ RunInv /\ [Next]_svars => RunInv'
  BY RunStep
<1> QED
  BY <1>1, <1>2, SyncTyped, PTL DEF Spec

(* A sync that reports success leaves each file of the mirror as the source had
   it at some moment of the run; a file that the source got meanwhile aside. *)
THEOREM SyncReachesSource == Spec => SyncReaches
<1>1. TypeOK /\ RunInv /\ [Next]_svars
        => [Ends(0) /\ ~check => \A f \in Files \ born : dst'[f] \in were[f]]_svars
  <2> SUFFICES ASSUME TypeOK, RunInv, Next, Ends(0), ~check, NEW f \in Files \ born
               PROVE  dst'[f] \in were[f]
    BY DEF svars, history
  <2>1. Finish
    BY DEF Next, Ends, Start, Compare, Copy, CopyFails, StartPrune, Prune, Interrupt, Exit,
           EditSource
  <2>2. Settled(f)
    BY DEF Ends, RunInv, PruneInv
  <2> QED
    BY <2>1, <2>2 DEF Finish, Settled
<1> QED
  BY <1>1, SyncTyped, AlwaysRun, PTL DEF Spec, SyncReaches

(* The exit status of --check is the outcome of the comparison with a source
   that may be edited meanwhile. *)
THEOREM CheckTells == Spec => CheckVerdict
<1>1. TypeOK /\ RunInv /\ [Next]_svars
        => [Finish /\ check =>
              IF code' = 0 THEN \A f \in Files \ born : dst[f] \in were[f]
                           ELSE \E f \in Files : were[f] # {dst[f]}]_svars
  <2> SUFFICES ASSUME TypeOK, RunInv, Finish, check
               PROVE  IF code' = 0 THEN \A f \in Files \ born : dst[f] \in were[f]
                                   ELSE \E f \in Files : were[f] # {dst[f]}
    BY DEF svars, history
  <2>1. pc = "prune" /\ todo = {} /\ (code' = 0 <=> diffs = 0)
    BY DEF Finish, Exit
  <2> QED
    BY <2>1 DEF RunInv, PruneInv, Settled, Differed
<1> QED
  BY <1>1, SyncTyped, AlwaysRun, PTL DEF Spec, CheckVerdict

=============================================================================
