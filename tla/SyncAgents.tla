----------------------------- MODULE SyncAgents -----------------------------
(***************************************************************************)
(* scripts/sync-agents.sh: brings data/agents (DST) in line with the agent *)
(* files of cofiswarm-config (SRC), or with --check only reports drift.    *)
(* SRC may be edited while the script runs, a cp may fail, and the script  *)
(* may be interrupted at any point and run again.                          *)
(***************************************************************************)
EXTENDS Naturals

CONSTANTS
  Files,    \* names of agent files
  Contents, \* what such a file may hold
  None,     \* there is no such file
  Torn,     \* what an interrupted cp leaves
  MaxEdits  \* bound: edits of SRC in a behaviour

ASSUME SyncAssumption ==
  None \notin Contents /\ Torn \notin Contents /\ None # Torn /\ MaxEdits \in Nat

VARIABLES
  src, srcDir, dst, dstDir, \* both directories
  pc, check,    \* where the script is, and whether it was given --check
  todo, name,   \* the files its loop has still to visit, the one it will copy
  diffs, code,  \* its counter of differences and its exit status
  were, born,   \* history: what each file of SRC has held since the run began,
                \* and the files that SRC has got since
  edits         \* counter of the bound

history == <<were, born>>
svars == <<src, srcDir, dst, dstDir, pc, check, todo, name, diffs, code, history, edits>>

Disk == Contents \cup {None}

TypeOK ==
  /\ src \in [Files -> Disk] /\ dst \in [Files -> Disk \cup {Torn}]
  /\ {srcDir, dstDir, check} \subseteq BOOLEAN
  /\ were \in [Files -> SUBSET Disk] /\ born \subseteq Files
  /\ (~srcDir => \A f \in Files : src[f] = None) /\ (~dstDir => \A f \in Files : dst[f] = None)
  /\ pc \in {"idle", "update", "copy", "prune"} /\ (pc # "idle" => dstDir)
  /\ todo \subseteq Files /\ name \in Files
  /\ diffs \in Nat /\ code \in 0..2 /\ edits \in 0..MaxEdits

-----------------------------------------------------------------------------
(* Defects that the runs have to notice. *)

NothingToPrune(d) == {}
UncountedStale(n, f) == n
ExitWithCount(status) == pc' = "idle" /\ code' = diffs

-----------------------------------------------------------------------------

Present(d) == {f \in Files : d[f] # None}
CountStale(n, f) == n + 1

Exit(status) == pc' = "idle" /\ code' = status

(* The first lines: SRC must exist, except that a check without it is
   skipped with success; DST is created. *)
Start ==
  /\ pc = "idle"
  /\ check' \in BOOLEAN
  /\ were' = [f \in Files |-> {src[f]}] /\ born' = {}
  /\ IF srcDir
     THEN /\ dstDir' = TRUE
          /\ pc' = "update" /\ todo' = Present(src) /\ diffs' = 0
          /\ UNCHANGED code
     ELSE Exit(IF check' THEN 0 ELSE 2) /\ UNCHANGED <<dstDir, todo, diffs>>
  /\ UNCHANGED <<src, srcDir, dst, name, edits>>

(* cmp: a file that is missing on either side differs. *)
Compare ==
  /\ pc = "update"
  /\ \E f \in todo :
       /\ todo' = todo \ {f}
       /\ IF src[f] = dst[f] /\ src[f] # None
          THEN UNCHANGED <<pc, diffs, name>>
          ELSE /\ diffs' = diffs + 1
               /\ name' = f
               /\ pc' = IF check THEN "update" ELSE "copy"
  /\ UNCHANGED <<src, srcDir, dst, dstDir, check, code, history, edits>>

Copy ==
  /\ pc = "copy"
  /\ src[name] # None
  /\ dst' = [dst EXCEPT ![name] = src[name]]
  /\ pc' = "update"
  /\ UNCHANGED <<src, srcDir, dstDir, check, todo, name, diffs, code, history, edits>>

(* cp fails when the file has gone, or half way; set -e ends the script. *)
CopyFails ==
  /\ pc = "copy"
  /\ \/ src[name] = None /\ UNCHANGED dst
     \/ src[name] # None /\ \E c \in {dst[name], Torn} : dst' = [dst EXCEPT ![name] = c]
  /\ Exit(1)
  /\ UNCHANGED <<src, srcDir, dstDir, check, todo, name, diffs, history, edits>>

ToPrune(d) == Present(d)

StartPrune ==
  /\ pc = "update" /\ todo = {}
  /\ pc' = "prune"
  /\ todo' = ToPrune(dst)
  /\ UNCHANGED <<src, srcDir, dst, dstDir, check, name, diffs, code, history, edits>>

Prune ==
  /\ pc = "prune"
  /\ \E f \in todo :
       /\ todo' = todo \ {f}
       /\ IF src[f] # None THEN UNCHANGED <<diffs, dst>>
          ELSE /\ diffs' = CountStale(diffs, f)
               /\ dst' = IF check THEN dst ELSE [dst EXCEPT ![f] = None]
  /\ UNCHANGED <<src, srcDir, dstDir, pc, check, name, code, history, edits>>

Finish ==
  /\ pc = "prune" /\ todo = {}
  /\ Exit(IF check /\ diffs # 0 THEN 1 ELSE 0)
  /\ UNCHANGED <<src, srcDir, dst, dstDir, check, todo, name, diffs, history, edits>>

(* The terminal or the CI job kills the script. *)
Interrupt ==
  /\ pc # "idle"
  /\ Exit(1)
  /\ \/ UNCHANGED dst
     \/ pc = "copy" /\ src[name] # None /\ dst' = [dst EXCEPT ![name] = Torn]
  /\ UNCHANGED <<src, srcDir, dstDir, check, todo, name, diffs, history, edits>>

(* Another commit of cofiswarm-config is checked out. *)
EditSource ==
  /\ srcDir /\ edits < MaxEdits
  /\ \E f \in Files, c \in Disk : src' = [src EXCEPT ![f] = c]
  /\ were' = [f \in Files |-> were[f] \cup {src'[f]}]
  /\ born' = born \cup (Present(src') \ Present(src))
  /\ edits' = edits + 1
  /\ UNCHANGED <<srcDir, dst, dstDir, pc, check, todo, name, diffs, code>>

Init ==
  /\ src \in [Files -> Disk] /\ dst \in [Files -> Disk]
  /\ srcDir \in BOOLEAN /\ dstDir \in BOOLEAN
  /\ (~srcDir => \A f \in Files : src[f] = None) /\ (~dstDir => \A f \in Files : dst[f] = None)
  /\ pc = "idle" /\ check = FALSE /\ todo = {} /\ name \in Files
  /\ diffs = 0 /\ code = 0 /\ edits = 0
  /\ were = [f \in Files |-> {src[f]}] /\ born = {}

Next ==
  \/ Start \/ Compare \/ Copy \/ CopyFails \/ StartPrune \/ Prune \/ Finish
  \/ Interrupt \/ EditSource

Spec == Init /\ [][Next]_svars

-----------------------------------------------------------------------------
(* Properties.  Ends says that a run that went through both loops ends.  The
   source may be edited at any point of a run.  A file that it gets after the
   first loop has listed it, and of which the mirror has an old copy, escapes
   both loops. *)

Ends(status) == pc = "prune" /\ pc' = "idle" /\ code' = status /\ todo = {}

(* "This keeps them byte-identical" (sync-agents.sh:6): a sync that reports
   success leaves each file of the mirror as the source had it at some moment
   of the run, whatever earlier runs were interrupted or failed; so if nobody
   edits the source, the two are equal. *)
SyncReaches == [][Ends(0) /\ ~check => \A f \in Files \ born : dst'[f] \in were[f]]_svars

(* "Report drift, non-zero on drift": --check passes only if each file of the
   mirror was as the source had it at some moment of the run, and fails only
   if one was not at some moment; so if nobody edits the source, exactly if
   the two differ. *)
CheckVerdict ==
  [][Finish /\ check =>
       IF code' = 0 THEN \A f \in Files \ born : dst[f] \in were[f]
                    ELSE \E f \in Files : were[f] # {dst[f]}]_svars

=============================================================================
