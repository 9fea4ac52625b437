------------------------------- MODULE Recovery -------------------------------
(***************************************************************************)
(* Autosave snapshots and crash recovery,                                  *)
(* src/suite-common-core/src/autosave.rs with its use by the windows of    *)
(* Tables and Decks (src/tables/src/window.rs, src/tables/src/main.rs) and *)
(* the tabs of Letters: a window snapshots its unsaved work into a slot of *)
(* its own, a save clears the slot, and the next launch brings back what a *)
(* crash left, into a window whose slot takes the work over before the     *)
(* orphaned one is cleared.                                                *)
(*                                                                         *)
(* A document is the set of the pieces of work done on it.  A slot is      *)
(* named by its window (new_doc_id: never the same twice).  Every file is  *)
(* written with atomic_write_bytes, that is, as AtomicSave proves, whole   *)
(* or not at all: one step here.                                           *)
(***************************************************************************)
EXTENDS Naturals, FiniteSets

CONSTANTS
  Windows,    \* windows that may be opened, each once
  Work,       \* pieces of work the user may do
  Paths,      \* files
  NoPath      \* of a document that was never saved

ASSUME RecoveryAssumption ==
  /\ IsFiniteSet(Windows)
  /\ NoPath \notin Paths

VARIABLES
  stage,      \* what each window is doing
  doc,        \* the work in its document
  path,       \* the file its document belongs to
  dirty,      \* the windows with work that is not saved
  listing,    \* the orphans it was offered and has not tried
  source,     \* the orphan it recovers from (itself: none)
  snaps,      \* the slots that hold a snapshot
  snapWork,   \* its work
  snapPath,   \* its file (SnapshotMeta::original_path)
  lock,       \* the slot's lock file: absent, free, or held by its window
  file,       \* the work in each file
  overtaken,  \* the slots whose snapshot is older than its file
  left        \* windows the activation may still open for orphans

\* What the properties speak of; no action reads it.
VARIABLES
  kept,       \* work that was once in a snapshot or a file
  dropped,    \* work the user discarded or saved over
  trouble     \* something of the last activation failed

docVars  == <<doc, path, dirty>>
slotVars == <<snaps, snapWork, snapPath, lock, overtaken>>
loopVars == <<listing, source, left>>
vars == <<stage, docVars, loopVars, slotVars, file, kept, dropped, trouble>>

Recovering == {"recovering", "loaded", "adopted"}
Living == {w \in Windows : stage[w] \in Recovering \cup {"open", "saving"}}

\* A recovery and a save each run within one callback of the only thread, so
\* the user's and the timer's turns come between them.  A second launch is
\* forwarded to the process there is (g_application's uniqueness).
Free == left = 0 /\ \A w \in Windows : stage[w] \notin Recovering \cup {"saving"}

\* find_orphaned_snapshots: superseded_by_a_real_save and has_a_live_owner.
Superseded(o) == o \in overtaken
HasLiveOwner(o) == lock[o] = "held"
Orphans == {o \in snaps : ~Superseded(o) /\ ~HasLiveOwner(o)}

Init ==
  /\ stage = [w \in Windows |-> "new"]
  /\ doc = [w \in Windows |-> {}]
  /\ path = [w \in Windows |-> NoPath]
  /\ dirty = {}
  /\ listing = [w \in Windows |-> {}]
  /\ source = [w \in Windows |-> w]
  /\ snaps = {}
  /\ snapWork = [w \in Windows |-> {}]
  /\ snapPath = [w \in Windows |-> NoPath]
  /\ lock = [w \in Windows |-> "absent"]
  /\ file = [p \in Paths |-> {}]
  /\ overtaken = {}
  /\ left = 0
  /\ kept = {}
  /\ dropped = {}
  /\ trouble = FALSE

Goes(w, to) == stage' = [stage EXCEPT ![w] = to]

\* AutosaveSlot::write: the bytes and what they belong to in one file.
WriteSlot(w, work, p) ==
  /\ snaps' = snaps \cup {w}
  /\ snapWork' = [snapWork EXCEPT ![w] = work]
  /\ snapPath' = [snapPath EXCEPT ![w] = p]
  /\ overtaken' = overtaken \ {w}
  /\ kept' = kept \cup work
  /\ UNCHANGED lock

\* Mutant: the verdict that the file is newer outlives the snapshot.
ClearSnapshotOnly(w, cleared) ==
  /\ lock' = [lock EXCEPT ![w] = "absent"]
  /\ snaps' = IF cleared THEN snaps \ {w} ELSE snaps
  /\ snapWork' = [snapWork EXCEPT ![w] = IF cleared THEN {} ELSE @]
  /\ snapPath' = [snapPath EXCEPT ![w] = IF cleared THEN NoPath ELSE @]
  /\ UNCHANGED overtaken

\* AutosaveSlot::clear: the lock file goes first, and without complaint, then
\* the snapshot, which may fail.
ClearSlot(w, cleared) ==
  /\ lock' = [lock EXCEPT ![w] = "absent"]
  /\ IF cleared
     THEN /\ snaps' = snaps \ {w}
          /\ snapWork' = [snapWork EXCEPT ![w] = {}]
          /\ snapPath' = [snapPath EXCEPT ![w] = NoPath]
          /\ overtaken' = overtaken \ {w}
     ELSE UNCHANGED <<snaps, snapWork, snapPath, overtaken>>

-----------------------------------------------------------------------------
(* The user and the autosave timer.                                           *)

\* A file is opened from the command line or the file manager (connect_open),
\* or a new document with the New action: in a new window, without recovery.
OpenWindow(w) ==
  /\ Free
  /\ stage[w] = "new"
  /\ Goes(w, "open")
  /\ \E p \in Paths \cup {NoPath} :
       /\ path' = [path EXCEPT ![w] = p]
       /\ doc' = [doc EXCEPT ![w] = IF p = NoPath THEN {} ELSE file[p]]
  /\ lock' = [lock EXCEPT ![w] = "held"]
  /\ UNCHANGED <<dirty, loopVars, snaps, snapWork, snapPath, overtaken, file, kept, dropped, trouble>>

Edit(w, e) ==
  /\ Free
  /\ stage[w] = "open"
  /\ \A v \in Windows : e \notin doc[v] /\ e \notin snapWork[v]
  /\ e \notin kept \cup dropped
  /\ doc' = [doc EXCEPT ![w] = @ \cup {e}]
  /\ dirty' = dirty \cup {w}
  /\ UNCHANGED <<stage, path, loopVars, slotVars, file, kept, dropped, trouble>>

\* The timer's tick, or autosave-now.  A write that fails leaves the snapshot
\* there was, and the next tick tries again.
Autosave(w) ==
  /\ Free
  /\ stage[w] = "open"
  /\ w \in dirty
  /\ WriteSlot(w, doc[w], path[w])
  /\ UNCHANGED <<stage, docVars, loopVars, file, dropped, trouble>>

\* A save puts the document in its file (or a file chosen for it): the file is
\* now newer than its snapshots, or of the same tick of the file system's
\* clock.
SaveFile(w) ==
  /\ Free
  /\ stage[w] = "open"
  /\ Goes(w, "saving")
  /\ \E p \in Paths :
       /\ path[w] \in {p, NoPath}
       /\ path' = [path EXCEPT ![w] = p]
       /\ file' = [file EXCEPT ![p] = doc[w]]
       /\ dropped' = dropped \cup (file[p] \ doc[w])
       /\ \E older \in {{}, {o \in snaps : snapPath[o] = p}} :
            overtaken' = overtaken \cup older
  /\ kept' = kept \cup doc[w]
  /\ UNCHANGED <<doc, dirty, loopVars, snaps, snapWork, snapPath, lock, trouble>>

\* ... and then clears the slot (a crash may come in between).
SaveCommits(w) ==
  /\ stage[w] = "saving"
  /\ Goes(w, "open")
  /\ dirty' = dirty \ {w}
  /\ \E cleared \in BOOLEAN : ClearSlot(w, cleared)
  /\ UNCHANGED <<doc, path, loopVars, file, kept, dropped, trouble>>

\* The lock file of a window that ends stays, unheld.
Ends(gone) ==
  /\ stage' = [w \in Windows |-> IF w \in gone THEN "gone" ELSE stage[w]]
  /\ doc' = [w \in Windows |-> IF w \in gone THEN {} ELSE doc[w]]
  /\ path' = [w \in Windows |-> IF w \in gone THEN NoPath ELSE path[w]]
  /\ source' = [w \in Windows |-> IF w \in gone THEN w ELSE source[w]]
  /\ dirty' = dirty \ gone
  /\ listing' = [w \in Windows |-> IF w \in gone THEN {} ELSE listing[w]]

Unheld(locks, gone) == [w \in Windows |-> IF w \in gone /\ locks[w] = "held" THEN "free" ELSE locks[w]]

CloseClean(w) ==
  /\ Free
  /\ stage[w] = "open"
  /\ w \notin dirty
  /\ Ends({w})
  /\ lock' = Unheld(lock, {w})
  /\ UNCHANGED <<left, snaps, snapWork, snapPath, overtaken, file, kept, dropped, trouble>>

\* The user discards the changes: the slot is cleared with them.
CloseDiscard(w) ==
  /\ Free
  /\ stage[w] = "open"
  /\ w \in dirty
  /\ Ends({w})
  /\ \E cleared \in BOOLEAN : ClearSlot(w, cleared)
  /\ dropped' = dropped \cup doc[w]
  /\ UNCHANGED <<left, file, kept, trouble>>

\* The process dies: with it every window it has, whatever it was doing.
Crash ==
  /\ Living # {}
  /\ Ends(Living)
  /\ lock' = Unheld(lock, Living)
  /\ dropped' = dropped \cup ((UNION {doc[w] : w \in Living}) \ kept)
  /\ left' = 0
  /\ UNCHANGED <<snaps, snapWork, snapPath, overtaken, file, kept, trouble>>

-----------------------------------------------------------------------------
(* Recovery.                                                                  *)

\* Mutant: one window for whatever there is to recover.
ActivateOnce ==
  /\ Free
  /\ Living = {}
  /\ Orphans # {}
  /\ left' = 1
  /\ trouble' = FALSE
  /\ UNCHANGED <<stage, docVars, listing, source, slotVars, file, kept, dropped>>

\* connect_activate with no window open: at most one window for each orphan.
Activate ==
  /\ Free
  /\ Living = {}
  /\ Orphans # {}
  /\ left' = Cardinality(Orphans)
  /\ trouble' = FALSE
  /\ UNCHANGED <<stage, docVars, listing, source, slotVars, file, kept, dropped>>

\* A window of its own for the next orphan: it claims its slot, then asks what
\* there is.
RecoverWindow(w) ==
  /\ stage[w] = "new"
  /\ left > 0
  /\ \A v \in Windows : stage[v] \notin Recovering
  /\ Goes(w, "recovering")
  /\ lock' = [lock EXCEPT ![w] = "held"]
  /\ listing' = [listing EXCEPT ![w] = Orphans]
  /\ UNCHANGED <<docVars, source, left, snaps, snapWork, snapPath, overtaken, file, kept, dropped, trouble>>

\* recover_from_snapshot: the snapshot is read and loads ...
LoadOrphan(w, o) ==
  /\ stage[w] = "recovering"
  /\ o \in listing[w] \cap snaps
  /\ Goes(w, "loaded")
  /\ doc' = [doc EXCEPT ![w] = snapWork[o]]
  /\ path' = [path EXCEPT ![w] = snapPath[o]]
  /\ dirty' = dirty \cup {w}
  /\ source' = [source EXCEPT ![w] = o]
  /\ listing' = [listing EXCEPT ![w] = {}]
  /\ UNCHANGED <<left, slotVars, file, kept, dropped, trouble>>

\* ... or does not, and the next one is tried.
SkipOrphan(w, o) ==
  /\ stage[w] = "recovering"
  /\ o \in listing[w]
  /\ listing' = [listing EXCEPT ![w] = @ \ {o}]
  /\ trouble' = (trouble \/ o \in snaps)
  /\ UNCHANGED <<stage, docVars, source, left, slotVars, file, kept, dropped>>

\* Nothing was recovered into this window: it is destroyed, and the loop ends.
\* (When it was the first, a new empty window is opened instead: this one.)
NoOrphan(w) ==
  /\ stage[w] = "recovering"
  /\ listing[w] = {}
  /\ left' = 0
  /\ IF Living = {w}
     THEN Goes(w, "open") /\ UNCHANGED <<docVars, listing, source, lock>>
     ELSE Ends({w}) /\ lock' = Unheld(lock, {w})
  /\ UNCHANGED <<snaps, snapWork, snapPath, overtaken, file, kept, dropped, trouble>>

\* Mutant: the recovered work is left for the next autosave to write.
AdoptUnsaved(w) ==
  /\ stage[w] = "loaded"
  /\ Goes(w, "adopted")
  /\ UNCHANGED <<docVars, loopVars, slotVars, file, kept, dropped, trouble>>

\* adopt_recovered: the work goes into the window's own slot.  When that fails
\* the orphan stays for the next launch.
Adopt(w) ==
  /\ stage[w] = "loaded"
  /\ Goes(w, "adopted")
  /\ WriteSlot(w, doc[w], path[w])
  /\ UNCHANGED <<docVars, loopVars, file, dropped, trouble>>

AdoptFails(w) ==
  /\ stage[w] = "loaded"
  /\ Goes(w, "open")
  /\ left' = left - 1
  /\ trouble' = TRUE
  /\ source' = [source EXCEPT ![w] = w]
  /\ UNCHANGED <<docVars, listing, slotVars, file, kept, dropped>>

\* clear_or_report: a failure is only reported.
ClearOrphan(w) ==
  /\ stage[w] = "adopted"
  /\ Goes(w, "open")
  /\ left' = left - 1
  /\ \E cleared \in BOOLEAN :
       /\ ClearSlot(source[w], cleared)
       /\ trouble' = (trouble \/ ~cleared)
  /\ source' = [source EXCEPT ![w] = w]
  /\ UNCHANGED <<docVars, listing, file, kept, dropped>>

Next ==
  \/ \E w \in Windows :
       \/ OpenWindow(w) \/ (\E e \in Work : Edit(w, e)) \/ Autosave(w)
       \/ SaveFile(w) \/ SaveCommits(w) \/ CloseClean(w) \/ CloseDiscard(w)
       \/ RecoverWindow(w) \/ NoOrphan(w) \/ Adopt(w) \/ AdoptFails(w) \/ ClearOrphan(w)
       \/ \E o \in Windows : LoadOrphan(w, o) \/ SkipOrphan(w, o)
  \/ Activate
  \/ Crash

Spec == Init /\ [][Next]_vars

-----------------------------------------------------------------------------
TypeOK ==
  /\ stage \in [Windows -> Recovering \cup {"new", "open", "saving", "gone"}]
  /\ doc \in [Windows -> SUBSET Work]
  /\ path \in [Windows -> Paths \cup {NoPath}]
  /\ dirty \subseteq Windows
  /\ listing \in [Windows -> SUBSET Windows]
  /\ source \in [Windows -> Windows]
  /\ snaps \subseteq Windows
  /\ snapWork \in [Windows -> SUBSET Work]
  /\ snapPath \in [Windows -> Paths \cup {NoPath}]
  /\ lock \in [Windows -> {"absent", "free", "held"}]
  /\ file \in [Paths -> SUBSET Work]
  /\ overtaken \subseteq snaps
  /\ left \in Nat
  /\ kept \subseteq Work /\ dropped \subseteq Work
  /\ trouble \in BOOLEAN

\* Work that was once in a snapshot or a file is never lost: until the user
\* discards it or saves over it, it is in a window, in a file or in a snapshot,
\* through any sequence of crashes, recoveries and failed writes (the order of
\* adopt_recovered and of the orphan's clear is what this turns on).
NoWorkLost ==
  kept \ dropped \subseteq
    UNION ({doc[w] : w \in Living} \cup {snapWork[o] : o \in snaps} \cup {file[p] : p \in Paths})

\* When nothing failed, an activation brings back every orphan there was, each
\* in a window of its own: none is left when its loop ends.
EveryOrphanComesBack ==
  [][left > 0 /\ left' = 0 /\ Living' # {} /\ ~trouble' =>
       \A o \in Orphans' : stage'[o] # "gone"]_vars
=============================================================================
