---------------------------- MODULE RecoveryProofs ----------------------------
(* Proofs about Recovery, for any windows, pieces of work and files.          *)
EXTENDS Recovery, FiniteSetTheorems, TLAPS

(* What is on disk: in a snapshot or in a file. *)
OnDisk(e) == (\E o \in snaps : e \in snapWork[o]) \/ (\E p \in Paths : e \in file[p])

(* Stronger than NoWorkLost, and what a crash turns on: no work is safe only  *)
(* in a window.                                                              *)
KeptIsOnDisk == \A e \in kept \ dropped : OnDisk(e)

(* A window's slot holds nothing its document lacks; while an orphan is taken *)
(* over its work is in the document first and in the slot next; while a save *)
(* is under way the document is in its file.                                 *)
SlotInv(w) ==
  /\ stage[w] \in {"new", "recovering", "loaded"} => w \notin snaps
  /\ stage[w] \in {"adopted", "open", "saving"} /\ w \in snaps => snapWork[w] \subseteq doc[w]
  /\ stage[w] \in {"loaded", "adopted"} => snapWork[source[w]] \subseteq doc[w]
  /\ stage[w] = "adopted" => w \in snaps /\ doc[w] \subseteq snapWork[w]
  /\ stage[w] = "saving" => path[w] \in Paths /\ doc[w] \subseteq file[path[w]]

(* One thread: one save or one recovery at a time. *)
Busy == Recovering \cup {"saving"}
OneBusy == \A v, w \in Windows : stage[v] \in Busy /\ stage[w] \in Busy => v = w

(* The orphans whose window is gone, which is all of them in an activation. *)
Stranded == {o \in Orphans : stage[o] = "gone"}

(* An activation: the windows it opened own their slots; what the one that    *)
(* recovers was offered, or took, is stranded; and it has turns left for all. *)
LoopInv ==
  /\ \A w \in Windows : stage[w] \in Recovering => left > 0
  /\ \A w \in Windows : stage[w] = "saving" => left = 0
  /\ left > 0 => \A w \in Living : lock[w] = "held"
  /\ \A w \in Windows : stage[w] = "recovering" =>
       listing[w] \subseteq Stranded /\ (trouble \/ Stranded \subseteq listing[w])
  /\ \A w \in Windows : stage[w] \in {"loaded", "adopted"} => source[w] \in Stranded
  /\ left > 0 /\ ~trouble => Cardinality(Stranded) <= left

IInv ==
  /\ TypeOK
  /\ KeptIsOnDisk
  /\ \A w \in Windows : SlotInv(w)
  /\ OneBusy
  /\ LoopInv

USE RecoveryAssumption

-----------------------------------------------------------------------------
(* Facts about what is stranded.                                              *)

(* There are finitely many orphans.                                           *)
LEMMA FewStranded ==
  ASSUME TypeOK
  PROVE  /\ IsFiniteSet(Stranded) /\ Cardinality(Stranded) \in Nat
         /\ IsFiniteSet(Orphans) /\ Cardinality(Orphans) \in Nat
         /\ Cardinality(Stranded) <= Cardinality(Orphans)
<1>1. Orphans \subseteq Windows /\ Stranded \subseteq Orphans
  BY DEF TypeOK, Stranded, Orphans
<1> QED
  BY <1>1, FS_Subset, FS_CardinalityType

(* In an activation, a window that lives or is new is no orphan.              *)
LEMMA OrphansAreStranded ==
  ASSUME IInv, left > 0 \/ Living = {}
  PROVE  Orphans = Stranded
<1>1. ASSUME NEW o \in Orphans PROVE stage[o] = "gone"
  <2>1. o \in Windows /\ o \in snaps /\ lock[o] # "held"
    BY DEF IInv, TypeOK, Orphans, HasLiveOwner
  <2>2. stage[o] # "new"
    BY <2>1 DEF IInv, SlotInv
  <2>3. o \notin Living
    BY <2>1 DEF IInv, LoopInv
  <2> QED
    BY <2>1, <2>2, <2>3 DEF IInv, TypeOK, Living
<1> QED
  BY <1>1 DEF Stranded

-----------------------------------------------------------------------------
(* Every step keeps the invariant.                                            *)

(* A window opened has no snapshot and no part in an activation. *)
LEMMA OpenWindowKeeps ==
  ASSUME IInv, NEW w \in Windows, OpenWindow(w)
  PROVE  IInv'
<1> USE DEF IInv, OpenWindow, Free, Goes, loopVars
<1>1. TypeOK'
  BY DEF TypeOK, Recovering, Living
<1>2. KeptIsOnDisk'
  BY DEF TypeOK, KeptIsOnDisk, OnDisk, SlotInv, Recovering, Living
<1>3. \A v \in Windows : SlotInv(v)'
  BY DEF TypeOK, SlotInv, Recovering, Living, OneBusy, Busy
<1>4. OneBusy'
  BY DEF TypeOK, OneBusy, Busy, Recovering
<1>5. LoopInv'
  BY DEF TypeOK, LoopInv, Stranded, Orphans, Superseded, HasLiveOwner, Recovering, Living, OneBusy, Busy, SlotInv
<1> QED BY <1>1, <1>2, <1>3, <1>4, <1>5

(* An edit makes the document only more than its snapshot. *)
LEMMA EditKeeps ==
  ASSUME IInv, NEW w \in Windows, NEW e \in Work, Edit(w, e)
  PROVE  IInv'
<1> USE DEF IInv, Edit, Free, slotVars, loopVars
<1>1. TypeOK'
  BY DEF TypeOK, Recovering, Living
<1>2. KeptIsOnDisk'
  BY DEF TypeOK, KeptIsOnDisk, OnDisk, SlotInv, Recovering, Living
<1>3. \A v \in Windows : SlotInv(v)'
  BY DEF TypeOK, SlotInv, Recovering, Living, OneBusy, Busy
<1>4. OneBusy'
  BY DEF TypeOK, OneBusy, Busy, Recovering
<1>5. LoopInv'
  BY DEF TypeOK, LoopInv, Stranded, Orphans, Superseded, HasLiveOwner, Recovering, Living, OneBusy, Busy, SlotInv
<1> QED BY <1>1, <1>2, <1>3, <1>4, <1>5

(* A tick writes what the document is. *)
LEMMA AutosaveKeeps ==
  ASSUME IInv, NEW w \in Windows, Autosave(w)
  PROVE  IInv'
<1> USE DEF IInv, Autosave, Free, docVars, loopVars, WriteSlot
<1>1. TypeOK'
  BY DEF TypeOK, Recovering, Living
<1>2. KeptIsOnDisk'
  BY DEF TypeOK, KeptIsOnDisk, OnDisk, SlotInv, Recovering, Living
<1>3. \A v \in Windows : SlotInv(v)'
  BY DEF TypeOK, SlotInv, Recovering, Living, OneBusy, Busy
<1>4. OneBusy'
  BY DEF TypeOK, OneBusy, Busy, Recovering
<1>5. LoopInv'
  BY DEF TypeOK, LoopInv, Stranded, Orphans, Superseded, HasLiveOwner, Recovering, Living, OneBusy, Busy, SlotInv
<1> QED BY <1>1, <1>2, <1>3, <1>4, <1>5

(* A save drops from a file only what the user saved over. *)
LEMMA SaveFileKeeps ==
  ASSUME IInv, NEW w \in Windows, SaveFile(w)
  PROVE  IInv'
<1> USE DEF IInv, SaveFile, Free, Goes, loopVars
<1>1. TypeOK'
  BY DEF TypeOK, Recovering, Living
<1>2. KeptIsOnDisk'
  BY DEF TypeOK, KeptIsOnDisk, OnDisk, SlotInv, Recovering, Living
<1>3. \A v \in Windows : SlotInv(v)'
  BY DEF TypeOK, SlotInv, Recovering, Living, OneBusy, Busy
<1>4. OneBusy'
  BY DEF TypeOK, OneBusy, Busy, Recovering
<1>5. LoopInv'
  BY DEF TypeOK, LoopInv, Stranded, Orphans, Superseded, HasLiveOwner, Recovering, Living, OneBusy, Busy, SlotInv
<1> QED BY <1>1, <1>2, <1>3, <1>4, <1>5

(* The slot is cleared once its work is in the file. *)
LEMMA SaveCommitsKeeps ==
  ASSUME IInv, NEW w \in Windows, SaveCommits(w)
  PROVE  IInv'
<1> USE DEF IInv, SaveCommits, Goes, loopVars, ClearSlot
<1>1. TypeOK'
  BY DEF TypeOK, Recovering, Living
<1>2. KeptIsOnDisk'
  BY DEF TypeOK, KeptIsOnDisk, OnDisk, SlotInv, Recovering, Living
<1>3. \A v \in Windows : SlotInv(v)'
  BY DEF TypeOK, SlotInv, Recovering, Living, OneBusy, Busy
<1>4. OneBusy'
  BY DEF TypeOK, OneBusy, Busy, Recovering
<1>5. LoopInv'
  BY DEF TypeOK, LoopInv, Stranded, Orphans, Superseded, HasLiveOwner, Recovering, Living, OneBusy, Busy, SlotInv
<1> QED BY <1>1, <1>2, <1>3, <1>4, <1>5

(* A window that closes leaves its snapshot, now an orphan. *)
LEMMA CloseCleanKeeps ==
  ASSUME IInv, NEW w \in Windows, CloseClean(w)
  PROVE  IInv'
<1> USE DEF IInv, CloseClean, Free, Ends, Unheld
<1>1. TypeOK'
  BY DEF TypeOK, Recovering, Living
<1>2. KeptIsOnDisk'
  BY DEF TypeOK, KeptIsOnDisk, OnDisk, SlotInv, Recovering, Living
<1>3. \A v \in Windows : SlotInv(v)'
  BY DEF TypeOK, SlotInv, Recovering, Living, OneBusy, Busy
<1>4. OneBusy'
  BY DEF TypeOK, OneBusy, Busy, Recovering
<1>5. LoopInv'
  BY DEF TypeOK, LoopInv, Stranded, Orphans, Superseded, HasLiveOwner, Recovering, Living, OneBusy, Busy, SlotInv
<1> QED BY <1>1, <1>2, <1>3, <1>4, <1>5

(* A discarded document is dropped with its snapshot. *)
LEMMA CloseDiscardKeeps ==
  ASSUME IInv, NEW w \in Windows, CloseDiscard(w)
  PROVE  IInv'
<1> USE DEF IInv, CloseDiscard, Free, Ends, ClearSlot
<1>1. TypeOK'
  BY DEF TypeOK, Recovering, Living
<1>2. KeptIsOnDisk'
  BY DEF TypeOK, KeptIsOnDisk, OnDisk, SlotInv, Recovering, Living
<1>3. \A v \in Windows : SlotInv(v)'
  BY DEF TypeOK, SlotInv, Recovering, Living, OneBusy, Busy
<1>4. OneBusy'
  BY DEF TypeOK, OneBusy, Busy, Recovering
<1>5. LoopInv'
  BY DEF TypeOK, LoopInv, Stranded, Orphans, Superseded, HasLiveOwner, Recovering, Living, OneBusy, Busy, SlotInv
<1> QED BY <1>1, <1>2, <1>3, <1>4, <1>5

(* A crash takes nothing from the disk. *)
LEMMA CrashKeeps ==
  ASSUME IInv, Crash
  PROVE  IInv'
<1> USE DEF IInv, Crash, Ends, Unheld
<1>1. TypeOK'
  BY DEF TypeOK, Recovering, Living
<1>2. KeptIsOnDisk'
  BY DEF TypeOK, KeptIsOnDisk, OnDisk, SlotInv, Recovering, Living
<1>3. \A v \in Windows : SlotInv(v)'
  BY DEF TypeOK, SlotInv, Recovering, Living, OneBusy, Busy
<1>4. OneBusy'
  BY DEF TypeOK, OneBusy, Busy, Recovering
<1>5. LoopInv'
  BY DEF TypeOK, LoopInv, Stranded, Orphans, Superseded, HasLiveOwner, Recovering, Living, OneBusy, Busy, SlotInv
<1> QED BY <1>1, <1>2, <1>3, <1>4, <1>5

(* An activation has a turn for every orphan, and each is stranded. *)
LEMMA ActivateKeeps ==
  ASSUME IInv, Activate
  PROVE  IInv'
<1> USE DEF IInv, Activate, Free, docVars, slotVars
<1>1. TypeOK'
  BY FewStranded DEF TypeOK, Orphans
<1>2. KeptIsOnDisk'
  BY DEF TypeOK, KeptIsOnDisk, OnDisk, SlotInv, Recovering, Living
<1>3. \A v \in Windows : SlotInv(v)'
  BY DEF TypeOK, SlotInv, Recovering, Living, OneBusy, Busy
<1>4. OneBusy'
  BY DEF TypeOK, OneBusy, Busy, Recovering
<1>5. LoopInv'
  <2>1. Orphans = Stranded /\ Cardinality(Orphans) \in Nat
    BY OrphansAreStranded, FewStranded
  <2>2. Stranded' = Stranded /\ Living' = Living
    BY DEF Stranded, Orphans, Superseded, HasLiveOwner, Living
  <2>3. left' > 0
    BY FewStranded, FS_EmptySet
  <2> QED
    BY <2>1, <2>2, <2>3 DEF TypeOK, LoopInv, Recovering, Living
<1> QED BY <1>1, <1>2, <1>3, <1>4, <1>5

(* The window of a turn is offered all that is stranded. *)
LEMMA RecoverWindowKeeps ==
  ASSUME IInv, NEW w \in Windows, RecoverWindow(w)
  PROVE  IInv'
<1> USE DEF IInv, RecoverWindow, Goes, docVars
<1>1. TypeOK'
  BY DEF TypeOK, Recovering, Orphans
<1>2. KeptIsOnDisk'
  BY DEF TypeOK, KeptIsOnDisk, OnDisk, SlotInv, Recovering, Living
<1>3. \A v \in Windows : SlotInv(v)'
  BY DEF TypeOK, SlotInv, Recovering, Living, OneBusy, Busy
<1>4. OneBusy'
  BY DEF TypeOK, OneBusy, Busy, Recovering, LoopInv
<1>5. LoopInv'
  <2>1. Orphans = Stranded
    BY OrphansAreStranded
  <2>2. Stranded' = Stranded
    BY DEF TypeOK, Stranded, Orphans, Superseded, HasLiveOwner, SlotInv
  <2>3. \A v \in Windows : stage'[v] = "recovering" =>
          listing'[v] \subseteq Stranded' /\ (trouble' \/ Stranded' \subseteq listing'[v])
    BY <2>1, <2>2 DEF TypeOK, Recovering
  <2>4. \A v \in Living' : lock'[v] = "held"
    BY DEF TypeOK, LoopInv, Living, Recovering
  <2> QED
    BY <2>2, <2>3, <2>4 DEF TypeOK, LoopInv, Recovering
<1> QED BY <1>1, <1>2, <1>3, <1>4, <1>5

(* What it takes is stranded until its slot is cleared. *)
LEMMA LoadOrphanKeeps ==
  ASSUME IInv, NEW w \in Windows, NEW o \in Windows, LoadOrphan(w, o)
  PROVE  IInv'
<1> USE DEF IInv, LoadOrphan, Goes, slotVars
<1>1. TypeOK'
  BY DEF TypeOK, Recovering, Living
<1>2. KeptIsOnDisk'
  BY DEF TypeOK, KeptIsOnDisk, OnDisk, SlotInv, Recovering, Living
<1>3. \A v \in Windows : SlotInv(v)'
  BY DEF TypeOK, SlotInv, Recovering, Living, OneBusy, Busy
<1>4. OneBusy'
  BY DEF TypeOK, OneBusy, Busy, Recovering
<1>5. LoopInv'
  <2>1. Stranded' = Stranded
    BY DEF TypeOK, Stranded, Orphans, Superseded, HasLiveOwner, SlotInv
  <2>2. Living' = Living
    BY DEF TypeOK, Living, Recovering
  <2> QED
    BY <2>1, <2>2 DEF TypeOK, LoopInv, Recovering, OneBusy, Busy
<1> QED BY <1>1, <1>2, <1>3, <1>4, <1>5

(* A snapshot that does not load is trouble; one that went away is not. *)
LEMMA SkipOrphanKeeps ==
  ASSUME IInv, NEW w \in Windows, NEW o \in Windows, SkipOrphan(w, o)
  PROVE  IInv'
<1> USE DEF IInv, SkipOrphan, docVars, slotVars
<1>1. TypeOK'
  BY DEF TypeOK, Recovering, Living
<1>2. KeptIsOnDisk'
  BY DEF TypeOK, KeptIsOnDisk, OnDisk, SlotInv, Recovering, Living
<1>3. \A v \in Windows : SlotInv(v)'
  BY DEF TypeOK, SlotInv, Recovering, Living, OneBusy, Busy
<1>4. OneBusy'
  BY DEF TypeOK, OneBusy, Busy, Recovering
<1>5. LoopInv'
  <2>1. Stranded' = Stranded /\ Living' = Living
    BY DEF TypeOK, Stranded, Orphans, Superseded, HasLiveOwner, Living
  <2>2. o \in Stranded => trouble'
    BY DEF Stranded, Orphans
  <2> QED
    BY <2>1, <2>2 DEF TypeOK, LoopInv
<1> QED BY <1>1, <1>2, <1>3, <1>4, <1>5

(* With nothing on offer the loop ends. *)
LEMMA NoOrphanKeeps ==
  ASSUME IInv, NEW w \in Windows, NoOrphan(w)
  PROVE  IInv'
<1> USE DEF IInv, NoOrphan, Goes, docVars, Ends, Unheld
<1>1. TypeOK'
  BY DEF TypeOK, Recovering, Living
<1>2. KeptIsOnDisk'
  BY DEF TypeOK, KeptIsOnDisk, OnDisk, SlotInv, Recovering, Living
<1>3. \A v \in Windows : SlotInv(v)'
  BY DEF TypeOK, SlotInv, Recovering, Living, OneBusy, Busy
<1>4. OneBusy'
  BY DEF TypeOK, OneBusy, Busy, Recovering
<1>5. LoopInv'
  BY DEF TypeOK, LoopInv, Stranded, Orphans, Superseded, HasLiveOwner, Recovering, Living, OneBusy, Busy, SlotInv
<1> QED BY <1>1, <1>2, <1>3, <1>4, <1>5

(* The window has its own snapshot before the orphan loses its one. *)
LEMMA AdoptKeeps ==
  ASSUME IInv, NEW w \in Windows, Adopt(w)
  PROVE  IInv'
<1> USE DEF IInv, Adopt, Goes, docVars, slotVars, loopVars, WriteSlot
<1>1. TypeOK'
  BY DEF TypeOK, Recovering, Living
<1>2. KeptIsOnDisk'
  BY DEF TypeOK, KeptIsOnDisk, OnDisk, SlotInv, Recovering, Living
<1>3. \A v \in Windows : SlotInv(v)'
  BY DEF TypeOK, SlotInv, Recovering, Living, OneBusy, Busy
<1>4. OneBusy'
  BY DEF TypeOK, OneBusy, Busy, Recovering
<1>5. LoopInv'
  <2>1. Stranded' = Stranded
    BY DEF TypeOK, Stranded, Orphans, Superseded, HasLiveOwner, SlotInv, LoopInv, Living, Recovering
  <2>2. Living' = Living
    BY DEF TypeOK, Living, Recovering
  <2> QED
    BY <2>1, <2>2 DEF TypeOK, LoopInv, Recovering
<1> QED BY <1>1, <1>2, <1>3, <1>4, <1>5

(* The orphan stays when the window could not take its work over. *)
LEMMA AdoptFailsKeeps ==
  ASSUME IInv, NEW w \in Windows, AdoptFails(w)
  PROVE  IInv'
<1> USE DEF IInv, AdoptFails, Goes, docVars, slotVars
<1>1. TypeOK'
  <2>1. left > 0
    BY DEF LoopInv, Recovering
  <2> QED
    BY <2>1 DEF TypeOK, Recovering
<1>2. KeptIsOnDisk'
  BY DEF TypeOK, KeptIsOnDisk, OnDisk, SlotInv, Recovering, Living
<1>3. \A v \in Windows : SlotInv(v)'
  BY DEF TypeOK, SlotInv, Recovering, Living, OneBusy, Busy
<1>4. OneBusy'
  BY DEF TypeOK, OneBusy, Busy, Recovering
<1>5. LoopInv'
  BY DEF TypeOK, LoopInv, Stranded, Orphans, Superseded, HasLiveOwner, Recovering, Living, OneBusy, Busy, SlotInv
<1> QED BY <1>1, <1>2, <1>3, <1>4, <1>5

(* What the orphan held is in the slot of the window that took it over. *)
LEMMA ClearOrphanKeeps ==
  ASSUME IInv, NEW w \in Windows, ClearOrphan(w)
  PROVE  IInv'
<1> USE DEF IInv, ClearOrphan, Goes, docVars, ClearSlot
<1>0. /\ source[w] \in Stranded /\ source[w] \in Windows /\ stage[source[w]] = "gone" /\ source[w] # w
     /\ left > 0 /\ left \in Nat
  BY DEF TypeOK, LoopInv, Recovering, Stranded
<1>1. TypeOK'
  BY <1>0 DEF TypeOK, Recovering
<1>2. KeptIsOnDisk'
  <2>1. snapWork[source[w]] \subseteq snapWork[w] /\ w \in snaps /\ w \in snaps' /\ snapWork'[w] = snapWork[w]
    BY <1>0 DEF TypeOK, SlotInv
  <2>2. \A e : OnDisk(e) => OnDisk(e)'
    BY <1>0, <2>1 DEF TypeOK, OnDisk
  <2> QED
    BY <2>2 DEF KeptIsOnDisk
<1>3. \A v \in Windows : SlotInv(v)'
  BY <1>0 DEF TypeOK, SlotInv, Recovering, OneBusy, Busy
<1>4. OneBusy'
  BY DEF TypeOK, OneBusy, Busy, Recovering
<1>5. LoopInv'
  <2>1. Living' = Living /\ \A v \in Living : v # source[w]
    BY <1>0 DEF TypeOK, Living, Recovering
  <2>2. \A v \in Living : lock'[v] = lock[v]
    BY <2>1 DEF TypeOK, Living
  <2>3. \A v \in Windows : stage'[v] \notin Recovering /\ stage'[v] # "saving"
    <3>1. stage' = [stage EXCEPT ![w] = "open"] /\ stage[w] \in Busy
      BY DEF Busy, Recovering
    <3> QED
      BY <3>1 DEF TypeOK, OneBusy, Busy, Recovering
  <2>4. trouble' \/ Stranded' = Stranded \ {source[w]}
    <3>1. SUFFICES ASSUME ~trouble'
                   PROVE  Stranded' = Stranded \ {source[w]}
      OBVIOUS
    <3>2. /\ snaps' = snaps \ {source[w]} /\ overtaken' = overtaken \ {source[w]}
          /\ lock' = [lock EXCEPT ![source[w]] = "absent"]
          /\ stage[w] = "adopted" /\ stage' = [stage EXCEPT ![w] = "open"]
      BY <3>1 DEF TypeOK
    <3> QED
      BY <1>0, <3>2 DEF TypeOK, Stranded, Orphans, Superseded, HasLiveOwner
  <2>5. left' > 0 /\ ~trouble' => Cardinality(Stranded') <= left'
    <3>1. ~trouble' => ~trouble /\ Cardinality(Stranded) <= left
      BY <1>0 DEF LoopInv
    <3>2. ~trouble' => Cardinality(Stranded') = Cardinality(Stranded) - 1
      BY <1>0, <2>4, FewStranded, FS_RemoveElement
    <3> QED
      BY <1>0, <3>1, <3>2, FewStranded
  <2> QED
    BY <1>0, <2>1, <2>2, <2>3, <2>5 DEF LoopInv, Recovering
<1> QED BY <1>1, <1>2, <1>3, <1>4, <1>5

(* The first window is about to be opened and no work has been done.         *)
LEMMA InitIInv == ASSUME Init PROVE IInv
<1> USE DEF Init
<1>1. TypeOK
  BY DEF TypeOK, Recovering
<1>2. KeptIsOnDisk
  BY DEF KeptIsOnDisk
<1>3. \A w \in Windows : SlotInv(w)
  BY DEF SlotInv
<1>4. OneBusy
  BY DEF OneBusy, Busy, Recovering
<1>5. LoopInv
  BY DEF LoopInv, Recovering
<1> QED
  BY <1>1, <1>2, <1>3, <1>4, <1>5 DEF IInv

LEMMA NextKeepsIInv == ASSUME IInv, [Next]_vars PROVE IInv'
<1>1. CASE Next
  <2>1. CASE Activate
    BY <2>1, ActivateKeeps
  <2>2. CASE Crash
    BY <2>2, CrashKeeps
  <2>3. ASSUME NEW w \in Windows,
               \/ OpenWindow(w) \/ (\E e \in Work : Edit(w, e)) \/ Autosave(w)
               \/ SaveFile(w) \/ SaveCommits(w) \/ CloseClean(w) \/ CloseDiscard(w)
        PROVE  IInv'
    BY <2>3, OpenWindowKeeps, EditKeeps, AutosaveKeeps, SaveFileKeeps, SaveCommitsKeeps,
       CloseCleanKeeps, CloseDiscardKeeps
  <2>4. ASSUME NEW w \in Windows,
               \/ RecoverWindow(w) \/ NoOrphan(w) \/ Adopt(w) \/ AdoptFails(w) \/ ClearOrphan(w)
               \/ \E o \in Windows : LoadOrphan(w, o) \/ SkipOrphan(w, o)
        PROVE  IInv'
    BY <2>4, RecoverWindowKeeps, NoOrphanKeeps, AdoptKeeps, AdoptFailsKeeps, ClearOrphanKeeps,
       LoadOrphanKeeps, SkipOrphanKeeps
  <2> QED
    BY <1>1, <2>1, <2>2, <2>3, <2>4 DEF Next
<1>2. CASE UNCHANGED vars
  BY <1>2 DEF vars, docVars, loopVars, slotVars, IInv, TypeOK, KeptIsOnDisk, OnDisk, SlotInv, OneBusy,
     Busy, LoopInv, Stranded, Orphans, Superseded, HasLiveOwner, Living
<1> QED
  BY <1>1, <1>2

(* The inductive invariant holds of every behaviour.                          *)
LEMMA Invariance == Spec => []IInv
<1>1. Init => IInv
  BY InitIInv
<1>2. IInv /\ [Next]_vars => IInv'
  BY NextKeepsIInv
<1> QED
  BY <1>1, <1>2, PTL DEF Spec

-----------------------------------------------------------------------------
(* The theorems.                                                              *)

(* Every state of autosave and recovery is one its types allow.               *)
THEOREM TypesHold == Spec => []TypeOK
<1>1. IInv => TypeOK
  BY DEF IInv
<1> QED
  BY <1>1, Invariance, PTL

(* Work that was once in a snapshot or a file is never lost, through any      *)
(* sequence of crashes, recoveries and failed writes.                         *)
THEOREM WorkSurvives == Spec => []NoWorkLost
<1>1. IInv => NoWorkLost
  BY DEF IInv, KeptIsOnDisk, OnDisk, NoWorkLost
<1> QED
  BY <1>1, Invariance, PTL

(* An activation in which nothing failed leaves no orphan behind: the loop has *)
(* a turn for each, and it ends by itself only when none is left.             *)
THEOREM AllOrphansReturn == Spec => EveryOrphanComesBack
<1> DEFINE Ending == left > 0 /\ left' = 0 /\ Living' # {} /\ ~trouble'
           Returned == \A o \in Orphans' : stage'[o] # "gone"
<1>1. ASSUME IInv, Next, Ending PROVE Returned
  <2>1. left # left' /\ left \in Nat /\ left > 0
    BY <1>1 DEF IInv, TypeOK
  <2>2. ASSUME NEW w \in Windows, NoOrphan(w) PROVE Stranded' = {}
    <3>1. Stranded = {}
      BY <1>1, <2>2 DEF IInv, LoopInv, NoOrphan
    <3>2. stage[w] = "recovering" /\ w \notin snaps
      BY <1>1, <2>2 DEF IInv, SlotInv, NoOrphan
    <3>3. ASSUME NEW o \in Stranded' PROVE o \in Stranded
      <4>1. o # w /\ o \in snaps /\ o \in Windows /\ o \notin overtaken
        BY <1>1, <2>2, <3>2, <3>3 DEF IInv, TypeOK, NoOrphan, Stranded, Orphans, Superseded
      <4> QED
        BY <1>1, <2>2, <3>3, <4>1 DEF IInv, TypeOK, NoOrphan, Goes, Ends, Unheld, Stranded, Orphans, Superseded, HasLiveOwner
    <3> QED
      BY <3>1, <3>3
  <2>3. ASSUME NEW w \in Windows, ClearOrphan(w) PROVE Stranded' = {}
    <3>0. source[w] \in Stranded /\ source[w] \in Windows /\ source[w] # w /\ left = 1
      BY <1>1, <2>1, <2>3 DEF ClearOrphan, IInv, TypeOK, LoopInv, Recovering, Stranded
    <3>1. Stranded' = Stranded \ {source[w]}
      BY <1>1, <2>3, <3>0 DEF IInv, TypeOK, ClearOrphan, ClearSlot, Goes, Stranded, Orphans, Superseded, HasLiveOwner
    <3>2. ~trouble
      BY <1>1, <2>3 DEF ClearOrphan
    <3>3. Cardinality(Stranded) <= 1
      BY <1>1, <3>0, <3>2 DEF IInv, LoopInv
    <3>4. Cardinality(Stranded') = Cardinality(Stranded) - 1 /\ IsFiniteSet(Stranded')
      BY <1>1, <3>0, <3>1, FewStranded, FS_RemoveElement DEF IInv
    <3> QED
      BY <1>1, <3>3, <3>4, FewStranded, FS_EmptySet, FS_CardinalityType DEF IInv
  <2>4. CASE Crash
    BY <1>1, <2>4 DEF Crash, Ends, Living, Recovering, IInv, TypeOK
  <2>5. ASSUME NEW w \in Windows, AdoptFails(w) PROVE FALSE
    BY <1>1, <2>5 DEF AdoptFails
  <2>6. CASE Activate
    BY <1>1, <2>6 DEF Activate, Free
  <2>7. ASSUME NEW w \in Windows,
               \/ OpenWindow(w) \/ (\E e \in Work : Edit(w, e)) \/ Autosave(w)
               \/ SaveFile(w) \/ SaveCommits(w) \/ CloseClean(w) \/ CloseDiscard(w)
               \/ RecoverWindow(w) \/ Adopt(w)
               \/ \E o \in Windows : LoadOrphan(w, o) \/ SkipOrphan(w, o)
        PROVE  left' = left
    BY <2>7 DEF OpenWindow, Edit, Autosave, SaveFile, SaveCommits, CloseClean, CloseDiscard, RecoverWindow,
       Adopt, LoadOrphan, SkipOrphan, loopVars
  <2>8. Stranded' = {} => Returned
    BY DEF Stranded
  <2> QED
    BY <1>1, <2>1, <2>2, <2>3, <2>4, <2>5, <2>6, <2>7, <2>8 DEF Next
<1>2. IInv /\ [Next]_vars => [Ending => Returned]_vars
  BY <1>1 DEF vars, loopVars
<1> QED
  BY <1>2, Invariance, PTL DEF Spec, EveryOrphanComesBack
=============================================================================
