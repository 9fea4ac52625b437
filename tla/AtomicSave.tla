------------------------------ MODULE AtomicSave ------------------------------
(***************************************************************************)
(* Crash-safe saves of one file, src/suite-common-core/src/atomic_save.rs: *)
(* several windows and another program write the same destination, a       *)
(* process is killed or the power goes out between any two steps, any      *)
(* system call of a save fails, and a save that succeeded sweeps the       *)
(* temporaries that crashes left behind.                                   *)
(*                                                                         *)
(* A save writes contents of its own into a temporary of its own, so the   *)
(* save's name also names the temporary, its inode and its contents.  The  *)
(* destination is the sequence of inodes its name has pointed to: the last *)
(* is what a reader opens, and until the directory is synced a power loss  *)
(* may bring back any that came after the last sync.                       *)
(***************************************************************************)
EXTENDS Naturals, Sequences

CONSTANTS
  Saves,      \* calls of atomic_write_impl
  Others,     \* replacements of the file by other programs
  Original,   \* the file there was before (or that there was none)
  Whatever,   \* no precondition: atomic_write_bytes
  Torn        \* contents that are part of something

ASSUME SavesAssumption ==
  /\ Saves \cap Others = {}
  /\ Original \notin Saves \cup Others
  /\ {Whatever, Torn} \cap (Saves \cup Others \cup {Original}) = {}

Inodes == Saves \cup Others \cup {Original}

VARIABLES
  lockable,   \* whether the filesystem has advisory locks
  pc,         \* how far each save has come
  expected,   \* the version its caller expects at the destination, or Whatever
  whole,      \* the inodes that hold all their bytes
  synced,     \* the inodes whose bytes are on the disk
  temps,      \* the saves whose temporary is in the directory
  locked,     \* the temporaries their writer holds the lock of
  aged,       \* the temporaries older than SWEEP_RACE_FLOOR
  dests,      \* the inodes the destination has pointed to, the current last
  durable,    \* the one of them the directory on the disk surely points to
  told        \* what the caller was told

\* Saves after whose check, and before whose rename, the destination changed:
\* the documented residual race.  No action reads it.
VARIABLE raced

vars == <<lockable, pc, expected, whole, synced, temps, locked, aged, dests,
          durable, told, raced>>

Current == dests[Len(dests)]

\* The states in which the temporary is the save's own to fill.
Filling == {"claimed", "written", "synced", "checked"}
Running == Filling \cup {"open", "temp", "renamed", "sweeping"}

Init ==
  /\ lockable \in BOOLEAN
  /\ pc = [s \in Saves |-> "idle"]
  /\ expected = [s \in Saves |-> Whatever]
  /\ whole = Others \cup {Original}
  /\ synced = Others \cup {Original}
  /\ temps = {}
  /\ locked = {}
  /\ aged = {}
  /\ dests = <<Original>>
  /\ durable = 1
  /\ told = [w \in Saves \cup Others |-> "nothing"]
  /\ raced = {}

Goes(s, from, to) ==
  /\ pc[s] = from
  /\ pc' = [pc EXCEPT ![s] = to]

\* The caller notes the version it opened, for a later conditional save, or
\* means to save whatever is there.
Open(s) ==
  /\ Goes(s, "idle", "open")
  /\ \E version \in {Current, Whatever} : expected' = [expected EXCEPT ![s] = version]
  /\ UNCHANGED <<lockable, whole, synced, temps, locked, aged, dests, durable, told, raced>>

\* tempfile_in: an empty file under a name nobody else has.
CreateTemp(s) ==
  /\ Goes(s, "open", "temp")
  /\ temps' = temps \cup {s}
  /\ UNCHANGED <<lockable, expected, whole, synced, locked, aged, dests, durable, told, raced>>

\* _claim: best effort, a filesystem without locks does not fail the save.
Claim(s) ==
  /\ Goes(s, "temp", "claimed")
  /\ locked' = IF lockable THEN locked \cup {s} ELSE locked
  /\ UNCHANGED <<lockable, expected, whole, synced, temps, aged, dests, durable, told, raced>>

\* The destination's permissions are put on the temporary, then write_all;
\* writing also makes the file a new one to the sweep's clock.
WriteData(s) ==
  /\ Goes(s, "claimed", "written")
  /\ whole' = whole \cup {s}
  /\ aged' = aged \ {s}
  /\ UNCHANGED <<lockable, expected, synced, temps, locked, dests, durable, told, raced>>

\* Mutant: the bytes are left to the operating system.
SyncDataLater(s) ==
  /\ Goes(s, "written", "synced")
  /\ UNCHANGED <<lockable, expected, whole, synced, temps, locked, aged, dests, durable, told, raced>>

SyncData(s) ==
  /\ Goes(s, "written", "synced")
  /\ synced' = synced \cup {s}
  /\ UNCHANGED <<lockable, expected, whole, temps, locked, aged, dests, durable, told, raced>>

\* Mutant: the sweep goes by a listing made before.
DropTempOnly(s) ==
  /\ temps' = temps \ {s}
  /\ locked' = locked \ {s}
  /\ UNCHANGED aged

\* Dropping the NamedTempFile removes its name and closes its lock.
DropTemp(s) ==
  /\ temps' = temps \ {s}
  /\ locked' = locked \ {s}
  /\ aged' = aged \ {s}

\* Mutant: whatever is there is overwritten.
CheckNothing(s) ==
  /\ Goes(s, "synced", "checked")
  /\ UNCHANGED <<lockable, expected, whole, synced, temps, locked, aged, dests, durable, told, raced>>

\* FileVersion::capture against the expected version, immediately before the
\* rename but not atomically with it.
Check(s) ==
  /\ Goes(s, "synced", "checked")
  /\ expected[s] \in {Whatever, Current}
  /\ UNCHANGED <<lockable, expected, whole, synced, temps, locked, aged, dests, durable, told, raced>>

Refuse(s) ==
  /\ Goes(s, "synced", "ended")
  /\ expected[s] \notin {Whatever, Current}
  /\ told' = [told EXCEPT ![s] = "refused"]
  /\ DropTemp(s)
  /\ UNCHANGED <<lockable, expected, whole, synced, dests, durable, raced>>

\* An error at any boundary before the new bytes are in place.
Fail(s) ==
  /\ pc[s] \in (Filling \cup {"open"})
  /\ pc' = [pc EXCEPT ![s] = "ended"]
  /\ told' = [told EXCEPT ![s] = "failed"]
  /\ DropTemp(s)
  /\ UNCHANGED <<lockable, expected, whole, synced, dests, durable, raced>>

\* The destination's name comes to point to another inode.
PutInPlace(i) ==
  /\ dests' = Append(dests, i)
  /\ raced' = raced \cup {s \in Saves \ {i} : pc[s] = "checked"}

\* persist: the rename.  The file is then closed, and with it the lock.
Rename(s) ==
  /\ Goes(s, "checked", "renamed")
  /\ PutInPlace(s)
  /\ DropTemp(s)
  /\ UNCHANGED <<lockable, expected, whole, synced, durable, told>>

SyncDir(s) ==
  /\ Goes(s, "renamed", "sweeping")
  /\ durable' = Len(dests)
  /\ UNCHANGED <<lockable, expected, whole, synced, temps, locked, aged, dests, told, raced>>

SyncDirFails(s) ==
  /\ Goes(s, "renamed", "ended")
  /\ told' = [told EXCEPT ![s] = "unsynced"]
  /\ UNCHANGED <<lockable, expected, whole, synced, temps, locked, aged, dests, durable, raced>>

\* Mutant: a temporary past the floor is nobody's.
SweepByAge(s, t) ==
  /\ pc[s] = "sweeping"
  /\ t \in temps \cap aged
  /\ temps' = temps \ {t}
  /\ aged' = aged \ {t}
  /\ UNCHANGED <<lockable, pc, expected, whole, synced, locked, dests, durable, told, raced>>

\* sweep_stranded_temps on one entry: past the floor, and nobody holds its
\* lock.  Whatever the sweep cannot ask, it leaves.
Sweep(s, t) ==
  /\ pc[s] = "sweeping"
  /\ t \in temps \cap aged
  /\ lockable /\ t \notin locked
  /\ temps' = temps \ {t}
  /\ aged' = aged \ {t}
  /\ UNCHANGED <<lockable, pc, expected, whole, synced, locked, dests, durable, told, raced>>

\* The directory is read through (every error of the sweep is ignored).
Finish(s) ==
  /\ Goes(s, "sweeping", "ended")
  /\ told' = [told EXCEPT ![s] = "saved"]
  /\ UNCHANGED <<lockable, expected, whole, synced, temps, locked, aged, dests, durable, raced>>

\* A minute passes.  SWEEP_RACE_FLOOR is there because no save takes that long
\* between creating its temporary and locking it: the guard says the same.
Age(t) ==
  /\ t \in temps \ aged
  /\ pc[t] # "temp"
  /\ aged' = aged \cup {t}
  /\ UNCHANGED <<lockable, pc, expected, whole, synced, temps, locked, dests, durable, told, raced>>

\* SIGKILL or an OOM kill: no destructor runs, the kernel closes the lock.
Kill(s) ==
  /\ pc[s] \in Running
  /\ pc' = [pc EXCEPT ![s] = "killed"]
  /\ locked' = locked \ {s}
  /\ UNCHANGED <<lockable, expected, whole, synced, temps, aged, dests, durable, told, raced>>

\* The power goes out: bytes that are not synced are torn, the destination is
\* any it has been since the directory was synced, and so are the other names
\* in the directory (here: any of the temporaries there have been).
PowerLoss ==
  /\ pc' = [s \in Saves |-> IF pc[s] \in Running THEN "killed" ELSE pc[s]]
  /\ whole' = whole \cap synced
  /\ locked' = {}
  /\ \E k \in durable..Len(dests) :
       /\ dests' = SubSeq(dests, 1, k)
       /\ durable' = k
  /\ \E left \in SUBSET {s \in Saves : pc[s] \notin {"idle", "open"}} :
       /\ temps' = left
       /\ aged' = left \cap aged
  /\ UNCHANGED <<lockable, expected, synced, told, raced>>

\* Another program replaces the file the same way (the external writer of the
\* residual race); what it puts there is whole.
External(o) ==
  /\ \A k \in DOMAIN dests : dests[k] # o
  /\ PutInPlace(o)
  /\ UNCHANGED <<lockable, pc, expected, whole, synced, temps, locked, aged, durable, told>>

Step(s) ==
  \/ Open(s) \/ CreateTemp(s) \/ Claim(s) \/ WriteData(s) \/ SyncData(s)
  \/ Check(s) \/ Refuse(s) \/ Fail(s) \/ Rename(s)
  \/ SyncDir(s) \/ SyncDirFails(s) \/ (\E t \in Saves : Sweep(s, t)) \/ Finish(s)

Next ==
  \/ \E s \in Saves : Step(s) \/ Age(s) \/ Kill(s)
  \/ \E o \in Others : External(o)
  \/ PowerLoss

Spec == Init /\ [][Next]_vars

-----------------------------------------------------------------------------
TypeOK ==
  /\ lockable \in BOOLEAN
  /\ pc \in [Saves -> Running \cup {"idle", "ended", "killed"}]
  /\ expected \in [Saves -> Inodes \cup {Whatever}]
  /\ whole \subseteq Inodes
  /\ synced \subseteq Inodes
  /\ temps \subseteq Saves
  /\ locked \subseteq Saves
  /\ aged \subseteq temps
  /\ dests \in Seq(Inodes) /\ dests # <<>>
  /\ durable \in 1..Len(dests)
  /\ told \in [Saves \cup Others -> {"nothing", "saved", "unsynced", "failed", "refused"}]
  /\ raced \subseteq Saves

\* No sweep of any window removes the temporary another save is filling, and
\* so every save that comes to its rename still has something to rename
\* (sweep_stranded_temps: the lock, and the floor that covers the moment
\* before there is a lock).
SweepSparesLive == \A s \in Saves : pc[s] \in Filling => s \in temps

\* A conditional save replaces the version its caller expected, unless the
\* destination changed between its check and its rename: that window is all
\* that is left of the race (atomic_write_bytes_conditional).
OverwritesOnlyTheExpected ==
  \A k \in 2..Len(dests) : \A s \in Saves \ raced :
    dests[k] = s /\ expected[s] # Whatever => dests[k - 1] = expected[s]

\* Why these hold.  Before its rename a save's temporary is in the directory,
\* too new to sweep until it is locked; what the destination has pointed to
\* was whole and synced before its rename; and a checked save's expectation
\* stays true until something else is put in place.
InPlace(n, i) == \E k \in 1..n : dests[k] = i

FileInv ==
  /\ Others \cup {Original} \subseteq whole \cap synced
  /\ \A k \in 1..Len(dests) : dests[k] \in whole \cap synced
  /\ \A o \in Others : told[o] = "nothing"
  /\ OverwritesOnlyTheExpected

SaveInv(s) ==
  /\ pc[s] \in {"idle", "open"} => s \notin temps
  /\ pc[s] = "temp" => s \in temps \ aged
  /\ pc[s] \in Filling => s \in temps /\ (lockable => s \in locked)
  /\ pc[s] \in {"written", "synced", "checked"} => s \in whole
  /\ pc[s] \in {"synced", "checked"} => s \in synced
  /\ pc[s] \in Filling \cup {"idle", "open", "temp"} => ~InPlace(Len(dests), s)
  /\ pc[s] = "renamed" => InPlace(Len(dests), s)
  /\ pc[s] = "sweeping" => InPlace(durable, s)
  /\ pc[s] # "ended" => told[s] = "nothing"
  /\ pc[s] = "checked" /\ s \notin raced => expected[s] \in {Whatever, Current}

IInv == TypeOK /\ FileInv /\ \A s \in Saves : SaveInv(s)

\* The destination seen as a file whose versions are whole contents.
Contents(i) == IF i \in whole THEN i ELSE Torn

Promise == INSTANCE AtomicFile WITH
  Writes <- Saves \cup Others,
  versions <- [k \in 1..Len(dests) |-> Contents(dests[k])]

\* Saves implement the atomic file: no reader and no crash ever sees part of a
\* version, a save that was told to have failed put nothing in place, and one
\* that was told to have succeeded is durable.
IsAtomicFile == Promise!Spec
=============================================================================
