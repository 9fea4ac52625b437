------------------------------ MODULE AtomicFile ------------------------------
(***************************************************************************)
(* What the writers of one file promise to their callers, without how they *)
(* do it: the contents change from one whole version to the next, a power  *)
(* loss may take back versions that are not yet durable but never part of  *)
(* one, and what a caller is told of its write is true of the file.        *)
(* AtomicSave implements it (src/suite-common-core/src/atomic_save.rs).    *)
(***************************************************************************)
EXTENDS Naturals, Sequences

CONSTANTS
  Writes,     \* the writes that may be made, each of contents of its own
  Original    \* the contents before the first of them (a file, or no file)

VARIABLES
  versions,   \* the versions the file has had, the current one last
  durable,    \* a power loss keeps the versions up to this one
  told        \* what the caller of each write was told of it

vars == <<versions, durable, told>>

Holds(n, w) == \E k \in 1..n : versions[k] = w

Init ==
  /\ versions = <<Original>>
  /\ durable = 1
  /\ told = [w \in Writes |-> "nothing"]

\* The contents become w's, all of them at once.
Replace(w) ==
  /\ told[w] = "nothing"
  /\ versions' = Append(versions, w)
  /\ UNCHANGED <<durable, told>>

\* The current contents, and so all before them, survive a power loss.
Settle ==
  /\ durable' = Len(versions)
  /\ UNCHANGED <<versions, told>>

PowerLoss ==
  \E k \in durable..Len(versions) :
    /\ versions' = SubSeq(versions, 1, k)
    /\ durable' = k
    /\ UNCHANGED told

\* "saved" is said of durable contents only, "unsynced" of contents that
\* were put in place, an error of contents that never were.
Tell(w) ==
  \E answer \in {"saved", "unsynced", "failed", "refused"} :
    /\ told[w] = "nothing"
    /\ told' = [told EXCEPT ![w] = answer]
    /\ answer = "saved" => Holds(durable, w)
    /\ answer = "unsynced" => Holds(Len(versions), w)
    /\ answer \in {"failed", "refused"} => ~Holds(Len(versions), w)
    /\ UNCHANGED <<versions, durable>>

Next ==
  \/ \E w \in Writes : Replace(w) \/ Tell(w)
  \/ Settle
  \/ PowerLoss

Spec == Init /\ [][Next]_vars
=============================================================================
