-------------------------- MODULE AtomicSaveProofs --------------------------
(***************************************************************************)
(* AtomicSave for any number of saves and of foreign writes: its inductive *)
(* invariant, the two safety invariants that follow from it, and that it   *)
(* implements AtomicFile.                                                  *)
(***************************************************************************)
EXTENDS AtomicSave, TLAPS

\* What Append and SubSeq leave of a sequence.
LEMMA AppendKeeps ==
  ASSUME NEW S, NEW q \in Seq(S), NEW i \in S
  PROVE  /\ Append(q, i) \in Seq(S)
         /\ Len(Append(q, i)) = Len(q) + 1
         /\ \A k \in 1..Len(q) : Append(q, i)[k] = q[k]
         /\ Append(q, i)[Len(q) + 1] = i
  OBVIOUS

(* A prefix of a sequence, its length and its elements. *)
LEMMA PrefixKeeps ==
  ASSUME NEW S, NEW q \in Seq(S), NEW k \in 1..Len(q)
  PROVE  /\ SubSeq(q, 1, k) \in Seq(S)
         /\ Len(SubSeq(q, 1, k)) = k
         /\ \A j \in 1..k : SubSeq(q, 1, k)[j] = q[j]
  OBVIOUS

(* It holds at first. *)
LEMMA InitInv == Init => IInv
  <1> SUFFICES ASSUME Init PROVE IInv
    OBVIOUS
  <1>1. TypeOK
    BY SavesAssumption DEF Init, TypeOK, Inodes, Running, Filling
  <1>2. OverwritesOnlyTheExpected
    BY DEF Init, OverwritesOnlyTheExpected
  <1> QED
    BY <1>1, <1>2, SavesAssumption DEF Init, IInv, FileInv, SaveInv, InPlace, Filling

\* Steps of one save that leave the destination's name alone.
LEMMA QuietStep ==
  ASSUME IInv, NEW s \in Saves,
         \/ Open(s) \/ CreateTemp(s) \/ Claim(s) \/ WriteData(s) \/ SyncData(s) \/ Check(s) \/ Refuse(s)
         \/ Fail(s) \/ SyncDir(s) \/ SyncDirFails(s) \/ Finish(s) \/ Age(s) \/ Kill(s)
  PROVE  IInv'
  <1> USE DEF Goes, DropTemp, InPlace
  <1> TypeOK /\ FileInv /\ (\A x \in Saves : SaveInv(x)) /\ s \in Saves
    BY DEF IInv
  <1>1. CASE Open(s)
    <2>1. TypeOK'
      BY <1>1 DEF Open, TypeOK, Running, Filling, Inodes, Current
    <2>2. FileInv'
      BY <1>1, SavesAssumption DEF Open, FileInv, SaveInv, TypeOK, OverwritesOnlyTheExpected, Filling, Current
    <2>3. \A x \in Saves : SaveInv(x)'
      <3> SUFFICES ASSUME NEW x \in Saves PROVE SaveInv(x)'
        OBVIOUS
      <3>1. SaveInv(x) /\ SaveInv(s)
        OBVIOUS
      <3>2. CASE x = s
        BY <1>1, <3>1, <3>2 DEF Open, SaveInv, TypeOK, Filling, Running, Current
      <3>3. CASE x # s
        BY <1>1, <3>1, <3>3 DEF Open, SaveInv, TypeOK, Filling, Running, Current
      <3> QED
        BY <3>2, <3>3
    <2> QED
      BY <2>1, <2>2, <2>3 DEF IInv
  <1>2. CASE CreateTemp(s)
    <2>1. TypeOK'
      BY <1>2 DEF CreateTemp, TypeOK, Running, Filling, Inodes, Current
    <2>2. FileInv'
      BY <1>2, SavesAssumption DEF CreateTemp, FileInv, SaveInv, TypeOK, OverwritesOnlyTheExpected, Filling, Current
    <2>3. \A x \in Saves : SaveInv(x)'
      <3> SUFFICES ASSUME NEW x \in Saves PROVE SaveInv(x)'
        OBVIOUS
      <3>1. SaveInv(x) /\ SaveInv(s)
        OBVIOUS
      <3>2. CASE x = s
        BY <1>2, <3>1, <3>2 DEF CreateTemp, SaveInv, TypeOK, Filling, Running, Current
      <3>3. CASE x # s
        BY <1>2, <3>1, <3>3 DEF CreateTemp, SaveInv, TypeOK, Filling, Running, Current
      <3> QED
        BY <3>2, <3>3
    <2> QED
      BY <2>1, <2>2, <2>3 DEF IInv
  <1>3. CASE Claim(s)
    <2>1. TypeOK'
      BY <1>3 DEF Claim, TypeOK, Running, Filling, Inodes, Current
    <2>2. FileInv'
      BY <1>3, SavesAssumption DEF Claim, FileInv, SaveInv, TypeOK, OverwritesOnlyTheExpected, Filling, Current
    <2>3. \A x \in Saves : SaveInv(x)'
      <3> SUFFICES ASSUME NEW x \in Saves PROVE SaveInv(x)'
        OBVIOUS
      <3>1. SaveInv(x) /\ SaveInv(s)
        OBVIOUS
      <3>2. CASE x = s
        BY <1>3, <3>1, <3>2 DEF Claim, SaveInv, TypeOK, Filling, Running, Current
      <3>3. CASE x # s
        BY <1>3, <3>1, <3>3 DEF Claim, SaveInv, TypeOK, Filling, Running, Current
      <3> QED
        BY <3>2, <3>3
    <2> QED
      BY <2>1, <2>2, <2>3 DEF IInv
  <1>4. CASE WriteData(s)
    <2>1. TypeOK'
      BY <1>4 DEF WriteData, TypeOK, Running, Filling, Inodes, Current
    <2>2. FileInv'
      BY <1>4, SavesAssumption DEF WriteData, FileInv, SaveInv, TypeOK, OverwritesOnlyTheExpected, Filling, Current
    <2>3. \A x \in Saves : SaveInv(x)'
      <3> SUFFICES ASSUME NEW x \in Saves PROVE SaveInv(x)'
        OBVIOUS
      <3>1. SaveInv(x) /\ SaveInv(s)
        OBVIOUS
      <3>2. CASE x = s
        BY <1>4, <3>1, <3>2 DEF WriteData, SaveInv, TypeOK, Filling, Running, Current
      <3>3. CASE x # s
        BY <1>4, <3>1, <3>3 DEF WriteData, SaveInv, TypeOK, Filling, Running, Current
      <3> QED
        BY <3>2, <3>3
    <2> QED
      BY <2>1, <2>2, <2>3 DEF IInv
  <1>5. CASE SyncData(s)
    <2>1. TypeOK'
      BY <1>5 DEF SyncData, TypeOK, Running, Filling, Inodes, Current
    <2>2. FileInv'
      BY <1>5, SavesAssumption DEF SyncData, FileInv, SaveInv, TypeOK, OverwritesOnlyTheExpected, Filling, Current
    <2>3. \A x \in Saves : SaveInv(x)'
      <3> SUFFICES ASSUME NEW x \in Saves PROVE SaveInv(x)'
        OBVIOUS
      <3>1. SaveInv(x) /\ SaveInv(s)
        OBVIOUS
      <3>2. CASE x = s
        BY <1>5, <3>1, <3>2 DEF SyncData, SaveInv, TypeOK, Filling, Running, Current
      <3>3. CASE x # s
        BY <1>5, <3>1, <3>3 DEF SyncData, SaveInv, TypeOK, Filling, Running, Current
      <3> QED
        BY <3>2, <3>3
    <2> QED
      BY <2>1, <2>2, <2>3 DEF IInv
  <1>6. CASE Check(s)
    <2>1. TypeOK'
      BY <1>6 DEF Check, TypeOK, Running, Filling, Inodes, Current
    <2>2. FileInv'
      BY <1>6, SavesAssumption DEF Check, FileInv, SaveInv, TypeOK, OverwritesOnlyTheExpected, Filling, Current
    <2>3. \A x \in Saves : SaveInv(x)'
      <3> SUFFICES ASSUME NEW x \in Saves PROVE SaveInv(x)'
        OBVIOUS
      <3>1. SaveInv(x) /\ SaveInv(s)
        OBVIOUS
      <3>2. CASE x = s
        BY <1>6, <3>1, <3>2 DEF Check, SaveInv, TypeOK, Filling, Running, Current
      <3>3. CASE x # s
        BY <1>6, <3>1, <3>3 DEF Check, SaveInv, TypeOK, Filling, Running, Current
      <3> QED
        BY <3>2, <3>3
    <2> QED
      BY <2>1, <2>2, <2>3 DEF IInv
  <1>7. CASE Refuse(s)
    <2>1. TypeOK'
      BY <1>7 DEF Refuse, TypeOK, Running, Filling, Inodes, Current
    <2>2. FileInv'
      BY <1>7, SavesAssumption DEF Refuse, FileInv, SaveInv, TypeOK, OverwritesOnlyTheExpected, Filling, Current
    <2>3. \A x \in Saves : SaveInv(x)'
      <3> SUFFICES ASSUME NEW x \in Saves PROVE SaveInv(x)'
        OBVIOUS
      <3>1. SaveInv(x) /\ SaveInv(s)
        OBVIOUS
      <3>2. CASE x = s
        BY <1>7, <3>1, <3>2 DEF Refuse, SaveInv, TypeOK, Filling, Running, Current
      <3>3. CASE x # s
        BY <1>7, <3>1, <3>3 DEF Refuse, SaveInv, TypeOK, Filling, Running, Current
      <3> QED
        BY <3>2, <3>3
    <2> QED
      BY <2>1, <2>2, <2>3 DEF IInv
  <1>8. CASE Fail(s)
    <2>1. TypeOK'
      BY <1>8 DEF Fail, TypeOK, Running, Filling, Inodes, Current
    <2>2. FileInv'
      BY <1>8, SavesAssumption DEF Fail, FileInv, SaveInv, TypeOK, OverwritesOnlyTheExpected, Filling, Current
    <2>3. \A x \in Saves : SaveInv(x)'
      <3> SUFFICES ASSUME NEW x \in Saves PROVE SaveInv(x)'
        OBVIOUS
      <3>1. SaveInv(x) /\ SaveInv(s)
        OBVIOUS
      <3>2. CASE x = s
        BY <1>8, <3>1, <3>2 DEF Fail, SaveInv, TypeOK, Filling, Running, Current
      <3>3. CASE x # s
        BY <1>8, <3>1, <3>3 DEF Fail, SaveInv, TypeOK, Filling, Running, Current
      <3> QED
        BY <3>2, <3>3
    <2> QED
      BY <2>1, <2>2, <2>3 DEF IInv
  <1>9. CASE SyncDir(s)
    <2>1. TypeOK'
      BY <1>9 DEF SyncDir, TypeOK, Running, Filling, Inodes, Current
    <2>2. FileInv'
      BY <1>9, SavesAssumption DEF SyncDir, FileInv, SaveInv, TypeOK, OverwritesOnlyTheExpected, Filling, Current
    <2>3. \A x \in Saves : SaveInv(x)'
      <3> SUFFICES ASSUME NEW x \in Saves PROVE SaveInv(x)'
        OBVIOUS
      <3>1. SaveInv(x) /\ SaveInv(s)
        OBVIOUS
      <3>2. CASE x = s
        BY <1>9, <3>1, <3>2 DEF SyncDir, SaveInv, TypeOK, Filling, Running, Current
      <3>3. CASE x # s
        BY <1>9, <3>1, <3>3 DEF SyncDir, SaveInv, TypeOK, Filling, Running, Current
      <3> QED
        BY <3>2, <3>3
    <2> QED
      BY <2>1, <2>2, <2>3 DEF IInv
  <1>10. CASE SyncDirFails(s)
    <2>1. TypeOK'
      BY <1>10 DEF SyncDirFails, TypeOK, Running, Filling, Inodes, Current
    <2>2. FileInv'
      BY <1>10, SavesAssumption DEF SyncDirFails, FileInv, SaveInv, TypeOK, OverwritesOnlyTheExpected, Filling, Current
    <2>3. \A x \in Saves : SaveInv(x)'
      <3> SUFFICES ASSUME NEW x \in Saves PROVE SaveInv(x)'
        OBVIOUS
      <3>1. SaveInv(x) /\ SaveInv(s)
        OBVIOUS
      <3>2. CASE x = s
        BY <1>10, <3>1, <3>2 DEF SyncDirFails, SaveInv, TypeOK, Filling, Running, Current
      <3>3. CASE x # s
        BY <1>10, <3>1, <3>3 DEF SyncDirFails, SaveInv, TypeOK, Filling, Running, Current
      <3> QED
        BY <3>2, <3>3
    <2> QED
      BY <2>1, <2>2, <2>3 DEF IInv
  <1>11. CASE Finish(s)
    <2>1. TypeOK'
      BY <1>11 DEF Finish, TypeOK, Running, Filling, Inodes, Current
    <2>2. FileInv'
      BY <1>11, SavesAssumption DEF Finish, FileInv, SaveInv, TypeOK, OverwritesOnlyTheExpected, Filling, Current
    <2>3. \A x \in Saves : SaveInv(x)'
      <3> SUFFICES ASSUME NEW x \in Saves PROVE SaveInv(x)'
        OBVIOUS
      <3>1. SaveInv(x) /\ SaveInv(s)
        OBVIOUS
      <3>2. CASE x = s
        BY <1>11, <3>1, <3>2 DEF Finish, SaveInv, TypeOK, Filling, Running, Current
      <3>3. CASE x # s
        BY <1>11, <3>1, <3>3 DEF Finish, SaveInv, TypeOK, Filling, Running, Current
      <3> QED
        BY <3>2, <3>3
    <2> QED
      BY <2>1, <2>2, <2>3 DEF IInv
  <1>12. CASE Age(s)
    <2>1. TypeOK'
      BY <1>12 DEF Age, TypeOK, Running, Filling, Inodes, Current
    <2>2. FileInv'
      BY <1>12, SavesAssumption DEF Age, FileInv, SaveInv, TypeOK, OverwritesOnlyTheExpected, Filling, Current
    <2>3. \A x \in Saves : SaveInv(x)'
      <3> SUFFICES ASSUME NEW x \in Saves PROVE SaveInv(x)'
        OBVIOUS
      <3>1. SaveInv(x) /\ SaveInv(s)
        OBVIOUS
      <3>2. CASE x = s
        BY <1>12, <3>1, <3>2 DEF Age, SaveInv, TypeOK, Filling, Running, Current
      <3>3. CASE x # s
        BY <1>12, <3>1, <3>3 DEF Age, SaveInv, TypeOK, Filling, Running, Current
      <3> QED
        BY <3>2, <3>3
    <2> QED
      BY <2>1, <2>2, <2>3 DEF IInv
  <1>13. CASE Kill(s)
    <2>1. TypeOK'
      BY <1>13 DEF Kill, TypeOK, Running, Filling, Inodes, Current
    <2>2. FileInv'
      BY <1>13, SavesAssumption DEF Kill, FileInv, SaveInv, TypeOK, OverwritesOnlyTheExpected, Filling, Current
    <2>3. \A x \in Saves : SaveInv(x)'
      <3> SUFFICES ASSUME NEW x \in Saves PROVE SaveInv(x)'
        OBVIOUS
      <3>1. SaveInv(x) /\ SaveInv(s)
        OBVIOUS
      <3>2. CASE x = s
        BY <1>13, <3>1, <3>2 DEF Kill, SaveInv, TypeOK, Filling, Running, Current
      <3>3. CASE x # s
        BY <1>13, <3>1, <3>3 DEF Kill, SaveInv, TypeOK, Filling, Running, Current
      <3> QED
        BY <3>2, <3>3
    <2> QED
      BY <2>1, <2>2, <2>3 DEF IInv
  <1> QED
    BY <1>1, <1>2, <1>3, <1>4, <1>5, <1>6, <1>7, <1>8, <1>9, <1>10, <1>11, <1>12, <1>13

\* A sweep removes no temporary that a save is filling: such a one is locked if
\* there are locks, and too new before that.
LEMMA SweepStep ==
  ASSUME IInv, NEW s \in Saves, NEW t \in Saves, Sweep(s, t)
  PROVE  IInv'
  <1> TypeOK /\ FileInv /\ (\A x \in Saves : SaveInv(x))
    BY DEF IInv
  <1>1. TypeOK'
    BY DEF Sweep, TypeOK
  <1>2. FileInv'
    BY DEF Sweep, FileInv, OverwritesOnlyTheExpected
  <1>3. ASSUME NEW x \in Saves PROVE SaveInv(x)'
    BY <1>3 DEF Sweep, SaveInv, TypeOK, Filling, Running, InPlace, Current
  <1> QED
    BY <1>1, <1>2, <1>3 DEF IInv

\* Something is put in place: what was there keeps its position.
LEMMA RenameStep ==
  ASSUME IInv, NEW s \in Saves, Rename(s)
  PROVE  IInv'
  <1> TypeOK /\ FileInv /\ (\A x \in Saves : SaveInv(x)) /\ SaveInv(s)
    BY DEF IInv
  <1> USE DEF Rename, Goes, PutInPlace, DropTemp
  <1> DEFINE n == Len(dests)
  <1>0. s \in Inodes /\ dests \in Seq(Inodes) /\ n \in Nat \ {0} /\ durable \in 1..n
    BY DEF TypeOK, Inodes
  <1>1. /\ dests' \in Seq(Inodes) /\ Len(dests') = n + 1
        /\ \A k \in 1..n : dests'[k] = dests[k]
        /\ dests'[n + 1] = s
    BY <1>0, AppendKeeps
  <1> HIDE DEF n
  <1>2. TypeOK'
    BY <1>0, <1>1 DEF TypeOK, Running, Filling, n
  <1>3. OverwritesOnlyTheExpected'
    <2> SUFFICES ASSUME NEW k \in 2..(n + 1), NEW x \in Saves \ raced',
                        dests'[k] = x, expected[x] # Whatever
                 PROVE  dests'[k - 1] = expected[x]
      BY <1>1 DEF OverwritesOnlyTheExpected
    <2>1. CASE k = n + 1
      BY <1>0, <1>1, <2>1 DEF SaveInv, Current, n, Filling, TypeOK
    <2>2. CASE k # n + 1
      BY <1>0, <1>1, <2>2 DEF FileInv, OverwritesOnlyTheExpected, n
    <2> QED
      BY <2>1, <2>2
  <1>4. FileInv'
    BY <1>0, <1>1, <1>3 DEF FileInv, SaveInv, n
  <1>5. ASSUME NEW x \in Saves PROVE SaveInv(x)'
    <2>1. SaveInv(x) /\ TypeOK
      BY DEF IInv
    <2>2. CASE x = s
      BY <1>0, <1>1, <2>1, <2>2 DEF SaveInv, InPlace, TypeOK, Filling, n
    <2>3. CASE x # s
      <3>1. pc'[x] = pc[x] /\ (InPlace(Len(dests), x) <=> InPlace(Len(dests), x)')
        BY <1>0, <1>1, <2>3 DEF InPlace, TypeOK, n
      <3>2. InPlace(durable, x) => InPlace(durable, x)'
        BY <1>0, <1>1 DEF InPlace, n
      <3>3. pc[x] = "checked" => x \in raced'
        BY <2>3
      <3> QED
        BY <2>1, <2>3, <3>1, <3>2, <3>3 DEF SaveInv, TypeOK, Filling
    <2> QED
      BY <2>2, <2>3
  <1> QED
    BY <1>2, <1>4, <1>5 DEF IInv

(* Another program's replacement of the file keeps the invariant. *)
LEMMA ExternalStep ==
  ASSUME IInv, NEW o \in Others, External(o)
  PROVE  IInv'
  <1> TypeOK /\ FileInv /\ (\A x \in Saves : SaveInv(x))
    BY DEF IInv
  <1> USE DEF External, PutInPlace
  <1> DEFINE n == Len(dests)
  <1>0. o \in Inodes /\ o \notin Saves /\ dests \in Seq(Inodes) /\ n \in Nat \ {0} /\ durable \in 1..n
    BY SavesAssumption DEF TypeOK, Inodes
  <1>1. /\ dests' \in Seq(Inodes) /\ Len(dests') = n + 1
        /\ \A k \in 1..n : dests'[k] = dests[k]
        /\ dests'[n + 1] = o
    BY <1>0, AppendKeeps
  <1> HIDE DEF n
  <1>2. TypeOK'
    BY <1>0, <1>1 DEF TypeOK, n
  <1>3. OverwritesOnlyTheExpected'
    <2> SUFFICES ASSUME NEW k \in 2..(n + 1), NEW x \in Saves \ raced',
                        dests'[k] = x, expected[x] # Whatever
                 PROVE  dests'[k - 1] = expected[x]
      BY <1>1 DEF OverwritesOnlyTheExpected
    <2>1. k # n + 1
      BY <1>0, <1>1
    <2> QED
      BY <1>0, <1>1, <2>1 DEF FileInv, OverwritesOnlyTheExpected, n
  <1>4. FileInv'
    BY <1>0, <1>1, <1>3 DEF FileInv, n
  <1>5. ASSUME NEW x \in Saves PROVE SaveInv(x)'
    <2>1. SaveInv(x)
      BY DEF IInv
    <2>2. /\ InPlace(Len(dests), x) <=> InPlace(Len(dests), x)'
          /\ InPlace(durable, x) => InPlace(durable, x)'
      BY <1>0, <1>1 DEF InPlace, n
    <2>3. pc[x] = "checked" => x \in raced'
      BY <1>0
    <2> QED
      BY <2>1, <2>2, <2>3 DEF SaveInv, Filling
  <1> QED
    BY <1>2, <1>4, <1>5 DEF IInv

\* A power loss keeps a prefix of what the destination has been, and no save
\* survives it that knows of the rest.
LEMMA PowerLossStep ==
  ASSUME IInv, PowerLoss
  PROVE  IInv'
  <1> TypeOK /\ FileInv /\ (\A x \in Saves : SaveInv(x))
    BY DEF IInv
  <1> PICK k \in durable..Len(dests) : dests' = SubSeq(dests, 1, k) /\ durable' = k
    BY DEF PowerLoss
  <1> PICK left \in SUBSET {s \in Saves : pc[s] \notin {"idle", "open"}} :
        temps' = left /\ aged' = left \cap aged
    BY DEF PowerLoss
  <1>0. dests \in Seq(Inodes) /\ Len(dests) \in Nat /\ durable \in 1..Len(dests) /\ k \in 1..Len(dests)
    BY DEF TypeOK
  <1>1. /\ dests' \in Seq(Inodes) /\ Len(dests') = k
        /\ \A j \in 1..k : dests'[j] = dests[j]
    BY <1>0, PrefixKeeps
  <1>2. /\ pc' = [s \in Saves |-> IF pc[s] \in Running THEN "killed" ELSE pc[s]]
        /\ whole' = whole \cap synced
        /\ locked' = {}
        /\ UNCHANGED <<lockable, expected, synced, told, raced>>
    BY DEF PowerLoss
  <1>3. TypeOK'
    BY <1>0, <1>1, <1>2 DEF TypeOK, Running, Filling
  <1>4. FileInv'
    BY <1>0, <1>1, <1>2 DEF FileInv, OverwritesOnlyTheExpected
  <1>5. ASSUME NEW x \in Saves PROVE SaveInv(x)'
    <2>1. SaveInv(x) /\ pc \in [Saves -> Running \cup {"idle", "ended", "killed"}]
      BY DEF IInv, TypeOK
    <2>2. pc'[x] \in {"idle", "ended", "killed"}
      BY <1>2, <2>1
    <2>3. pc[x] = "idle" => ~InPlace(Len(dests), x)' /\ x \notin temps'
      BY <1>0, <1>1, <2>1 DEF SaveInv, InPlace
    <2>4. pc'[x] = "idle" => pc[x] = "idle"
      BY <1>2, <2>1
    <2>5. pc'[x] # "ended" => told'[x] = "nothing"
      BY <1>2, <2>1 DEF SaveInv, Running, Filling
    <2> QED
      BY <2>2, <2>3, <2>4, <2>5 DEF SaveInv, Filling
  <1> QED
    BY <1>3, <1>4, <1>5 DEF IInv

(* Every step keeps it. *)
LEMMA NextInv == IInv /\ [Next]_vars => IInv'
  <1> SUFFICES ASSUME IInv, [Next]_vars PROVE IInv'
    OBVIOUS
  <1>1. ASSUME NEW s \in Saves, Step(s) PROVE IInv'
    BY <1>1, QuietStep, RenameStep, SweepStep DEF Step
  <1>2. ASSUME NEW s \in Saves, Age(s) \/ Kill(s) PROVE IInv'
    BY <1>2, QuietStep
  <1>3. CASE UNCHANGED vars
    BY <1>3 DEF vars, IInv, TypeOK, FileInv, SaveInv, InPlace, OverwritesOnlyTheExpected, Current
  <1> QED
    BY <1>1, <1>2, <1>3, ExternalStep, PowerLossStep DEF Next

\* The inductive invariant holds of every behaviour.
THEOREM Safety == Spec => []IInv
  BY InitInv, NextInv, PTL DEF Spec

\* Every state of the directory and its saves is one their types allow.
THEOREM TypesHold == Spec => []TypeOK
  <1>1. IInv => TypeOK
    BY DEF IInv
  <1> QED
    BY <1>1, Safety, PTL

\* No sweep removes a temporary that another save is filling.
THEOREM SweepIsSafe == Spec => []SweepSparesLive
  <1>1. IInv => SweepSparesLive
    BY DEF IInv, SaveInv, SweepSparesLive
  <1> QED
    BY <1>1, Safety, PTL

\* A conditional save replaces only the version it was checked against, but for
\* what changes between its check and its rename.
THEOREM ConditionalSaves == Spec => []OverwritesOnlyTheExpected
  <1>1. IInv => OverwritesOnlyTheExpected
    BY DEF IInv, FileInv
  <1> QED
    BY <1>1, Safety, PTL

-----------------------------------------------------------------------------
(* The refinement.  Whatever the destination has pointed to was whole, so the *)
(* versions of the abstract file are the inodes themselves.                   *)
Versions == [k \in 1..Len(dests) |-> Contents(dests[k])]

(* The versions of the abstract file are the inodes. *)
LEMMA VersionsAreDests == IInv => Versions = dests
  <1> SUFFICES ASSUME IInv PROVE Versions = dests
    OBVIOUS
  <1>1. dests \in Seq(Inodes) /\ dests = [k \in 1..Len(dests) |-> dests[k]]
    BY DEF IInv, TypeOK
  <1>2. \A k \in 1..Len(dests) : Contents(dests[k]) = dests[k]
    BY DEF IInv, FileInv, Contents
  <1> QED
    BY <1>1, <1>2 DEF Versions

(* The first state is a first state of the abstract file. *)
LEMMA InitRefines == Init => Promise!Init
  <1> SUFFICES ASSUME Init PROVE Promise!Init
    OBVIOUS
  <1>1. Versions = <<Original>>
    BY InitInv, VersionsAreDests DEF Init
  <1> QED
    BY <1>1 DEF Init, Promise!Init, Versions

(* Every step is a step of the abstract file, or leaves it alone. *)
LEMMA NextRefines ==
  ASSUME IInv, IInv', [Next]_vars
  PROVE  [Promise!Next]_(Promise!vars)
  <1>1. Versions = dests
    BY VersionsAreDests
  <1>2. Versions' = dests'
    <2>1. dests' \in Seq(Inodes) /\ dests' = [k \in 1..Len(dests') |-> dests'[k]]
      BY DEF IInv, TypeOK, Inodes
    <2>2. \A k \in 1..Len(dests') : Contents(dests[k])' = dests'[k]
      BY DEF IInv, FileInv, Contents
    <2> QED
      BY <2>1, <2>2 DEF Versions
  <1>3. dests \in Seq(Inodes) /\ Len(dests) \in Nat \ {0} /\ durable \in 1..Len(dests)
    BY DEF IInv, TypeOK
  <1>4. CASE UNCHANGED <<dests, durable, told>>
    BY <1>1, <1>2, <1>4 DEF Promise!vars, Versions
  <1>5. ASSUME NEW s \in Saves,
               Open(s) \/ CreateTemp(s) \/ Claim(s) \/ WriteData(s) \/ SyncData(s)
               \/ Check(s) \/ (\E t \in Saves : Sweep(s, t)) \/ Age(s) \/ Kill(s)
        PROVE  UNCHANGED <<dests, durable, told>>
    BY <1>5 DEF Open, CreateTemp, Claim, WriteData, SyncData, Check, Sweep, Age, Kill
  <1>6. ASSUME NEW s \in Saves, Refuse(s) \/ Fail(s)
        PROVE  Promise!Tell(s)
    <2>1. SaveInv(s)
      BY DEF IInv
    <2>2. told[s] = "nothing" /\ ~InPlace(Len(dests), s)
      BY <1>6, <2>1 DEF SaveInv, Refuse, Fail, Goes, Filling
    <2>3. UNCHANGED <<dests, durable>> /\ Versions' = Versions
      BY <1>1, <1>2, <1>6 DEF Refuse, Fail
    <2>4. Len(Versions) = Len(dests)
      BY <1>1
    <2>5. ~Promise!Holds(Len(Versions), s)
      BY <1>1, <2>2, <2>4 DEF Promise!Holds, InPlace, Versions
    <2> DEFINE answer == IF Refuse(s) THEN "refused" ELSE "failed"
    <2>6. told' = [told EXCEPT ![s] = answer]
      BY <1>6 DEF Refuse, Fail
    <2> QED
      BY <2>2, <2>3, <2>5, <2>6 DEF Promise!Tell, Versions
  <1>7. ASSUME NEW s \in Saves, SyncDirFails(s)
        PROVE  Promise!Tell(s)
    <2>1. told[s] = "nothing" /\ InPlace(Len(dests), s)
      BY <1>7 DEF IInv, SaveInv, SyncDirFails, Goes
    <2>2. UNCHANGED <<dests, durable>> /\ Versions' = Versions /\ Len(Versions) = Len(dests)
      BY <1>1, <1>2, <1>7 DEF SyncDirFails
    <2>3. Promise!Holds(Len(Versions), s)
      BY <1>1, <2>1, <2>2 DEF Promise!Holds, InPlace, Versions
    <2>4. told' = [told EXCEPT ![s] = "unsynced"]
      BY <1>7 DEF SyncDirFails
    <2> QED
      BY <2>1, <2>2, <2>3, <2>4 DEF Promise!Tell, Versions
  <1>8. ASSUME NEW s \in Saves, Finish(s)
        PROVE  Promise!Tell(s)
    <2>1. told[s] = "nothing" /\ InPlace(durable, s)
      BY <1>8 DEF IInv, SaveInv, Finish, Goes
    <2>2. UNCHANGED <<dests, durable>> /\ Versions' = Versions
      BY <1>1, <1>2, <1>8 DEF Finish
    <2>3. Promise!Holds(durable, s)
      BY <1>1, <2>1, <2>2 DEF Promise!Holds, InPlace, Versions
    <2>4. told' = [told EXCEPT ![s] = "saved"]
      BY <1>8 DEF Finish
    <2> QED
      BY <2>1, <2>2, <2>3, <2>4 DEF Promise!Tell, Versions
  <1>9. ASSUME NEW s \in Saves, SyncDir(s)
        PROVE  Promise!Settle
    BY <1>1, <1>2, <1>9 DEF SyncDir, Promise!Settle, Versions
  <1>10. ASSUME NEW s \in Saves, Rename(s)
         PROVE  Promise!Replace(s)
    <2>1. told[s] = "nothing"
      BY <1>10 DEF IInv, SaveInv, Rename, Goes
    <2>2. dests' = Append(dests, s) /\ UNCHANGED <<durable, told>>
      BY <1>10 DEF Rename, PutInPlace
    <2> QED
      BY <1>1, <1>2, <2>1, <2>2 DEF Promise!Replace, Versions
  <1>11. ASSUME NEW o \in Others, External(o)
         PROVE  Promise!Replace(o)
    <2>1. told[o] = "nothing"
      BY DEF IInv, FileInv
    <2>2. dests' = Append(dests, o) /\ UNCHANGED <<durable, told>>
      BY <1>11 DEF External, PutInPlace
    <2> QED
      BY <1>1, <1>2, <2>1, <2>2 DEF Promise!Replace, Versions
  <1>12. CASE PowerLoss
    <2>1. Len(Versions) = Len(dests)
      BY <1>1
    <2>2. Promise!PowerLoss
      BY <1>1, <1>2, <1>12, <2>1 DEF PowerLoss, Promise!PowerLoss, Versions
    <2> QED
      BY <2>2 DEF Promise!Next
  <1>13. CASE \E s \in Saves : Step(s) \/ Age(s) \/ Kill(s)
    BY <1>4, <1>5, <1>6, <1>7, <1>8, <1>9, <1>10, <1>13 DEF Step, Promise!Next
  <1>14. CASE \E o \in Others : External(o)
    BY <1>11, <1>14 DEF Promise!Next
  <1> QED
    BY <1>4, <1>12, <1>13, <1>14 DEF Next, vars

\* Saves implement the atomic file: the detailed steps map to steps of the
\* abstract specification or to none of them.
THEOREM SavesAreAtomic == Spec => IsAtomicFile
  <1>1. IInv /\ IInv' /\ [Next]_vars => [Promise!Next]_(Promise!vars)
    BY NextRefines
  <1> QED
    BY <1>1, InitRefines, Safety, PTL DEF Spec, IsAtomicFile, Promise!Spec
=============================================================================
