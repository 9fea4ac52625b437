----------------------------- MODULE EpochsProofs -----------------------------
(***************************************************************************)
(* Epochs of a shared document, for any members, people, items and bounds: *)
(* what was acknowledged stays readable, the latest epoch can be written   *)
(* into, and a removed member holds none of its keys, whatever rotations,  *)
(* seals, publishes and crashes come between each other.                   *)
(*                                                                         *)
(* The argument is about who may touch which stream.  A stream is only     *)
(* closed when its epoch is followed, only deleted by the client that made *)
(* it and lost, and only ever grows; an epoch begun by one client is not   *)
(* begun by another.                                                       *)
(***************************************************************************)
EXTENDS Epochs, TLAPS

EpochRecords == [n : Nat, id : Attempts, prev : Nat, by : Members,
                 asked : Members \X Roles, roster : [Members -> Roles]]
Messages == [k : Kinds, item : Items, call : Nat, by : Members] \cup {Seal}
Streams == [is : {"absent", "open", "closed"}, has : Seq(Messages)]
Posts == [at : {"posting", "again"}, item : Items, id : Attempts, sends : 1 .. Sends, rounds : Nat]
Rotations == [at : {"healing"}, todo : SUBSET (Attempts \X Kinds), asked : Members \X Roles,
              roster : [Members -> Roles], n : Nat, prev : Nat]
Sealings == [at : {"sealing"}, todo : SUBSET (Attempts \X Kinds)]

Shape ==
  /\ epochs \in Seq(EpochRecords)
  /\ streams \in [Attempts -> [Kinds -> Streams]]
  /\ begun \in 0 .. MaxAttempts
  /\ share \in 0 .. Failed
  /\ calls \in [Items -> 0 .. MaxCalls]
  /\ told \subseteq Items
  /\ DOMAIN op = Members

NoSeal(has) == \A j \in 1 .. Len(has) : has[j].k # "seal"

(* Epochs have streams of their own, the latest one's are open, and no open   *)
(* stream of an epoch has a seal in it.                                      *)
EpochInv ==
  /\ \A n \in 1 .. Len(epochs) : epochs[n].id \in 1 .. begun
  /\ \A m, n \in 1 .. Len(epochs) : epochs[m].id = epochs[n].id => m = n
  /\ epochs # <<>> => \A k \in Kinds : streams[epochs[Len(epochs)].id][k].is = "open"
  /\ \A n \in 1 .. Len(epochs), k \in Kinds :
       streams[epochs[n].id][k].is = "open" => NoSeal(streams[epochs[n].id][k].has)

(* Item i is in the part of a stream that counts, from somebody who may write. *)
CountsAt(has, j, i, rec) ==
  /\ has[j].item = i
  /\ MayWrite(has[j].by, rec)
  /\ \A l \in 1 .. j : has[l].k # "seal"
Holds(n, k, i) ==
  \E j \in 1 .. Len(streams[epochs[n].id][k].has) :
     CountsAt(streams[epochs[n].id][k].has, j, i, epochs[n])

ToldInv == \A i \in told : \E n \in 1 .. Len(epochs) : Holds(n, Kind[i], i)

(* While share is under way nobody but the sharer does anything, and before   *)
(* the first epoch the sharer only announces it.                             *)
SharingInv ==
  /\ share # Open => \A c \in Members \ {Sharer} : op[c].at = "idle"
  /\ epochs = <<>> => share \in {0, Failed} /\ \A c \in Members : op[c].at \in {"idle", "announcing"}
  /\ op[Sharer].at = "announcing" =>
       share = 0 /\ epochs = <<>> /\ begun = 1 /\ streams[1] = [k \in Kinds |-> Opened]

Making(c) == op[c].at \in {"created", "checking"}

(* What a client knows in the middle of an operation: it posts into streams   *)
(* of an epoch, seals only finished ones, and an epoch it made is nobody     *)
(* else's and stands where its record says, if it counts.                    *)
ClientInv(c) ==
  /\ op[c].at \in {"idle", "announcing", "posting", "again", "asked", "healing", "sealing",
                   "created", "checking"}
  /\ op[c].at = "announcing" => c = Sharer
  /\ op[c].at \in {"posting", "again"} => op[c] \in Posts
  /\ op[c].at = "again" => op[c].rounds > 1
  /\ op[c].at = "posting" =>
       \E n \in 1 .. Len(epochs) : epochs[n].id = op[c].id /\ MayWrite(c, epochs[n])
  /\ op[c].at = "asked" => op[c].roster \in [Members -> Roles] /\ op[c].asked \in Members \X Roles
  /\ op[c].at = "healing" => op[c] \in Rotations
  /\ op[c].at = "sealing" => op[c] \in Sealings
  /\ op[c].at \in {"healing", "sealing"} =>
       \A s \in op[c].todo : \E n \in 1 .. Len(epochs) - 1 : s[1] = epochs[n].id
  /\ Making(c) => op[c].rec \in EpochRecords /\ op[c].rec.id \in 1 .. begun
  /\ op[c].at = "created" => \A n \in 1 .. Len(epochs) : epochs[n].id # op[c].rec.id
  /\ op[c].at = "created" => streams[op[c].rec.id] = [k \in Kinds |-> Opened]
  /\ op[c].at = "checking" =>
       \A n \in 1 .. Len(epochs) : epochs[n].id = op[c].rec.id => n = op[c].rec.n + 1

PairInv ==
  \A c, d \in Members : c # d /\ Making(c) /\ Making(d) => op[c].rec.id # op[d].rec.id

IInv ==
  /\ Shape
  /\ EpochInv
  /\ ToldInv
  /\ SharingInv
  /\ \A c \in Members : ClientInv(c)
  /\ PairInv

USE EpochsAssumption

-----------------------------------------------------------------------------
(* A document nobody has created. *)
LEMMA InitIInv == Init => IInv
<1> SUFFICES ASSUME Init PROVE IInv
  OBVIOUS
<1> USE DEF Init
<1>1. Shape
  BY DEF Shape, Absent, Streams, Failed, Idle
<1>2. EpochInv /\ ToldInv
  BY DEF EpochInv, ToldInv
<1>3. SharingInv /\ PairInv /\ \A c \in Members : ClientInv(c)
  BY DEF SharingInv, PairInv, Making, ClientInv, Idle
<1> QED BY <1>1, <1>2, <1>3 DEF IInv

(* share goes on only while the document is not shared. *)
LEMMA EndsShare ==
  ASSUME share \in 0 .. Failed, NEW c \in Members, NEW ok \in BOOLEAN, Ends(c, ok)
  PROVE  /\ share' \in 0 .. Failed
         /\ share = Open => share' = Open
         /\ c # Sharer => share' = share
BY DEF Ends, Failed, Open

(* The others are not disturbed by a step that leaves their own epoch's       *)
(* streams alone and adds at most the acting client's epoch.                 *)
LEMMA OthersKeep ==
  ASSUME IInv, NEW c \in Members, NEW d \in Members \ {c},
         op'[d] = op[d], begun' \in Nat, begun' >= begun,
         \/ epochs' = epochs
         \/ op[c].at = "created" /\ epochs' = Append(epochs, op[c].rec),
         op[d].at = "created" => streams'[op[d].rec.id] = streams[op[d].rec.id]
  PROVE  ClientInv(d)'
<1>1. ClientInv(d) /\ begun \in Nat /\ epochs \in Seq(EpochRecords)
  BY DEF IInv, Shape
<1>2. CASE epochs' = epochs
  BY <1>1, <1>2 DEF ClientInv, Making, MayWrite
<1>3. CASE op[c].at = "created" /\ epochs' = Append(epochs, op[c].rec)
  <2>1. /\ Len(epochs') = Len(epochs) + 1
        /\ \A n \in 1 .. Len(epochs) : epochs'[n] = epochs[n]
        /\ epochs'[Len(epochs) + 1] = op[c].rec
    <3>1. op[c].rec \in EpochRecords
      BY <1>3 DEF IInv, ClientInv, Making
    <3> QED BY <1>1, <1>3, <3>1
  <2>2. Making(d) => op[d].rec.id # op[c].rec.id
    BY <1>3 DEF IInv, PairInv, Making
  <2>3. Len(epochs) \in Nat
    BY <1>1
  <2>4. ASSUME op'[d].at = "posting"
        PROVE  \E n \in 1 .. Len(epochs') : epochs'[n].id = op'[d].id /\ MayWrite(d, epochs'[n])
    <3>1. PICK n \in 1 .. Len(epochs) : epochs[n].id = op[d].id /\ MayWrite(d, epochs[n])
      BY <1>1, <2>4 DEF ClientInv
    <3>2. n \in 1 .. Len(epochs') /\ epochs'[n] = epochs[n]
      BY <2>1, <2>3
    <3> QED BY <3>1, <3>2
  <2>5. ASSUME op'[d].at \in {"healing", "sealing"}, NEW s \in op'[d].todo
        PROVE  \E n \in 1 .. Len(epochs') - 1 : s[1] = epochs'[n].id
    <3>1. PICK n \in 1 .. Len(epochs) - 1 : s[1] = epochs[n].id
      BY <1>1, <2>5 DEF ClientInv
    <3>2. n \in 1 .. Len(epochs') - 1 /\ epochs'[n] = epochs[n]
      BY <2>1, <2>3
    <3> QED BY <3>1, <3>2
  <2>6. ASSUME op'[d].at = "created", NEW n \in 1 .. Len(epochs')
        PROVE  epochs'[n].id # op'[d].rec.id
    <3>1. n \in 1 .. Len(epochs) \/ n = Len(epochs) + 1
      BY <2>1, <2>3
    <3> QED BY <1>1, <2>1, <2>2, <2>6, <3>1 DEF ClientInv, Making
  <2>7. ASSUME op'[d].at = "checking", NEW n \in 1 .. Len(epochs'), epochs'[n].id = op'[d].rec.id
        PROVE  n = op'[d].rec.n + 1
    <3>1. n \in 1 .. Len(epochs) \/ n = Len(epochs) + 1
      BY <2>1, <2>3
    <3> QED BY <1>1, <2>1, <2>2, <2>7, <3>1 DEF ClientInv, Making
  <2> QED BY <1>1, <2>4, <2>5, <2>6, <2>7 DEF ClientInv, Making, MayWrite
<1> QED BY <1>2, <1>3

(* Whoever acts once there is an epoch keeps the others out of share. *)
LEMMA SharingKeeps ==
  ASSUME IInv, NEW c \in Members, epochs # <<>>, epochs' # <<>>,
         op[c].at # "idle" \/ share = Open \/ c = Sharer,
         \A d \in Members \ {c} : op'[d] = op[d],
         op'[c].at # "announcing",
         share' = share \/ \E ok \in BOOLEAN : Ends(c, ok)
  PROVE  SharingInv' /\ share' \in 0 .. Failed
<1>1. share' \in 0 .. Failed /\ (share = Open => share' = Open) /\ (c # Sharer => share' = share)
  BY EndsShare DEF IInv, Shape
<1>2. share # Open => c = Sharer
  BY DEF IInv, SharingInv
<1>3. op'[Sharer].at # "announcing"
  BY DEF IInv, SharingInv
<1>4. share' # Open => \A d \in Members \ {Sharer} : op'[d].at = "idle"
  BY <1>1, <1>2 DEF IInv, SharingInv
<1> QED BY <1>1, <1>3, <1>4 DEF SharingInv, Open

(* A step that only moves its client along. *)
LEMMA QuietStep ==
  ASSUME IInv, NEW c \in Members, epochs # <<>>, NEW what,
         op[c].at # "idle" \/ share = Open \/ c = Sharer,
         Does(c, what), what.at # "announcing",
         what.at \in {"created", "checking"} => Making(c) /\ what.rec = op[c].rec,
         share' = share \/ \E ok \in BOOLEAN : Ends(c, ok),
         calls' \in [Items -> 0 .. MaxCalls],
         UNCHANGED <<epochs, streams, begun, told>>,
         ClientInv(c)'
  PROVE  IInv'
<1>1. /\ op'[c] = what
      /\ DOMAIN op' = Members
      /\ \A d \in Members \ {c} : op'[d] = op[d]
  BY DEF Does, IInv, Shape
<1>2. SharingInv' /\ share' \in 0 .. Failed
  BY <1>1, SharingKeeps
<1>3. Shape'
  BY <1>1, <1>2 DEF IInv, Shape
<1>4. EpochInv'
  BY DEF IInv, EpochInv
<1>5. ToldInv'
  <2>1. epochs' = epochs /\ streams' = streams /\ told' = told
    OBVIOUS
  <2>2. ASSUME NEW i \in told, NEW n \in 1 .. Len(epochs), Holds(n, Kind[i], i)
        PROVE  Holds(n, Kind[i], i)'
    BY <2>1, <2>2 DEF Holds, CountsAt, MayWrite
  <2> QED BY <2>1, <2>2 DEF IInv, ToldInv
<1>6. \A d \in Members : ClientInv(d)'
  <2> SUFFICES ASSUME NEW d \in Members \ {c} PROVE ClientInv(d)'
    OBVIOUS
  <2>1. begun' \in Nat /\ begun' >= begun
    BY DEF IInv, Shape
  <2>2. op'[d] = op[d] /\ epochs' = epochs /\ streams' = streams
    BY <1>1
  <2> QED BY <2>1, <2>2, OthersKeep
<1>7. PairInv'
  BY <1>1 DEF IInv, PairInv, Making
<1> QED BY <1>2, <1>3, <1>4, <1>5, <1>6, <1>7 DEF IInv

(* An operation that just ends. *)
LEMMA EndStep ==
  ASSUME IInv, NEW c \in Members, NEW ok \in BOOLEAN, epochs # <<>>, op[c].at # "idle",
         Ends(c, ok), UNCHANGED <<epochs, streams, begun, told, calls>>
  PROVE  IInv'
<1>1. Does(c, Idle) /\ Idle.at = "idle"
  BY DEF Ends, Idle
<1>2. op'[c] = Idle
  BY <1>1 DEF Does, IInv, Shape
<1>3. ClientInv(c)'
  BY <1>1, <1>2 DEF ClientInv, Making
<1>4. calls' \in [Items -> 0 .. MaxCalls]
  BY DEF IInv, Shape
<1> QED BY <1>1, <1>3, <1>4, QuietStep

(* Whoever is in the middle of something but share's first call is so in a    *)
(* document that has an epoch.                                               *)
LEMMA SharedHasEpoch ==
  ASSUME IInv, NEW c \in Members,
         op[c].at \notin {"idle", "announcing"} \/ share = Open
  PROVE  epochs # <<>>
BY DEF IInv, SharingInv, Open, Failed

-----------------------------------------------------------------------------
(* The steps that change no stream and no epoch *)

(* A publish begins with a record for the latest epoch. *)
LEMMA StartPublishKeeps ==
  ASSUME IInv, NEW c \in Members, NEW i \in Items, StartPublish(c, i)
  PROVE  IInv'
<1>1. op[c].at = "idle" /\ (share = Open \/ c = Sharer)
  BY DEF StartPublish, Free, SharerCalls
<1>2. epochs # <<>>
  BY SharedHasEpoch DEF StartPublish, Free, SharerCalls
<1>3. Len(epochs) \in 1 .. Len(epochs) /\ epochs[Len(epochs)] \in EpochRecords
  BY <1>2 DEF IInv, Shape
<1> DEFINE what == [at |-> "posting", item |-> i, id |-> Latest.id, sends |-> Sends, rounds |-> Rounds]
<1>4. Does(c, what) /\ what.at = "posting"
  BY DEF StartPublish
<1>5. op'[c] = what
  BY <1>4 DEF Does, IInv, Shape
<1>6. what \in Posts
  BY <1>3 DEF Posts, Latest, Last, EpochRecords
<1>7. \E n \in 1 .. Len(epochs) : epochs[n].id = what.id /\ MayWrite(c, epochs[n])
  BY <1>3 DEF StartPublish, Latest, Last
<1>8. ClientInv(c)'
  BY <1>5, <1>6, <1>7 DEF ClientInv, StartPublish, Making, MayWrite
<1>9. calls' \in [Items -> 0 .. MaxCalls]
  BY DEF StartPublish, IInv, Shape
<1> HIDE DEF what
<1> QED BY <1>1, <1>2, <1>4, <1>8, <1>9, QuietStep DEF StartPublish

(* A request that failed, or the last seal: the operation ends. *)
LEMMA PostLostKeeps ==
  ASSUME IInv, NEW c \in Members, PostLost(c) \/ Sealed(c)
  PROVE  IInv'
<1>1. op[c].at \in {"posting", "sealing"} /\ \E ok \in BOOLEAN : Ends(c, ok)
  BY DEF PostLost, Sealed
<1> QED BY <1>1, SharedHasEpoch, EndStep DEF PostLost, Sealed

(* An epoch that was sealed meanwhile is read about again, or given up. *)
LEMMA PostSealedKeeps ==
  ASSUME IInv, NEW c \in Members, PostSealed(c)
  PROVE  IInv'
<1>1. op[c].at = "posting" /\ epochs # <<>>
  BY SharedHasEpoch DEF PostSealed
<1>2. CASE op[c].rounds > 1
  <2> DEFINE what == [op[c] EXCEPT !.at = "again"]
  <2>1. op[c] \in Posts
    BY <1>1 DEF IInv, ClientInv
  <2>2. what \in Posts /\ what.at = "again" /\ what.rounds > 1
    BY <1>2, <2>1 DEF Posts
  <2>3. Does(c, what) /\ share' = share
    BY <1>2 DEF PostSealed
  <2>4. op'[c] = what
    BY <2>3 DEF Does, IInv, Shape
  <2> HIDE DEF what
  <2>5. ClientInv(c)'
    BY <2>2, <2>4 DEF ClientInv, Making
  <2>6. calls' \in [Items -> 0 .. MaxCalls]
    BY DEF PostSealed, IInv, Shape
  <2> QED BY <1>1, <2>2, <2>3, <2>5, <2>6, QuietStep DEF PostSealed
<1>3. CASE ~(op[c].rounds > 1)
  BY <1>1, <1>3, EndStep DEF PostSealed
<1> QED BY <1>2, <1>3

(* The record is made anew for the epoch that is now the latest. *)
LEMMA PublishAgainKeeps ==
  ASSUME IInv, NEW c \in Members, PublishAgain(c)
  PROVE  IInv'
<1>1. op[c].at = "again" /\ epochs # <<>>
  BY SharedHasEpoch DEF PublishAgain
<1>2. CASE MayWrite(c, Latest)
  <2> DEFINE what == [at |-> "posting", item |-> op[c].item, id |-> Latest.id, sends |-> Sends,
                      rounds |-> op[c].rounds - 1]
  <2>1. Len(epochs) \in 1 .. Len(epochs) /\ epochs[Len(epochs)] \in EpochRecords
    BY <1>1 DEF IInv, Shape
  <2>2. op[c] \in Posts /\ op[c].rounds > 1
    BY <1>1 DEF IInv, ClientInv
  <2>3. what \in Posts /\ what.at = "posting" /\ what.id = Latest.id
    <3>1. Latest.id \in Attempts
      BY <2>1 DEF Latest, Last, EpochRecords
    <3>2. op[c].rounds - 1 \in Nat /\ Sends \in 1 .. Sends
      BY <2>2 DEF Posts
    <3>3. op[c].item \in Items
      BY <2>2 DEF Posts
    <3> QED BY <3>1, <3>2, <3>3 DEF Posts
  <2>4. Does(c, what) /\ share' = share
    BY <1>2 DEF PublishAgain
  <2>5. op'[c] = what
    BY <2>4 DEF Does, IInv, Shape
  <2> HIDE DEF what
  <2>6. \E n \in 1 .. Len(epochs) : epochs[n].id = what.id /\ MayWrite(c, epochs[n])
    BY <1>2, <2>1, <2>3 DEF Latest, Last
  <2>7. ClientInv(c)'
    BY <2>3, <2>5, <2>6 DEF ClientInv, Making, MayWrite, PublishAgain
  <2>8. calls' \in [Items -> 0 .. MaxCalls]
    BY DEF PublishAgain, IInv, Shape
  <2> QED BY <1>1, <2>3, <2>4, <2>7, <2>8, QuietStep DEF PublishAgain
<1>3. CASE ~MayWrite(c, Latest)
  BY <1>1, <1>3, EndStep DEF PublishAgain
<1> QED BY <1>2, <1>3

(* grant and revoke make a roster out of the latest one. *)
LEMMA AskChangeKeeps ==
  ASSUME IInv, NEW c \in Members, NEW m \in Members, NEW r \in Roles, AskChange(c, m, r)
  PROVE  IInv'
<1>1. op[c].at = "idle" /\ (share = Open \/ c = Sharer)
  BY DEF AskChange, Free, SharerCalls
<1>2. epochs # <<>>
  BY SharedHasEpoch DEF AskChange, Free, SharerCalls
<1> DEFINE what == [at |-> "asked", asked |-> <<m, r>>, roster |-> [Latest.roster EXCEPT ![m] = r]]
<1>3. Does(c, what) /\ what.at = "asked"
  BY DEF AskChange
<1>4. op'[c] = what
  BY <1>3 DEF Does, IInv, Shape
<1>5. epochs[Len(epochs)] \in EpochRecords
  BY <1>2 DEF IInv, Shape
<1>6. what.roster \in [Members -> Roles] /\ what.asked \in Members \X Roles
  BY <1>5 DEF Latest, Last, EpochRecords
<1> HIDE DEF what
<1>7. ClientInv(c)'
  BY <1>3, <1>4, <1>6 DEF ClientInv, Making
<1>8. calls' \in [Items -> 0 .. MaxCalls]
  BY DEF AskChange, IInv, Shape
<1> QED BY <1>1, <1>2, <1>3, <1>7, <1>8, QuietStep DEF AskChange

(* What complete_seals means to seal are streams of finished epochs. *)
LEMMA ToSealIsFinished ==
  ASSUME NEW c \in Members
  PROVE  /\ ToSeal(c) \subseteq Attempts \X Kinds
         /\ \A s \in ToSeal(c) : \E n \in 1 .. Len(epochs) - 1 : s[1] = epochs[n].id
BY DEF ToSeal

(* rotate begins with what is left to seal. *)
LEMMA StartRotationKeeps ==
  ASSUME IInv, NEW c \in Members, StartRotation(c)
  PROVE  IInv'
<1>1. op[c].at = "asked" /\ epochs # <<>>
  BY SharedHasEpoch DEF StartRotation
<1>2. CASE Latest.roster[c] = "owner"
  <2> DEFINE what == [at |-> "healing", todo |-> ToSeal(c), asked |-> op[c].asked,
                      roster |-> op[c].roster, n |-> Latest.n + 1, prev |-> Latest.id]
  <2>1. epochs[Len(epochs)] \in EpochRecords
    BY <1>1 DEF IInv, Shape
  <2>2. Latest.n + 1 \in Nat /\ Latest.id \in Nat
    BY <2>1 DEF Latest, Last, EpochRecords, Attempts
  <2>3. op[c].roster \in [Members -> Roles] /\ op[c].asked \in Members \X Roles
    BY <1>1 DEF IInv, ClientInv
  <2>4. what \in Rotations /\ what.at = "healing" /\ what.todo = ToSeal(c)
    BY <2>2, <2>3, ToSealIsFinished DEF Rotations
  <2>5. Does(c, what) /\ share' = share
    BY <1>2 DEF StartRotation
  <2>6. op'[c] = what
    BY <2>5 DEF Does, IInv, Shape
  <2> HIDE DEF what
  <2>7. ClientInv(c)'
    BY <2>4, <2>6, ToSealIsFinished DEF ClientInv, Making, StartRotation
  <2>8. calls' \in [Items -> 0 .. MaxCalls]
    BY DEF StartRotation, IInv, Shape
  <2> QED BY <1>1, <2>4, <2>5, <2>7, <2>8, QuietStep DEF StartRotation
<1>3. CASE ~(Latest.roster[c] = "owner")
  BY <1>1, <1>3, EndStep DEF StartRotation
<1> QED BY <1>2, <1>3

(* heal has finished epochs to seal. *)
LEMMA HealKeeps ==
  ASSUME IInv, NEW c \in Members, Heal(c)
  PROVE  IInv'
<1> DEFINE what == [at |-> "sealing", todo |-> ToSeal(c)]
<1>1. Does(c, what) /\ share' = share /\ share = Open
  BY DEF Heal, Free
<1>2. epochs # <<>>
  BY <1>1, SharedHasEpoch
<1>3. what \in Sealings /\ what.at = "sealing" /\ what.todo = ToSeal(c)
  BY ToSealIsFinished DEF Sealings
<1>4. op'[c] = what
  BY <1>1 DEF Does, IInv, Shape
<1> HIDE DEF what
<1>5. ClientInv(c)'
  BY <1>3, <1>4, ToSealIsFinished DEF ClientInv, Making, Heal
<1>6. calls' \in [Items -> 0 .. MaxCalls]
  BY DEF Heal, IInv, Shape
<1> QED BY <1>1, <1>2, <1>3, <1>5, <1>6, QuietStep DEF Heal

-----------------------------------------------------------------------------
(* The steps that touch streams *)

(* The epochs are records with streams of their own. *)
LEMMA EpochTypes ==
  ASSUME IInv
  PROVE  /\ epochs \in Seq(EpochRecords)
         /\ Len(epochs) \in Nat
         /\ \A n \in 1 .. Len(epochs) : epochs[n] \in EpochRecords /\ epochs[n].id \in Attempts
<1>1. epochs \in Seq(EpochRecords)
  BY DEF IInv, Shape
<1>2. Len(epochs) \in Nat /\ \A n \in 1 .. Len(epochs) : epochs[n] \in EpochRecords
  BY <1>1
<1> QED BY <1>1, <1>2 DEF EpochRecords

(* What Store makes of a stream. *)
Put(old, msg) == IF Contains(old, msg) THEN old ELSE Append(old, msg)

(* It only grows, at its end, by the message. *)
LEMMA PutOnce ==
  ASSUME NEW S, NEW old \in Seq(S), NEW msg \in S
  PROVE  /\ Put(old, msg) \in Seq(S)
         /\ Len(old) \in Nat /\ Len(Put(old, msg)) \in Nat /\ Len(old) <= Len(Put(old, msg))
         /\ \A j \in 1 .. Len(old) : Put(old, msg)[j] = old[j]
         /\ \E j \in 1 .. Len(Put(old, msg)) : Put(old, msg)[j] = msg
         /\ \A j \in 1 .. Len(Put(old, msg)) : Put(old, msg)[j] = msg \/ j \in 1 .. Len(old)
<1>1. CASE Contains(old, msg)
  BY <1>1 DEF Contains, Put
<1>2. CASE ~Contains(old, msg)
  BY <1>2 DEF Put
<1> QED BY <1>1, <1>2

(* A request to a stream of an epoch that is still open: a record, or the     *)
(* seal once the epoch is followed.                                          *)
LEMMA StoreKeeps ==
  ASSUME IInv, NEW n \in 1 .. Len(epochs), NEW k \in Kinds, NEW msg \in Messages,
         NEW state \in {"open", "closed"},
         streams[epochs[n].id][k].is = "open",
         Store(epochs[n].id, k, msg, state),
         state = "open" => msg.k # "seal",
         state = "closed" => n < Len(epochs),
         epochs' = epochs, begun' = begun
  PROVE  /\ streams' \in [Attempts -> [Kinds -> Streams]]
         /\ EpochInv'
         /\ \A m \in 1 .. Len(epochs), q \in Kinds, i \in Items : Holds(m, q, i) => Holds(m, q, i)'
         /\ \A a \in Attempts : a # epochs[n].id => streams'[a] = streams[a]
         /\ state = "open" /\ MayWrite(msg.by, epochs[n]) => Holds(n, k, msg.item)'
<1> DEFINE id == epochs[n].id
           old == streams[id][k].has
           new == Put(old, msg)
<1>1. id \in Attempts /\ epochs \in Seq(EpochRecords) /\ Len(epochs) \in Nat
  BY EpochTypes
<1>2. streams \in [Attempts -> [Kinds -> Streams]] /\ old \in Seq(Messages)
  BY <1>1 DEF IInv, Shape, Streams
<1>3. /\ new \in Seq(Messages)
      /\ Len(old) \in Nat /\ Len(new) \in Nat /\ Len(old) <= Len(new)
      /\ \A j \in 1 .. Len(old) : new[j] = old[j]
      /\ \E j \in 1 .. Len(new) : new[j] = msg
      /\ \A j \in 1 .. Len(new) : new[j] = msg \/ j \in 1 .. Len(old)
  <2> HIDE DEF old
  <2> QED BY <1>2, PutOnce
<1>4. streams' = [streams EXCEPT ![id][k] = [is |-> state, has |-> new]]
  BY DEF Store, Put
<1> HIDE DEF id, old, new
<1>5. /\ \A a \in Attempts : a # id => streams'[a] = streams[a]
      /\ \A q \in Kinds : q # k => streams'[id][q] = streams[id][q]
      /\ streams'[id][k].is = state /\ streams'[id][k].has = new
  BY <1>1, <1>2, <1>4
<1>6. streams' \in [Attempts -> [Kinds -> Streams]]
  BY <1>1, <1>2, <1>3, <1>4 DEF Streams
<1>7. NoSeal(old)
  BY DEF IInv, EpochInv, id, old
<1>8. \A m \in 1 .. Len(epochs) : epochs[m].id \in Attempts /\ (epochs[m].id = id => m = n)
  <2>1. \A l, m \in 1 .. Len(epochs) : epochs[l].id = epochs[m].id => l = m
    BY DEF IInv, EpochInv
  <2> QED BY <2>1, EpochTypes DEF id
<1>9. EpochInv'
  <2>1. epochs # <<>> => \A q \in Kinds : streams'[epochs[Len(epochs)].id][q].is = "open"
    <3> SUFFICES ASSUME epochs # <<>>, NEW q \in Kinds
                 PROVE  streams'[epochs[Len(epochs)].id][q].is = "open"
      OBVIOUS
    <3>1. Len(epochs) \in 1 .. Len(epochs)
      BY <1>1
    <3>2. streams[epochs[Len(epochs)].id][q].is = "open"
      BY DEF IInv, EpochInv
    <3>3. CASE epochs[Len(epochs)].id = id
      <4>1. n = Len(epochs)
        BY <1>8, <3>1, <3>3
      <4>2. state = "open"
        BY <1>1, <4>1
      <4> QED BY <1>5, <3>2, <3>3, <4>2
    <3>4. CASE epochs[Len(epochs)].id # id
      BY <1>5, <1>8, <3>1, <3>2, <3>4
    <3> QED BY <3>3, <3>4
  <2>2. ASSUME NEW m \in 1 .. Len(epochs), NEW q \in Kinds, streams'[epochs[m].id][q].is = "open"
        PROVE  NoSeal(streams'[epochs[m].id][q].has)
    <3>1. CASE epochs[m].id = id /\ q = k
      <4>1. state = "open"
        BY <1>5, <2>2, <3>1
      <4>2. NoSeal(new)
        BY <1>3, <1>7, <4>1 DEF NoSeal
      <4> QED BY <1>5, <3>1, <4>2
    <3>2. CASE ~(epochs[m].id = id /\ q = k)
      <4>1. streams'[epochs[m].id][q] = streams[epochs[m].id][q]
        BY <1>5, <1>8, <3>2
      <4> QED BY <2>2, <4>1 DEF IInv, EpochInv
    <3> QED BY <3>1, <3>2
  <2> QED BY <2>1, <2>2 DEF IInv, EpochInv
<1>10. ASSUME NEW m \in 1 .. Len(epochs), NEW q \in Kinds, NEW i \in Items, Holds(m, q, i)
       PROVE  Holds(m, q, i)'
  <2>1. CASE epochs[m].id = id /\ q = k
    <3>1. PICK j \in 1 .. Len(old) : CountsAt(old, j, i, epochs[m])
      BY <1>10, <2>1 DEF Holds, old
    <3>2. j \in 1 .. Len(new) /\ \A l \in 1 .. j : new[l] = old[l]
      BY <1>3
    <3>3. CountsAt(new, j, i, epochs[m])
      BY <1>3, <3>1, <3>2 DEF CountsAt
    <3>4. streams'[epochs[m].id][q].has = new
      BY <1>5, <2>1
    <3> QED BY <3>2, <3>3, <3>4 DEF Holds, CountsAt, MayWrite
  <2>2. CASE ~(epochs[m].id = id /\ q = k)
    <3>1. streams'[epochs[m].id][q] = streams[epochs[m].id][q]
      BY <1>5, <1>8, <2>2
    <3> QED BY <1>10, <3>1 DEF Holds, CountsAt, MayWrite
  <2> QED BY <2>1, <2>2
<1>11. ASSUME state = "open", MayWrite(msg.by, epochs[n])
       PROVE  Holds(n, k, msg.item)'
  <2>1. PICK j \in 1 .. Len(new) : new[j] = msg
    BY <1>3
  <2>2. ASSUME NEW l \in 1 .. j PROVE new[l].k # "seal"
    <3>1. l \in 1 .. Len(new)
      BY <1>3
    <3> QED BY <1>3, <1>7, <1>11, <3>1 DEF NoSeal
  <2>3. streams'[epochs'[n].id][k].has = new
    BY <1>5 DEF id
  <2> QED BY <1>11, <2>1, <2>2, <2>3 DEF Holds, CountsAt, MayWrite
<1> QED BY <1>5, <1>6, <1>9, <1>10, <1>11 DEF id

(* Streams of no epoch may come and go. *)
LEMMA ElsewhereKeeps ==
  ASSUME IInv, epochs' = epochs, told' = told, begun' \in Nat, begun' >= begun,
         \A n \in 1 .. Len(epochs) : streams'[epochs[n].id] = streams[epochs[n].id]
  PROVE  EpochInv' /\ ToldInv'
<1>1. begun \in Nat /\ \A n \in 1 .. Len(epochs) : epochs[n].id \in 1 .. begun
  BY DEF IInv, Shape, EpochInv
<1>2. \A n \in 1 .. Len(epochs) : epochs[n].id \in 1 .. begun'
  BY <1>1
<1>3. epochs # <<>> => Len(epochs) \in 1 .. Len(epochs)
  BY DEF IInv, Shape
<1>4. EpochInv'
  <2>1. epochs # <<>> => \A k \in Kinds : streams'[epochs[Len(epochs)].id][k].is = "open"
    BY <1>3 DEF IInv, EpochInv
  <2>2. \A n \in 1 .. Len(epochs), k \in Kinds :
          streams'[epochs[n].id][k].is = "open" => NoSeal(streams'[epochs[n].id][k].has)
    BY DEF IInv, EpochInv
  <2>3. \A m, n \in 1 .. Len(epochs) : epochs[m].id = epochs[n].id => m = n
    BY DEF IInv, EpochInv
  <2> QED BY <1>2, <2>1, <2>2, <2>3 DEF EpochInv
<1>5. ASSUME NEW i \in told, NEW n \in 1 .. Len(epochs), Holds(n, Kind[i], i)
      PROVE  Holds(n, Kind[i], i)'
  BY <1>5 DEF Holds, CountsAt, MayWrite
<1> QED BY <1>4, <1>5 DEF IInv, ToldInv

(* A step of a client in a document with an epoch. *)
LEMMA MoveStep ==
  ASSUME IInv, NEW c \in Members, epochs # <<>>, NEW what, op[c].at # "idle",
         Does(c, what), what.at # "announcing",
         share' = share \/ \E ok \in BOOLEAN : Ends(c, ok),
         calls' = calls, told' \subseteq Items,
         begun' \in 0 .. MaxAttempts, begun' >= begun,
         \/ epochs' = epochs
         \/ op[c].at = "created" /\ epochs' = Append(epochs, op[c].rec),
         streams' \in [Attempts -> [Kinds -> Streams]],
         \A d \in Members \ {c} : op[d].at = "created" =>
            streams'[op[d].rec.id] = streams[op[d].rec.id],
         \A d \in Members \ {c} : what.at \in {"created", "checking"} /\ Making(d) =>
            op[d].rec.id # what.rec.id,
         EpochInv', ToldInv', ClientInv(c)'
  PROVE  IInv'
<1>1. /\ op'[c] = what
      /\ DOMAIN op' = Members
      /\ \A d \in Members \ {c} : op'[d] = op[d]
  BY DEF Does, IInv, Shape
<1>2. epochs' \in Seq(EpochRecords) /\ epochs' # <<>>
  <2>1. op[c].at = "created" => op[c].rec \in EpochRecords
    BY DEF IInv, ClientInv, Making
  <2> QED BY <2>1, EpochTypes
<1>3. SharingInv' /\ share' \in 0 .. Failed
  BY <1>1, <1>2, SharingKeeps
<1>4. Shape'
  BY <1>1, <1>2, <1>3 DEF IInv, Shape
<1>5. ASSUME NEW d \in Members \ {c} PROVE ClientInv(d)'
  BY <1>1, OthersKeep
<1>6. PairInv'
  BY <1>1 DEF IInv, PairInv, Making
<1> QED BY <1>3, <1>4, <1>5, <1>6 DEF IInv

(* What comes of the client when a step is its last, or its request is not     *)
(* answered.                                                                 *)
LEMMA Ended ==
  ASSUME IInv, NEW c \in Members, NEW ok \in BOOLEAN, Ends(c, ok)
  PROVE  Does(c, Idle) /\ Idle.at = "idle" /\ op'[c] = Idle /\ ClientInv(c)'
<1>1. Does(c, Idle) /\ Idle.at = "idle"
  BY DEF Ends, Idle
<1>2. op'[c] = Idle
  BY <1>1 DEF Does, IInv, Shape
<1> QED BY <1>1, <1>2 DEF ClientInv, Making

(* A record that is stored in the epoch it was made for. *)
LEMMA PostStores ==
  ASSUME IInv, NEW c \in Members, PostStored(c), NEW n \in 1 .. Len(epochs),
         epochs[n].id = op[c].id, MayWrite(c, epochs[n]), NEW i \in Items, op[c].item = i
  PROVE  /\ streams' \in [Attempts -> [Kinds -> Streams]]
         /\ EpochInv'
         /\ \A m \in 1 .. Len(epochs), q \in Kinds, j \in Items : Holds(m, q, j) => Holds(m, q, j)'
         /\ \A a \in Attempts : a # epochs[n].id => streams'[a] = streams[a]
         /\ Holds(n, Kind[i], i)'
<1> DEFINE k == Kind[i]
<1>1. k \in Kinds /\ k # "seal" /\ calls[i] \in Nat
  BY DEF Kinds, IInv, Shape
<1>2. Record(c) \in Messages
  BY <1>1 DEF Record, Messages
<1>3. PICK msg \in Messages : msg = Record(c)
  BY <1>2
<1>4. msg.k = k /\ msg.by = c /\ msg.item = i
  BY <1>3 DEF Record
<1>5. streams[epochs[n].id][k].is = "open" /\ Store(epochs[n].id, k, msg, "open")
  BY <1>3 DEF PostStored, Target
<1>6. epochs' = epochs /\ begun' = begun
  BY DEF PostStored
<1> HIDE DEF k
<1>7. /\ streams' \in [Attempts -> [Kinds -> Streams]]
      /\ EpochInv'
      /\ \A m \in 1 .. Len(epochs), q \in Kinds, j \in Items : Holds(m, q, j) => Holds(m, q, j)'
      /\ \A a \in Attempts : a # epochs[n].id => streams'[a] = streams[a]
      /\ MayWrite(msg.by, epochs[n]) => Holds(n, k, msg.item)'
  BY <1>1, <1>4, <1>5, <1>6, StoreKeeps
<1>8. Holds(n, k, i)'
  BY <1>4, <1>7
<1> QED BY <1>7, <1>8 DEF k

(* A record is stored, whether or not its author hears of it. *)
LEMMA PostStoredKeeps ==
  ASSUME IInv, NEW c \in Members, PostStored(c)
  PROVE  IInv'
<1>1. op[c].at = "posting" /\ op[c] \in Posts /\ op[c].item \in Items /\ epochs # <<>>
  BY SharedHasEpoch DEF PostStored, IInv, ClientInv, Posts
<1>2. epochs' = epochs /\ begun' = begun /\ calls' = calls
  BY DEF PostStored
<1>3. PICK i \in Items : op[c].item = i
  BY <1>1
<1>4. PICK n \in 1 .. Len(epochs) : epochs[n].id = op[c].id /\ MayWrite(c, epochs[n])
  BY <1>1 DEF IInv, ClientInv
<1>5. /\ streams' \in [Attempts -> [Kinds -> Streams]]
      /\ EpochInv'
      /\ \A m \in 1 .. Len(epochs), q \in Kinds, j \in Items : Holds(m, q, j) => Holds(m, q, j)'
      /\ \A a \in Attempts : a # epochs[n].id => streams'[a] = streams[a]
      /\ Holds(n, Kind[i], i)'
  BY <1>3, <1>4, PostStores
<1>6. ASSUME NEW d \in Members \ {c}, op[d].at = "created"
      PROVE  streams'[op[d].rec.id] = streams[op[d].rec.id]
  <2>1. op[d].rec \in EpochRecords /\ op[d].rec.id # epochs[n].id
    BY <1>6 DEF IInv, ClientInv, Making
  <2> QED BY <1>5, <2>1 DEF EpochRecords
<1>7. ASSUME told' \subseteq told \cup {i} PROVE ToldInv' /\ told' \subseteq Items
  <2>1. told \subseteq Items /\ \A j \in Items : Kind[j] \in Kinds
    BY DEF IInv, Shape
  <2>2. ASSUME NEW j \in told PROVE \E m \in 1 .. Len(epochs) : Holds(m, Kind[j], j)'
    <3>1. PICK m \in 1 .. Len(epochs) : Holds(m, Kind[j], j)
      BY DEF IInv, ToldInv
    <3> QED BY <1>5, <2>1, <3>1
  <2> QED BY <1>2, <1>5, <1>7, <2>1, <2>2 DEF ToldInv
<1>8. begun' \in 0 .. MaxAttempts /\ begun' >= begun
  BY <1>2 DEF IInv, Shape
<1>9. CASE \E ok \in BOOLEAN : Ends(c, ok)
  <2>1. told' \subseteq told \cup {i}
    BY <1>3 DEF PostStored
  <2>2. Does(c, Idle) /\ Idle.at = "idle" /\ ClientInv(c)'
    BY <1>9, Ended
  <2> QED BY <1>1, <1>2, <1>5, <1>6, <1>7, <1>8, <1>9, <2>1, <2>2, MoveStep
<1>10. CASE op[c].sends > 1 /\ Does(c, [op[c] EXCEPT !.sends = @ - 1]) /\ share' = share /\ told' = told
  <2> DEFINE what == [op[c] EXCEPT !.sends = @ - 1]
  <2>1. op[c].sends - 1 \in 1 .. Sends
    BY <1>1, <1>10 DEF Posts
  <2>2. what \in Posts /\ what.at = "posting" /\ what.id = op[c].id
    BY <1>1, <2>1 DEF Posts
  <2>3. op'[c] = what /\ Does(c, what)
    BY <1>10 DEF Does, IInv, Shape
  <2> HIDE DEF what
  <2>4. \E m \in 1 .. Len(epochs) : epochs[m].id = what.id /\ MayWrite(c, epochs[m])
    BY <1>4, <2>2
  <2>5. ClientInv(c)'
    BY <1>2, <2>2, <2>3, <2>4 DEF ClientInv, Making, MayWrite
  <2>6. told' \subseteq told \cup {i}
    BY <1>10
  <2> QED BY <1>1, <1>2, <1>5, <1>6, <1>7, <1>8, <1>10, <2>2, <2>3, <2>5, <2>6, MoveStep
<1> QED BY <1>9, <1>10 DEF PostStored, Unanswered

(* A seal goes to a stream of a finished epoch. *)
LEMMA SealNextKeeps ==
  ASSUME IInv, NEW c \in Members, SealNext(c)
  PROVE  IInv'
<1>1. op[c].at \in {"healing", "sealing"} /\ epochs # <<>>
  BY SharedHasEpoch DEF SealNext
<1>2. PICK s \in op[c].todo :
        /\ \/ streams[s[1]][s[2]].is = "open" /\ Store(s[1], s[2], Seal, "closed")
           \/ UNCHANGED streams
        /\ Does(c, [op[c] EXCEPT !.todo = @ \ {s}])
  BY DEF SealNext
<1>3. epochs' = epochs /\ begun' = begun /\ calls' = calls /\ share' = share /\ told' = told
  BY DEF SealNext
<1>4. op[c] \in Rotations \cup Sealings /\ op[c].todo \subseteq Attempts \X Kinds
  BY <1>1 DEF IInv, ClientInv, Rotations, Sealings
<1>5. PICK n \in 1 .. Len(epochs) - 1 : s[1] = epochs[n].id
  BY <1>1 DEF IInv, ClientInv
<1>6. n \in 1 .. Len(epochs) /\ n < Len(epochs) /\ s[2] \in Kinds
  BY <1>4, EpochTypes
<1>7. told \subseteq Items /\ \A i \in Items : Kind[i] \in Kinds
  BY DEF IInv, Shape
<1>8. begun' \in 0 .. MaxAttempts /\ begun' >= begun
  BY <1>3 DEF IInv, Shape
<1>9. /\ streams' \in [Attempts -> [Kinds -> Streams]]
      /\ EpochInv' /\ ToldInv'
      /\ \A d \in Members \ {c} : op[d].at = "created" =>
            streams'[op[d].rec.id] = streams[op[d].rec.id]
  <2>1. CASE Store(s[1], s[2], Seal, "closed") /\ streams[s[1]][s[2]].is = "open"
    <3>1. Seal \in Messages
      BY DEF Messages
    <3>2. /\ streams' \in [Attempts -> [Kinds -> Streams]]
          /\ EpochInv'
          /\ \A m \in 1 .. Len(epochs), q \in Kinds, i \in Items : Holds(m, q, i) => Holds(m, q, i)'
          /\ \A a \in Attempts : a # epochs[n].id => streams'[a] = streams[a]
      BY <1>3, <1>5, <1>6, <2>1, <3>1, StoreKeeps
    <3>3. ToldInv'
      BY <1>3, <1>7, <3>2 DEF IInv, ToldInv
    <3> QED BY <1>6, <3>2, <3>3 DEF IInv, ClientInv, Making, EpochRecords
  <2>2. CASE UNCHANGED streams
    BY <1>3, <1>8, <2>2, ElsewhereKeeps DEF IInv, Shape
  <2> QED BY <1>2, <2>1, <2>2
<1> DEFINE what == [op[c] EXCEPT !.todo = @ \ {s}]
<1>10. /\ what.at = op[c].at /\ what.todo = op[c].todo \ {s}
       /\ op[c].at = "healing" => what \in Rotations
       /\ op[c].at = "sealing" => what \in Sealings
  BY <1>1 DEF IInv, ClientInv, Rotations, Sealings
<1>11. Does(c, what) /\ op'[c] = what
  BY <1>2 DEF Does, IInv, Shape
<1> HIDE DEF what
<1>12. \A t \in what.todo : \E m \in 1 .. Len(epochs) - 1 : t[1] = epochs[m].id
  BY <1>1, <1>10 DEF IInv, ClientInv
<1>13. ClientInv(c)'
  BY <1>1, <1>3, <1>10, <1>11, <1>12 DEF ClientInv, Making
<1> QED BY <1>1, <1>3, <1>7, <1>8, <1>9, <1>10, <1>11, <1>13, MoveStep

(* The streams of a new epoch are nobody's yet. *)
LEMMA CreateStreamsKeeps ==
  ASSUME IInv, NEW c \in Members, CreateStreams(c)
  PROVE  IInv'
<1>1. op[c].at = "healing" /\ epochs # <<>> /\ begun < MaxAttempts
  BY SharedHasEpoch DEF CreateStreams
<1>2. epochs' = epochs /\ calls' = calls /\ told' = told
  BY DEF CreateStreams
<1>3. /\ begun \in Nat /\ begun + 1 \in Attempts /\ MaxAttempts \in Nat
      /\ streams \in [Attempts -> [Kinds -> Streams]] /\ told \subseteq Items
  BY <1>1 DEF IInv, Shape, Attempts
<1>4. CASE Ends(c, FALSE) /\ UNCHANGED <<begun, streams>>
  BY <1>1, <1>2, <1>4, EndStep
<1> DEFINE rec == [n |-> op[c].n, id |-> begun + 1, prev |-> op[c].prev, by |-> c,
                   asked |-> op[c].asked, roster |-> op[c].roster]
           what == [at |-> "created", rec |-> rec]
<1>5. CASE /\ begun' = begun + 1
           /\ streams' = [streams EXCEPT ![begun + 1] = [k \in Kinds |-> Opened]]
           /\ Does(c, what)
           /\ UNCHANGED share
  <2>1. op[c] \in Rotations
    BY <1>1 DEF IInv, ClientInv
  <2>2. rec \in EpochRecords /\ rec.id = begun + 1
    BY <1>3, <2>1 DEF Rotations, EpochRecords
  <2>3. [k \in Kinds |-> Opened] \in [Kinds -> Streams]
    BY DEF Opened, Streams
  <2>4. /\ streams' \in [Attempts -> [Kinds -> Streams]]
        /\ streams'[begun + 1] = [k \in Kinds |-> Opened]
        /\ \A a \in 1 .. begun : streams'[a] = streams[a]
    BY <1>3, <1>5, <2>3 DEF Attempts
  <2>5. \A n \in 1 .. Len(epochs) : epochs[n].id \in 1 .. begun
    BY DEF IInv, EpochInv
  <2>6. EpochInv' /\ ToldInv'
    BY <1>2, <1>3, <1>5, <2>4, <2>5, ElsewhereKeeps
  <2>7. \A d \in Members \ {c} : Making(d) => op[d].rec.id \in 1 .. begun
    BY DEF IInv, ClientInv
  <2>8. \A d \in Members \ {c} : /\ Making(d) => op[d].rec.id # rec.id
                                 /\ op[d].at = "created" => streams'[op[d].rec.id] = streams[op[d].rec.id]
    BY <1>3, <2>2, <2>4, <2>7 DEF Making
  <2>9. op'[c] = what /\ what.at = "created" /\ what.rec = rec
    BY <1>5 DEF Does, IInv, Shape
  <2>10. \A n \in 1 .. Len(epochs) : epochs[n].id # rec.id
    BY <1>3, <2>2, <2>5
  <2>11. rec.id \in 1 .. begun'
    BY <1>3, <1>5, <2>2
  <2>12. begun' \in 0 .. MaxAttempts /\ begun' >= begun
    BY <1>3, <1>5 DEF Attempts
  <2> HIDE DEF what, rec
  <2>13. ClientInv(c)'
    BY <1>2, <2>2, <2>4, <2>9, <2>10, <2>11 DEF ClientInv, Making
  <2> QED BY <1>1, <1>2, <1>3, <1>5, <2>4, <2>6, <2>8, <2>9, <2>12, <2>13, MoveStep
<1> QED BY <1>4, <1>5 DEF CreateStreams

(* A record counts, and its epoch is the latest, or does not. *)
LEMMA AppendEpochKeeps ==
  ASSUME IInv, NEW c \in Members, AppendEpoch(c)
  PROVE  IInv'
<1>1. op[c].at = "created" /\ epochs # <<>>
  BY SharedHasEpoch DEF AppendEpoch
<1>2. streams' = streams /\ begun' = begun /\ calls' = calls /\ told' = told
  BY DEF AppendEpoch
<1> DEFINE rec == op[c].rec
<1>3. /\ rec \in EpochRecords /\ rec.id \in 1 .. begun
      /\ \A n \in 1 .. Len(epochs) : epochs[n].id # rec.id
      /\ streams[rec.id] = [k \in Kinds |-> Opened]
  BY <1>1 DEF IInv, ClientInv, Making
<1>4. /\ told \subseteq Items /\ begun \in 0 .. MaxAttempts
      /\ streams \in [Attempts -> [Kinds -> Streams]]
  BY DEF IInv, Shape
<1>5. epochs' = epochs \/ (Follows(rec) /\ epochs' = Append(epochs, rec))
  BY DEF AppendEpoch
<1>6. epochs \in Seq(EpochRecords) /\ Len(epochs) \in Nat
  BY EpochTypes
<1>7. /\ EpochInv' /\ ToldInv'
      /\ \A n \in 1 .. Len(epochs') : epochs'[n].id = rec.id => n = rec.n + 1
  <2>1. CASE Follows(rec) /\ epochs' = Append(epochs, rec)
    <3> HIDE DEF rec
    <3>1. /\ Len(epochs') = Len(epochs) + 1
          /\ \A n \in 1 .. Len(epochs) : epochs'[n] = epochs[n]
          /\ epochs'[Len(epochs) + 1] = rec
          /\ \A n \in 1 .. Len(epochs') : n \in 1 .. Len(epochs) \/ n = Len(epochs) + 1
      BY <1>3, <1>6, <2>1
    <3>2. \A k \in Kinds : streams[rec.id][k].is = "open" /\ NoSeal(streams[rec.id][k].has)
      BY <1>3 DEF Opened, NoSeal
    <3>3. EpochInv'
      <4>1. \A n \in 1 .. Len(epochs') : epochs'[n].id \in 1 .. begun
        BY <1>3, <3>1 DEF IInv, EpochInv
      <4>2. ASSUME NEW m \in 1 .. Len(epochs'), NEW n \in 1 .. Len(epochs'), epochs'[m].id = epochs'[n].id
            PROVE  m = n
        <5>1. CASE m \in 1 .. Len(epochs) /\ n \in 1 .. Len(epochs)
          BY <3>1, <4>2, <5>1 DEF IInv, EpochInv
        <5>2. CASE m = Len(epochs) + 1 \/ n = Len(epochs) + 1
          BY <1>3, <3>1, <4>2, <5>2
        <5> QED BY <3>1, <5>1, <5>2
      <4>3. \A k \in Kinds : streams[epochs'[Len(epochs')].id][k].is = "open"
        BY <3>1, <3>2
      <4>4. \A n \in 1 .. Len(epochs'), k \in Kinds :
              streams[epochs'[n].id][k].is = "open" => NoSeal(streams[epochs'[n].id][k].has)
        BY <3>1, <3>2 DEF IInv, EpochInv
      <4> QED BY <1>2, <4>1, <4>2, <4>3, <4>4 DEF EpochInv
    <3>4. ToldInv'
      <4>1. ASSUME NEW i \in told, NEW n \in 1 .. Len(epochs), Holds(n, Kind[i], i)
            PROVE  n \in 1 .. Len(epochs') /\ Holds(n, Kind[i], i)'
        <5>1. n \in 1 .. Len(epochs') /\ epochs'[n] = epochs[n]
          BY <1>6, <3>1
        <5> QED BY <1>2, <4>1, <5>1 DEF Holds, CountsAt, MayWrite
      <4> QED BY <1>2, <4>1 DEF IInv, ToldInv
    <3>5. \A n \in 1 .. Len(epochs') : epochs'[n].id = rec.id => n = rec.n + 1
      BY <1>3, <2>1, <3>1 DEF Follows
    <3> QED BY <3>3, <3>4, <3>5 DEF rec
  <2>2. CASE epochs' = epochs
    <3>1. EpochInv' /\ ToldInv'
      BY <1>2, <1>4, <2>2, ElsewhereKeeps
    <3> QED BY <1>3, <2>2, <3>1
  <2> QED BY <1>5, <2>1, <2>2
<1>8. /\ \A d \in Members \ {c} : op[d].at = "created" =>
            streams'[op[d].rec.id] = streams[op[d].rec.id]
      /\ \A d \in Members \ {c} : Making(d) => op[d].rec.id # rec.id
  BY <1>1, <1>2 DEF IInv, PairInv, Making
<1>9. CASE Does(c, [at |-> "checking", rec |-> rec]) /\ share' = share
  <2> DEFINE what == [at |-> "checking", rec |-> rec]
  <2>1. op'[c] = what /\ what.at = "checking" /\ what.rec = rec
    BY <1>9 DEF Does, IInv, Shape
  <2> HIDE DEF rec
  <2>2. ClientInv(c)'
    BY <1>2, <1>3, <1>7, <2>1 DEF ClientInv, Making
  <2>3. Does(c, what) /\ (epochs' = epochs \/ epochs' = Append(epochs, op[c].rec)) /\ share' = share
    BY <1>5, <1>9 DEF rec
  <2>4. /\ told' \subseteq Items /\ begun' \in 0 .. MaxAttempts /\ begun' >= begun
        /\ streams' \in [Attempts -> [Kinds -> Streams]]
    <3>1. begun' >= begun
      BY <1>2, <1>4
    <3> QED BY <1>2, <1>4, <3>1
  <2>5. \A d \in Members \ {c} : Making(d) => op[d].rec.id # what.rec.id
    <3> HIDE DEF what
    <3> QED BY <1>8, <2>1
  <2> HIDE DEF what
  <2> QED BY <1>1, <1>2, <1>7, <1>8, <2>1, <2>2, <2>3, <2>4, <2>5, MoveStep
<1>10. CASE Ends(c, FALSE)
  <2>1. Does(c, Idle) /\ Idle.at = "idle" /\ ClientInv(c)'
    BY <1>10, Ended
  <2>2. epochs' = epochs \/ epochs' = Append(epochs, op[c].rec)
    BY <1>5
  <2>3. \E ok \in BOOLEAN : Ends(c, ok)
    BY <1>10
  <2>4. Idle.at \notin {"created", "checking"} /\ Idle.at # "announcing"
    BY <2>1
  <2> HIDE DEF rec
  <2> QED BY <1>1, <1>2, <1>4, <1>7, <1>8, <2>1, <2>2, <2>3, <2>4, MoveStep
<1> QED BY <1>9, <1>10 DEF AppendEpoch

(* The winner goes on to seal, the loser takes its streams away. *)
LEMMA CheckKeeps ==
  ASSUME IInv, NEW c \in Members, Check(c)
  PROVE  IInv'
<1>1. op[c].at = "checking" /\ epochs # <<>>
  BY SharedHasEpoch DEF Check
<1>2. epochs' = epochs /\ begun' = begun /\ calls' = calls /\ told' = told
  BY DEF Check
<1>3. CASE Does(c, [at |-> "sealing", todo |-> ToSeal(c)]) /\ UNCHANGED <<streams, share>>
  <2> DEFINE what == [at |-> "sealing", todo |-> ToSeal(c)]
  <2>1. what \in Sealings /\ what.at = "sealing" /\ what.todo = ToSeal(c)
    BY ToSealIsFinished DEF Sealings
  <2>2. Does(c, what) /\ op'[c] = what
    BY <1>3 DEF Does, IInv, Shape
  <2> HIDE DEF what
  <2>3. ClientInv(c)'
    BY <1>2, <2>1, <2>2, ToSealIsFinished DEF ClientInv, Making
  <2>4. calls' \in [Items -> 0 .. MaxCalls]
    BY <1>2 DEF IInv, Shape
  <2> QED BY <1>1, <1>2, <1>3, <2>1, <2>2, <2>3, <2>4, QuietStep
<1>4. CASE Ends(c, FALSE) /\ UNCHANGED streams
  BY <1>1, <1>2, <1>4, EndStep
<1>5. CASE /\ ~Won(op[c].rec)
           /\ streams' = [streams EXCEPT ![op[c].rec.id] = [k \in Kinds |-> Absent]]
           /\ Ends(c, FALSE)
  <2> DEFINE id == op[c].rec.id
  <2>1. /\ op[c].rec \in EpochRecords
        /\ \A n \in 1 .. Len(epochs) : epochs[n].id = id => n = op[c].rec.n + 1
    BY <1>1 DEF IInv, ClientInv, Making
  <2>2. op[c].rec.n \in Nat /\ id \in Attempts
    BY <2>1 DEF EpochRecords
  <2>3. Len(epochs) \in Nat /\ \A n \in 1 .. Len(epochs) : epochs[n].id \in Attempts
    BY EpochTypes
  <2>4. \A n \in 1 .. Len(epochs) : epochs[n].id # id
    BY <1>5, <2>1, <2>2, <2>3 DEF Won
  <2>5. /\ streams \in [Attempts -> [Kinds -> Streams]] /\ begun \in 0 .. MaxAttempts
        /\ told \subseteq Items
    BY DEF IInv, Shape
  <2>6. [k \in Kinds |-> Absent] \in [Kinds -> Streams]
    BY DEF Absent, Streams
  <2>7. /\ streams' \in [Attempts -> [Kinds -> Streams]]
        /\ \A a \in Attempts : a # id => streams'[a] = streams[a]
    BY <1>5, <2>2, <2>5, <2>6
  <2>8. EpochInv' /\ ToldInv'
    <3>1. \A n \in 1 .. Len(epochs) : streams'[epochs[n].id] = streams[epochs[n].id]
      BY <2>3, <2>4, <2>7
    <3> QED BY <1>2, <2>5, <3>1, ElsewhereKeeps
  <2>9. ASSUME NEW d \in Members \ {c}, op[d].at = "created"
        PROVE  streams'[op[d].rec.id] = streams[op[d].rec.id]
    <3>1. op[d].rec.id # id
      BY <1>1, <2>9 DEF IInv, PairInv, Making
    <3>2. op[d].rec.id \in Attempts
      BY <2>9 DEF IInv, ClientInv, Making, EpochRecords
    <3> QED BY <2>7, <3>1, <3>2
  <2>10. Does(c, Idle) /\ Idle.at = "idle" /\ ClientInv(c)'
    BY <1>5, Ended
  <2>11. begun' \in 0 .. MaxAttempts /\ begun' >= begun
    BY <1>2, <2>5
  <2> HIDE DEF id
  <2> QED BY <1>1, <1>2, <1>5, <2>5, <2>7, <2>8, <2>9, <2>10, <2>11, MoveStep
<1> QED BY <1>3, <1>4, <1>5 DEF Check

-----------------------------------------------------------------------------
(* Before the first epoch *)

(* While there is no epoch nobody but the sharer is doing anything, and        *)
(* nothing was acknowledged.                                                 *)
LEMMA NothingYet ==
  ASSUME IInv, epochs = <<>>
  PROVE  /\ told = {}
         /\ share \in {0, Failed} /\ 0 # Open /\ Failed # Open
         /\ \A d \in Members \ {Sharer} : op[d].at = "idle"
<1>1. Len(epochs) = 0
  BY DEF IInv, Shape
<1>2. told = {}
  BY <1>1 DEF IInv, ToldInv
<1>3. share \in {0, Failed} /\ 0 # Open /\ Failed # Open
  BY DEF IInv, SharingInv, Open, Failed
<1>4. \A d \in Members \ {Sharer} : op[d].at = "idle"
  BY DEF IInv, SharingInv, ClientInv
<1> QED BY <1>2, <1>3, <1>4

(* A step of the sharer that leaves no epoch behind, or the first one. *)
LEMMA FirstKeeps ==
  ASSUME IInv, epochs = <<>>, UNCHANGED <<calls, told>>, NEW what,
         Does(Sharer, what), what.at \in {"idle", "announcing"},
         Shape', EpochInv', SharingInv'
  PROVE  IInv'
<1>1. /\ told' = {}
      /\ \A d \in Members \ {Sharer} : op[d].at = "idle"
  BY NothingYet
<1>2. op'[Sharer] = what /\ \A d \in Members \ {Sharer} : op'[d] = op[d]
  BY DEF Does, IInv, Shape
<1>3. ToldInv'
  BY <1>1 DEF ToldInv
<1>4. \A d \in Members : ClientInv(d)'
  BY <1>1, <1>2 DEF ClientInv, Making
<1>5. PairInv'
  BY <1>1, <1>2 DEF PairInv, Making
<1> QED BY <1>3, <1>4, <1>5 DEF IInv

(* The streams of the first epoch. *)
LEMMA CreateDocumentKeeps ==
  ASSUME IInv, CreateDocument
  PROVE  IInv'
<1>1. share = 0 /\ begun = 0 /\ begun' = 1 /\ UNCHANGED <<epochs, share, calls, told>>
  BY DEF CreateDocument
<1>2. epochs \in Seq(EpochRecords) /\ Len(epochs) \in Nat
  BY EpochTypes
<1>3. epochs = <<>>
  <2>1. \A n \in 1 .. Len(epochs) : epochs[n].id \in 1 .. 0
    BY <1>1 DEF IInv, EpochInv
  <2>2. Len(epochs) = 0
    BY <1>2, <2>1
  <2> QED BY <1>2, <2>2
<1> DEFINE what == [at |-> "announcing"]
<1>4. Does(Sharer, what) /\ what.at = "announcing"
  BY DEF CreateDocument
<1>5. /\ op'[Sharer] = what /\ DOMAIN op' = Members
      /\ \A d \in Members \ {Sharer} : op'[d] = op[d] /\ op[d].at = "idle"
  BY <1>3, <1>4, NothingYet DEF Does, IInv, Shape
<1> HIDE DEF what
<1>6. 1 \in Attempts /\ streams \in [Attempts -> [Kinds -> Streams]]
  BY DEF Attempts, IInv, Shape
<1>7. [k \in Kinds |-> Opened] \in [Kinds -> Streams]
  BY DEF Opened, Streams
<1>8. /\ streams' \in [Attempts -> [Kinds -> Streams]]
      /\ streams'[1] = [k \in Kinds |-> Opened]
  BY <1>6, <1>7 DEF CreateDocument
<1>9. Shape'
  BY <1>1, <1>5, <1>8 DEF IInv, Shape
<1>10. EpochInv'
  BY <1>1, <1>3 DEF EpochInv
<1>11. SharingInv'
  BY <1>1, <1>3, <1>4, <1>5, <1>8 DEF SharingInv
<1> QED BY <1>1, <1>3, <1>4, <1>9, <1>10, <1>11, FirstKeeps

(* The sharer gives up before the first epoch is there. *)
LEMMA AbandonKeeps ==
  ASSUME IInv, op[Sharer].at = "announcing", Ends(Sharer, FALSE),
         UNCHANGED <<epochs, streams, begun, calls, told>>
  PROVE  IInv'
<1>1. share = 0 /\ epochs = <<>>
  BY DEF IInv, SharingInv
<1>2. Does(Sharer, Idle) /\ Idle.at = "idle" /\ op'[Sharer] = Idle
  BY Ended
<1>3. DOMAIN op' = Members /\ \A d \in Members \ {Sharer} : op'[d] = op[d] /\ op[d].at = "idle"
  BY <1>1, <1>2, NothingYet DEF Does, IInv, Shape
<1>4. share' = Failed /\ Failed \in 0 .. Failed
  BY <1>1, NothingYet DEF Ends, Failed, Open
<1>5. Shape'
  BY <1>3, <1>4 DEF IInv, Shape
<1>6. EpochInv'
  BY <1>1 DEF EpochInv
<1>7. SharingInv'
  BY <1>2, <1>3, <1>4 DEF SharingInv
<1> QED BY <1>1, <1>2, <1>5, <1>6, <1>7, FirstKeeps

(* The first record, or the failure to write it. *)
LEMMA AnnounceKeeps ==
  ASSUME IInv, Announce
  PROVE  IInv'
<1>1. /\ op[Sharer].at = "announcing" /\ share = 0 /\ epochs = <<>> /\ begun = 1
      /\ streams[1] = [k \in Kinds |-> Opened]
  BY DEF Announce, IInv, SharingInv
<1> DEFINE rec == [n |-> 0, id |-> 1, prev |-> 0, by |-> Sharer, asked |-> <<Sharer, "owner">>,
                   roster |-> [Nobody EXCEPT ![Sharer] = "owner"]]
<1>2. CASE epochs' = epochs /\ Ends(Sharer, FALSE)
  BY <1>1, <1>2, AbandonKeeps DEF Announce
<1>3. CASE epochs' = <<rec>> /\ Does(Sharer, Idle) /\ share' = share
  <2>1. UNCHANGED <<streams, begun, calls, told>>
    BY DEF Announce
  <2>2. rec \in EpochRecords /\ rec.id = 1
    BY DEF EpochRecords, Attempts, Nobody, Roles
  <2> HIDE DEF rec
  <2>3. epochs' \in Seq(EpochRecords) /\ Len(epochs') = 1 /\ epochs'[1] = rec
    BY <1>3, <2>2
  <2>4. Idle.at = "idle"
    BY DEF Idle
  <2>5. /\ op'[Sharer] = Idle /\ DOMAIN op' = Members
        /\ \A d \in Members \ {Sharer} : op'[d] = op[d] /\ op[d].at = "idle"
    BY <1>1, <1>3, NothingYet DEF Does, IInv, Shape
  <2>6. Shape'
    BY <1>3, <2>1, <2>3, <2>5 DEF IInv, Shape
  <2>7. \A k \in Kinds : streams'[1][k].is = "open" /\ NoSeal(streams'[1][k].has)
    BY <1>1, <2>1 DEF Opened, NoSeal
  <2>8. EpochInv'
    <3>1. \A n \in 1 .. Len(epochs') : n = 1 /\ epochs'[n].id = 1
      BY <2>2, <2>3
    <3>2. epochs'[Len(epochs')].id = 1
      BY <2>2, <2>3
    <3>3. \A k \in Kinds : streams'[epochs'[Len(epochs')].id][k].is = "open"
      BY <2>7, <3>2
    <3>4. \A n \in 1 .. Len(epochs') : epochs'[n].id \in 1 .. begun'
      BY <1>1, <2>1, <3>1
    <3> QED BY <2>7, <3>1, <3>3, <3>4 DEF EpochInv
  <2>9. SharingInv'
    BY <1>1, <1>3, <2>3, <2>4, <2>5 DEF SharingInv
  <2> QED BY <1>1, <1>3, <2>1, <2>4, <2>6, <2>8, <2>9, FirstKeeps
<1> QED BY <1>2, <1>3 DEF Announce

(* A crash leaves everything on the server as it is. *)
LEMMA CrashKeeps ==
  ASSUME IInv, NEW c \in Members, Crash(c)
  PROVE  IInv'
<1>1. op[c].at # "idle" /\ Ends(c, FALSE) /\ UNCHANGED <<epochs, streams, begun, told, calls>>
  BY DEF Crash
<1>2. CASE op[c].at = "announcing"
  <2>1. c = Sharer
    BY <1>2 DEF IInv, ClientInv
  <2> QED BY <1>1, <1>2, <2>1, AbandonKeeps
<1>3. CASE op[c].at # "announcing"
  BY <1>1, <1>3, SharedHasEpoch, EndStep
<1> QED BY <1>2, <1>3

-----------------------------------------------------------------------------
(* The invariant *)

(* Every step keeps it. *)
LEMMA NextKeeps == IInv /\ [Next]_vars => IInv'
<1> SUFFICES ASSUME IInv, [Next]_vars PROVE IInv'
  OBVIOUS
<1>1. CASE CreateDocument
  BY <1>1, CreateDocumentKeeps
<1>2. CASE Announce
  BY <1>2, AnnounceKeeps
<1>3. ASSUME NEW c \in Members, NEW i \in Items, StartPublish(c, i) PROVE IInv'
  BY <1>3, StartPublishKeeps
<1>4. ASSUME NEW c \in Members, PostStored(c) PROVE IInv'
  BY <1>4, PostStoredKeeps
<1>5. ASSUME NEW c \in Members, PostLost(c) \/ Sealed(c) PROVE IInv'
  BY <1>5, PostLostKeeps
<1>6. ASSUME NEW c \in Members, PostSealed(c) PROVE IInv'
  BY <1>6, PostSealedKeeps
<1>7. ASSUME NEW c \in Members, PublishAgain(c) PROVE IInv'
  BY <1>7, PublishAgainKeeps
<1>8. ASSUME NEW c \in Members, NEW m \in Members, NEW r \in Roles, AskChange(c, m, r) PROVE IInv'
  BY <1>8, AskChangeKeeps
<1>9. ASSUME NEW c \in Members, StartRotation(c) PROVE IInv'
  BY <1>9, StartRotationKeeps
<1>10. ASSUME NEW c \in Members, Heal(c) PROVE IInv'
  BY <1>10, HealKeeps
<1>11. ASSUME NEW c \in Members, SealNext(c) PROVE IInv'
  BY <1>11, SealNextKeeps
<1>12. ASSUME NEW c \in Members, CreateStreams(c) PROVE IInv'
  BY <1>12, CreateStreamsKeeps
<1>13. ASSUME NEW c \in Members, AppendEpoch(c) PROVE IInv'
  BY <1>13, AppendEpochKeeps
<1>14. ASSUME NEW c \in Members, Check(c) PROVE IInv'
  BY <1>14, CheckKeeps
<1>15. ASSUME NEW c \in Members, Crash(c) PROVE IInv'
  BY <1>15, CrashKeeps
<1>16. CASE UNCHANGED vars
  <2> USE <1>16 DEF vars
  <2>1. Shape' /\ EpochInv' /\ SharingInv'
    BY DEF IInv, Shape, EpochInv, SharingInv
  <2>2. ToldInv'
    <3>1. ASSUME NEW i \in told, NEW n \in 1 .. Len(epochs), Holds(n, Kind[i], i)
          PROVE  Holds(n, Kind[i], i)'
      BY <3>1 DEF Holds, CountsAt, MayWrite
    <3> QED BY <3>1 DEF IInv, ToldInv
  <2>3. \A c \in Members : ClientInv(c)'
    BY DEF IInv, ClientInv, Making, MayWrite
  <2>4. PairInv'
    BY DEF IInv, PairInv, Making
  <2> QED BY <2>1, <2>2, <2>3, <2>4 DEF IInv
<1> QED BY <1>1, <1>2, <1>3, <1>4, <1>5, <1>6, <1>7, <1>8, <1>9, <1>10, <1>11, <1>12, <1>13, <1>14,
           <1>15, <1>16 DEF Next

(* It holds in every state. *)
LEMMA Invariance == Spec => []IInv
<1>1. Init => IInv
  BY InitIInv
<1>2. IInv /\ [Next]_vars => IInv'
  BY NextKeeps
<1> QED BY <1>1, <1>2, PTL DEF Spec

(* The variables of the clients and of the server have their types. *)
THEOREM TypesHold == Spec => []TypeOK
<1>1. IInv => TypeOK
  <2> SUFFICES ASSUME IInv PROVE TypeOK
    OBVIOUS
  <2>1. \A i \in 1 .. Len(epochs) : epochs[i].id \in 1 .. begun /\ epochs[i].roster \in [Members -> Roles]
    BY EpochTypes DEF IInv, EpochInv, EpochRecords
  <2>2. \A a \in Attempts, k \in Kinds : streams[a][k].is \in {"absent", "open", "closed"}
    BY DEF IInv, Shape, Streams
  <2>3. \A c \in Members : op[c].at = "posting" => op[c].sends \in 1 .. Sends
    BY DEF IInv, ClientInv, Posts
  <2> QED BY <2>1, <2>2, <2>3 DEF TypeOK, IInv, Shape
<1> QED BY <1>1, Invariance, PTL

(* What a publish call returned Ok for every member reads, whatever rotations, *)
(* seals and crashes came before, between and after its requests             *)
(* (publish_update and rotate of store.rs).                                  *)
THEOREM AcknowledgedIsReadable == Spec => []ToldIsReadable
<1>1. IInv => ToldIsReadable
  <2> SUFFICES ASSUME IInv, NEW i \in told, NEW c \in Members, epochs # <<>>, InRoster(c, Latest)
               PROVE  \E m \in Answer(c, Kind[i]) : m.item = i
    BY DEF ToldIsReadable
  <2>1. Len(epochs) \in Nat /\ Len(epochs) \in 1 .. Len(epochs)
    BY EpochTypes
  <2>2. PICK n \in 1 .. Len(epochs) : Holds(n, Kind[i], i)
    BY DEF IInv, ToldInv
  <2>3. Len(epochs) \in n .. Len(epochs) /\ InRoster(c, epochs[Len(epochs)])
    BY <2>1 DEF Latest, Last
  <2>4. HoldsKey(c, n)
    BY <2>3 DEF HoldsKey
  <2> DEFINE msgs == streams[epochs[n].id][Kind[i]].has
  <2>5. PICK j \in 1 .. Len(msgs) : CountsAt(msgs, j, i, epochs[n])
    BY <2>2 DEF Holds
  <2>6. msgs[j] \in Accepted(epochs[n], Kind[i]) /\ msgs[j].item = i
    BY <2>5 DEF Accepted, CountsAt
  <2>7. msgs[j] \in Answer(c, Kind[i])
    BY <2>4, <2>6 DEF Answer
  <2> QED BY <2>6, <2>7
<1> QED BY <1>1, Invariance, PTL

(* The streams of the latest epoch exist and are open, so that publishing into *)
(* it can succeed (rotate and complete_seals of store.rs).                   *)
THEOREM LatestCanBeWritten == Spec => []LatestIsOpen
<1>1. IInv => LatestIsOpen
  BY DEF IInv, EpochInv, LatestIsOpen, Latest, Last
<1> QED BY <1>1, Invariance, PTL

(* No key a removed member ever held is that of the latest epoch (revoke and   *)
(* propagate_keys).                                                          *)
THEOREM RemovedLoseTheKey == Spec => []RemovedReadNothingNew
<1>1. IInv => RemovedReadNothingNew
  <2> SUFFICES ASSUME IInv, NEW c \in Members, epochs # <<>>, ~InRoster(c, Latest),
                      NEW n \in 1 .. Len(epochs), HoldsKey(c, n), KeyOf(epochs[n]) = KeyOf(Latest)
               PROVE  FALSE
    BY DEF RemovedReadNothingNew, KeysOf
  <2>1. Len(epochs) \in Nat /\ Len(epochs) \in 1 .. Len(epochs)
    BY EpochTypes
  <2>2. n = Len(epochs)
    BY <2>1 DEF IInv, EpochInv, KeyOf, Latest, Last
  <2>3. PICK m \in n .. Len(epochs) : InRoster(c, epochs[m])
    BY DEF HoldsKey
  <2>4. m = Len(epochs)
    BY <2>1, <2>2
  <2> QED BY <2>3, <2>4 DEF Latest, Last
<1> QED BY <1>1, Invariance, PTL
=============================================================================
