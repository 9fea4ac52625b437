-------------------------------- MODULE Epochs --------------------------------
(***************************************************************************)
(* A shared document on a Durable Streams server, which stores bytes and   *)
(* decides nothing (collab/dcp-streams/src/store.rs and doc.rs): a control *)
(* stream of epoch records, and for each epoch its own streams.  An epoch  *)
(* is a roster and a key; every change of the roster is a new one, and the *)
(* streams of the old one are sealed.  What counts is what every client    *)
(* works out from the same streams.                                        *)
(*                                                                         *)
(* A client does one operation at a time (StreamsStore::docs is a mutex),  *)
(* every request of it a step.  The sharer starts with share of            *)
(* collab/collabd/src/daemon.rs.  A client's cache is left out: it only    *)
(* saves reading again what does not change.  So is the lease stream, and  *)
(* the resume hint of a covering version.  Everyone keeps to the code      *)
(* here: signatures, and records nobody could have sent, are left out.     *)
(***************************************************************************)
EXTENDS Naturals, Sequences, SequencesExt

CONSTANTS
  Members,      \* principals, each with one client
  Sharer,       \* who shares the document
  People,       \* whom the sharer grants access first: <<<<member, role>>, ...>>
  Changes,      \* what an owner may do later: {<<member, role>>, ...}
  Items,        \* updates and versions
  Root,         \* the first version
  Genesis,      \* the first update
  Author,       \* who publishes each item
  Kind,         \* "log" for a version, "upd" for an update
  Sends,        \* how often http.rs sends a request nobody answers
  Rounds,       \* how often an item is written into a newer epoch
  MaxAttempts,  \* bound: epochs begun
  MaxCalls      \* bound: publish calls for one item

Roles == {"none", "viewer", "editor", "owner"}
Kinds == {"log", "upd"}
Attempts == 1 .. MaxAttempts

ASSUME EpochsAssumption ==
  /\ Sharer \in Members
  /\ People \in Seq(Members \X Roles) /\ Changes \subseteq Members \X Roles
  /\ {Root, Genesis} \subseteq Items
  /\ Author \in [Items -> Members] /\ Author[Root] = Sharer /\ Author[Genesis] = Sharer
  /\ Kind \in [Items -> Kinds]
  /\ {Sends, Rounds, MaxAttempts, MaxCalls} \subseteq Nat \ {0}

VARIABLES
  epochs,   \* the control stream: the epoch records that count (ingest_epoch)
  streams,  \* per epoch begun and kind: whether it is there, and its messages
  begun,    \* epochs begun: each has streams of its own (new_prefix)
  op,       \* what each client is doing
  share,    \* how far share is
  calls,    \* publish calls made for each item
  told      \* items whose publish call returned Ok

vars == <<epochs, streams, begun, op, share, calls, told>>

\* How far share is: 0, its first grant, ..., its last, its genesis, and then:
Open == Len(People) + 2
Failed == Len(People) + 3

Idle == [at |-> "idle"]
Seal == [k |-> "seal"]
Absent == [is |-> "absent", has |-> <<>>]
Opened == [is |-> "open", has |-> <<>>]

-----------------------------------------------------------------------------
(* What the streams say *)

\* check_epoch: a record counts when it is the first to follow the last that
\* counts, by an owner of that one, and leaves an owner.
Follows(rec) ==
  /\ \E m \in Members : rec.roster[m] = "owner"
  /\ rec.n = Len(epochs)
  /\ rec.prev = Last(epochs).id
  /\ Last(epochs).roster[rec.by] = "owner"

Latest == Last(epochs)
InRoster(c, rec) == rec.roster[c] # "none"
MayWrite(c, rec) == rec.roster[c] \in {"editor", "owner"}

\* Mutant: the new roster goes on with the old key.
KeyReused(rec) == 1

\* The key a rotation makes, and the epochs whose keys a client holds: those
\* wrapped for it, and every earlier one (propagate_keys).
KeyOf(rec) == rec.id
HoldsKey(c, n) == \E m \in n .. Len(epochs) : InRoster(c, epochs[m])
KeysOf(c) == {KeyOf(epochs[n]) : n \in {m \in 1 .. Len(epochs) : HoldsKey(c, m)}}

\* judge, ingest_seal: what a reader takes of a stream of an epoch is up to the
\* seal, by those who may write in that epoch.
Accepted(rec, k) ==
  LET msgs == streams[rec.id][k].has
      Counts(i) == (\A j \in 1 .. i : msgs[j].k # "seal") /\ MayWrite(msgs[i].by, rec)
  IN  {msgs[i] : i \in {j \in 1 .. Len(msgs) : Counts(j)}}

\* updates, versions: what a client that reads every epoch it holds the key for
\* gets.
Answer(c, k) ==
  UNION {Accepted(epochs[n], k) : n \in {m \in 1 .. Len(epochs) : HoldsKey(c, m)}}

\* Mutant: the latest epoch as well.
ToSealAll(c) ==
  {s \in Attempts \X Kinds :
     /\ streams[s[1]][s[2]].is = "open"
     /\ \E n \in 1 .. Len(epochs) : s[1] = epochs[n].id /\ epochs[n].roster[c] = "owner"}

\* complete_seals: every stream of a finished epoch that is still open, as an
\* owner of that epoch.  (A closed stream refuses the seal; nothing changes.)
ToSeal(c) ==
  {s \in Attempts \X Kinds :
     /\ streams[s[1]][s[2]].is = "open"
     /\ \E n \in 1 .. Len(epochs) - 1 : s[1] = epochs[n].id /\ epochs[n].roster[c] = "owner"}

-----------------------------------------------------------------------------
Nobody == [m \in Members |-> "none"]

Init ==
  /\ epochs = <<>>
  /\ streams = [a \in Attempts |-> [k \in Kinds |-> Absent]]
  /\ begun = 0
  /\ op = [c \in Members |-> Idle]
  /\ share = 0
  /\ calls = [i \in Items |-> 0]
  /\ told = {}

Does(c, what) == op' = [op EXCEPT ![c] = what]

\* An operation ends.  One of the sharer's before the document is shared is one
\* of share's calls: the next one follows, or share fails with it.
Ends(c, ok) ==
  /\ Does(c, Idle)
  /\ share' = IF c # Sharer \/ share \in {Open, Failed} THEN share
              ELSE IF ~ok THEN Failed
              ELSE share + 1

\* Who may begin an operation: nobody knows the document before it is shared.
Free(c) == op[c].at = "idle" /\ share = Open

-----------------------------------------------------------------------------
(* create_document, and the rest of share: the root, the people, the genesis *)

CreateDocument ==
  /\ share = 0 /\ op[Sharer].at = "idle" /\ begun = 0
  /\ begun' = 1
  /\ streams' = [streams EXCEPT ![1] = [k \in Kinds |-> Opened]]
  /\ Does(Sharer, [at |-> "announcing"])
  /\ UNCHANGED <<epochs, share, calls, told>>

\* "Last: the document exists for everyone else once its control stream does."
Announce ==
  /\ op[Sharer].at = "announcing"
  /\ \E ok \in BOOLEAN :
       /\ epochs' = IF ok THEN <<[n |-> 0, id |-> 1, prev |-> 0, by |-> Sharer, asked |-> <<Sharer, "owner">>,
                                roster |-> [Nobody EXCEPT ![Sharer] = "owner"]]>>
                 ELSE epochs
       /\ IF ok THEN Does(Sharer, Idle) /\ UNCHANGED share ELSE Ends(Sharer, FALSE)
  /\ UNCHANGED <<streams, begun, calls, told>>

\* The call share makes next.
SharerCalls(i) == epochs # <<>> /\ op[Sharer].at = "idle" /\ share = i

-----------------------------------------------------------------------------
(* publish_update, publish_version *)

\* current: the control stream is read, and the record made for the latest epoch.
StartPublish(c, i) ==
  /\ \/ Free(c) /\ i \notin {Root, Genesis}
     \/ c = Sharer /\ i = Root /\ SharerCalls(0)
     \/ c = Sharer /\ i = Genesis /\ SharerCalls(Len(People) + 1)
  /\ Author[i] = c /\ i \notin told /\ calls[i] < MaxCalls
  /\ MayWrite(c, Latest)
  /\ Does(c, [at |-> "posting", item |-> i, id |-> Latest.id, sends |-> Sends, rounds |-> Rounds])
  /\ calls' = [calls EXCEPT ![i] = @ + 1]
  /\ UNCHANGED <<epochs, streams, begun, share, told>>

Record(c) == [k |-> Kind[op[c].item], item |-> op[c].item, call |-> calls[op[c].item], by |-> c]
Target(c) == streams[op[c].id][Kind[op[c].item]]

\* Mutant: the seal is appended, the stream stays open.
StoreOpen(id, k, msg, state) ==
  streams' = [streams EXCEPT ![id][k] =
                [is |-> "open", has |-> IF Contains(@.has, msg) THEN @.has ELSE Append(@.has, msg)]]

\* (Of a record stored twice readers drop the second copy; it is left out.)
Store(id, k, msg, state) ==
  streams' = [streams EXCEPT ![id][k] =
                [is |-> state, has |-> IF Contains(@.has, msg) THEN @.has ELSE Append(@.has, msg)]]

\* Mutant: it never gives up in time.
UnansweredOnceMore(c) ==
  IF op[c].sends > 0 THEN Does(c, [op[c] EXCEPT !.sends = @ - 1]) /\ UNCHANGED share
  ELSE Ends(c, FALSE)

\* Http::send tries again when no answer comes, and gives up in the end.
Unanswered(c) ==
  IF op[c].sends > 1 THEN Does(c, [op[c] EXCEPT !.sends = @ - 1]) /\ UNCHANGED share
  ELSE Ends(c, FALSE)

PostStored(c) ==
  /\ op[c].at = "posting" /\ Target(c).is = "open"
  /\ Store(op[c].id, Kind[op[c].item], Record(c), "open")
  /\ \/ Ends(c, TRUE) /\ told' = told \cup {op[c].item}
     \/ Unanswered(c) /\ UNCHANGED told
  /\ UNCHANGED <<epochs, begun, calls>>

\* (A request that is lost and sent again changes nothing until it gives up.)
PostLost(c) ==
  /\ op[c].at = "posting"
  /\ Ends(c, FALSE)
  /\ UNCHANGED <<epochs, streams, begun, calls, told>>

\* 409, closed: the epoch was sealed meanwhile.
PostSealed(c) ==
  /\ op[c].at = "posting" /\ Target(c).is = "closed"
  /\ IF op[c].rounds > 1 THEN Does(c, [op[c] EXCEPT !.at = "again"]) /\ UNCHANGED share
     ELSE Ends(c, FALSE)
  /\ UNCHANGED <<epochs, streams, begun, calls, told>>

\* The control stream again, and a new record for the epoch that is now the
\* latest.
PublishAgain(c) ==
  /\ op[c].at = "again"
  /\ IF MayWrite(c, Latest)
     THEN /\ Does(c, [at |-> "posting", item |-> op[c].item, id |-> Latest.id, sends |-> Sends,
                         rounds |-> op[c].rounds - 1])
          /\ UNCHANGED share
     ELSE Ends(c, FALSE)
  /\ UNCHANGED <<epochs, streams, begun, calls, told>>

-----------------------------------------------------------------------------
(* grant, revoke, rotate, heal *)

\* grant and revoke make the new roster from the latest epoch (what changes
\* nothing returns at once) ...
AskChange(c, m, r) ==
  /\ \/ Free(c) /\ <<m, r>> \in Changes
     \/ /\ c = Sharer /\ \E i \in 1 .. Len(People) : SharerCalls(i) /\ People[i] = <<m, r>>
  /\ Latest.roster[c] = "owner"
  /\ Latest.roster[m] # r /\ (r = "none" => m # c)
  /\ Does(c, [at |-> "asked", asked |-> <<m, r>>, roster |-> [Latest.roster EXCEPT ![m] = r]])
  /\ UNCHANGED <<epochs, streams, begun, share, calls, told>>

\* ... and rotate reads the control stream once more, for the epoch to follow.
\* First it completes the seals an earlier rotation left out.
StartRotation(c) ==
  /\ op[c].at = "asked"
  /\ IF Latest.roster[c] = "owner"
     THEN /\ Does(c, [at |-> "healing", todo |-> ToSeal(c), asked |-> op[c].asked, roster |-> op[c].roster,
                      n |-> Latest.n + 1, prev |-> Latest.id])
          /\ UNCHANGED share
     ELSE Ends(c, FALSE)
  /\ UNCHANGED <<epochs, streams, begun, calls, told>>

\* heal: only that.
Heal(c) ==
  /\ Free(c)
  /\ ToSeal(c) # {}
  /\ Does(c, [at |-> "sealing", todo |-> ToSeal(c)])
  /\ UNCHANGED <<epochs, streams, begun, share, calls, told>>

\* Oldest epoch first (its id is the lowest), its log first.
Before(s, t) == s[1] < t[1] \/ (s[1] = t[1] /\ s[2] = "log")

\* One seal: the last message and the close in one request.  A failure is
\* ignored.
SealNext(c) ==
  /\ op[c].at \in {"healing", "sealing"} 
  /\ \E s \in op[c].todo :
       /\ \A t \in op[c].todo : t = s \/ Before(s, t)
       /\ \/ streams[s[1]][s[2]].is = "open" /\ Store(s[1], s[2], Seal, "closed")
          \/ UNCHANGED streams
       /\ Does(c, [op[c] EXCEPT !.todo = @ \ {s}])
  /\ UNCHANGED <<epochs, begun, share, calls, told>>

Sealed(c) ==
  /\ op[c].at = "sealing" /\ op[c].todo = {}
  /\ Ends(c, TRUE)
  /\ UNCHANGED <<epochs, streams, begun, calls, told>>

\* 1. the new epoch's streams, before anyone can see the epoch.
CreateStreams(c) ==
  /\ op[c].at = "healing" /\ op[c].todo = {}
  /\ begun < MaxAttempts
  /\ \/ /\ begun' = begun + 1
        /\ streams' = [streams EXCEPT ![begun + 1] = [k \in Kinds |-> Opened]]
        /\ Does(c, [at |-> "created", rec |-> [n |-> op[c].n, id |-> begun + 1, prev |-> op[c].prev, by |-> c,
                                               asked |-> op[c].asked, roster |-> op[c].roster]])
        /\ UNCHANGED share
     \/ Ends(c, FALSE) /\ UNCHANGED <<begun, streams>>
  /\ UNCHANGED <<epochs, calls, told>>

\* 2. the epoch record.  (Sent twice, it counts once: ctl_seen.)
AppendEpoch(c) ==
  /\ op[c].at = "created"
  /\ \/ /\ epochs' = IF Follows(op[c].rec) THEN Append(epochs, op[c].rec) ELSE epochs
        /\ \/ Does(c, [at |-> "checking", rec |-> op[c].rec]) /\ UNCHANGED share
           \/ Ends(c, FALSE)
     \/ Ends(c, FALSE) /\ UNCHANGED epochs
  /\ UNCHANGED <<streams, begun, calls, told>>

Won(rec) == Len(epochs) > rec.n /\ epochs[rec.n + 1].id = rec.id

\* 3. who won?  4. the winner seals; the loser deletes its streams.
Check(c) ==
  /\ op[c].at = "checking"
  /\ \/ /\ Won(op[c].rec)
        /\ Does(c, [at |-> "sealing", todo |-> ToSeal(c)])
        /\ UNCHANGED <<streams, share>>
     \/ /\ ~Won(op[c].rec)
        /\ streams' = [streams EXCEPT ![op[c].rec.id] = [k \in Kinds |-> Absent]]
        /\ Ends(c, FALSE)
     \/ Ends(c, FALSE) /\ UNCHANGED streams
  /\ UNCHANGED <<epochs, begun, calls, told>>

\* The client's process dies: whatever it was doing is left where it is.
Crash(c) ==
  /\ op[c].at \in {"announcing", "posting", "again", "healing", "created", "checking", "sealing"}
  /\ Ends(c, FALSE)
  /\ UNCHANGED <<epochs, streams, begun, calls, told>>

Next ==
  \/ CreateDocument \/ Announce
  \/ \E c \in Members :
       \/ \E i \in Items : StartPublish(c, i)
       \/ PostStored(c) \/ PostLost(c) \/ PostSealed(c) \/ PublishAgain(c)
       \/ \E m \in Members, r \in Roles : AskChange(c, m, r)
       \/ StartRotation(c) \/ Heal(c) \/ SealNext(c) \/ Sealed(c)
       \/ CreateStreams(c) \/ AppendEpoch(c) \/ Check(c)
       \/ Crash(c)

Spec == Init /\ [][Next]_vars

-----------------------------------------------------------------------------
TypeOK ==
  /\ \A i \in 1 .. Len(epochs) : epochs[i].id \in 1 .. begun /\ epochs[i].roster \in [Members -> Roles]
  /\ \A a \in Attempts, k \in Kinds :
       streams[a][k].is \in {"absent", "open", "closed"}
  /\ begun \in 0 .. MaxAttempts
  /\ share \in 0 .. Failed
  /\ calls \in [Items -> 0 .. MaxCalls]
  /\ \A c \in Members : op[c].at = "posting" => op[c].sends \in 1 .. Sends
  /\ told \subseteq Items

\* What a publish call returned Ok for is read by every member there is, those
\* added later included, whatever rotations it raced and however they ended:
\* the genesis first of all, once the document is shared.
ToldIsReadable ==
  \A i \in told, c \in Members :
    epochs # <<>> /\ InRoster(c, Latest) => \E m \in Answer(c, Kind[i]) : m.item = i

\* The latest epoch can be written into: rotate makes its streams before its
\* record, a rotation that lost deletes only streams of its own, and only
\* finished epochs are sealed.
LatestIsOpen ==
  epochs # <<>> => \A k \in Kinds : streams[Latest.id][k].is = "open"

\* One who was removed holds no key of an epoch after that ("a removed member
\* must not read content published afterwards").
RemovedReadNothingNew ==
  \A c \in Members : epochs # <<>> /\ ~InRoster(c, Latest) => KeyOf(Latest) \notin KeysOf(c)

\* A new epoch differs from the one it follows in what its owner asked for, and
\* in nothing else: two owners can rotate at once, and one of them finds out.
RosterChangesAsAsked ==
  \A n \in 2 .. Len(epochs) :
    epochs[n].roster = [epochs[n - 1].roster EXCEPT ![epochs[n].asked[1]] = epochs[n].asked[2]]
=============================================================================
