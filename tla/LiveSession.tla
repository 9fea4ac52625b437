----------------------------- MODULE LiveSession -----------------------------
(***************************************************************************)
(* A shared document edited by several people at once: for every editor a   *)
(* shell (letters/src/collab_session.rs) and its sidecar's document task    *)
(* (collab/collabd/src/doc.rs) joined by two pipes, and between the          *)
(* editors one document store: an append-only update log and a list of      *)
(* versions.                                                                *)
(*                                                                         *)
(* An edit is <<editor, k>>, the k-th update that editor's shell made; the  *)
(* genesis is the sharer's edit 0.  A replica is the set of edits imported  *)
(* into it (Loro's imports commute and repeat harmlessly, loro-1.md section *)
(* 5).  An update is named by its place in the log, a version by its place  *)
(* in the list.  The file of a version is the replica it was written from.  *)
(* The run loop handles one message, send or read at a time.  It does not    *)
(* take a message or a read before flush() has emptied the outbox or has    *)
(* been told to wait; as any send may be rate limited or fail, and the      *)
(* waits of module Outbox have no lower bound here, that is whenever no     *)
(* send or read is in progress.                                             *)
(***************************************************************************)
EXTENDS Integers, Sequences, FiniteSets, FiniteSetsExt, SequencesExt

CONSTANTS
    Editors,        \* who takes part; in the order of their stream keys
    Sharer,         \* who shared the document, and wrote its genesis
    BadEdits,       \* edits whose dry run fails in every other shell
    Leavers,        \* editors who may stop sharing
    Resyncers,      \* editors who may ask for a resync, once each
    MaxEdits,       \* bound: edits per editor, the genesis not counted
    Plans,          \* bound: how many edits, versions (the root included) and resyncs
                    \* a behaviour may have together; a merge may be one more
    MaxLog,         \* bound: no answer to an update is lost once the log is this long
    MayRefuse       \* whether the store may refuse an item for good

ASSUME EditorsAssumption == Editors \subseteq Nat /\ IsFiniteSet(Editors) /\ Sharer \in Editors
ASSUME SubsetAssumption == Leavers \cup Resyncers \subseteq Editors /\ BadEdits \subseteq Editors \X Nat
ASSUME LiveBoundAssumption ==
    /\ {MaxEdits, MaxLog} \subseteq Nat /\ Plans \subseteq Nat \X Nat \X Nat
    /\ MayRefuse \in BOOLEAN

VARIABLES
    log,        \* the update log: DocumentStore::updates
    versions,   \* the versions: DocumentStore::versions
    shell,      \* per editor, the shell's session
    side,       \* per editor, the sidecar's document task
    toSide,     \* per editor, the pipe of commands
    toShell,    \* per editor, the pipe of events
    asked,      \* history: versions asked for, the root included
    refused     \* history: edits whose update the store refused

vars == <<log, versions, shell, side, toSide, toShell, asked, refused>>

Genesis == <<Sharer, 0>>
Root == 1
GenesisId == 1

-----------------------------------------------------------------------------
(* What is stored *)

(* The updates of stream s among the first n of the log, and their numbers. *)
Stream(s, n) == {i \in 1 .. n : log[i].by = s}
Numbers(s, n) == {log[i].seq : i \in Stream(s, n)}

(* Of two updates with one number the receiver takes the earlier. *)
First(s, k, n) == Min({i \in Stream(s, n) : log[i].seq = k})

(* graph::heads: the versions no other names as a parent. *)
HeadsOf(known) == {v \in known : \A w \in known : v \notin versions[w].parents}

(* Proper ancestors of v along versions in known; parents come earlier in   *)
(* the list than their children.                                            *)
AncestorsIn(known, v) ==
    LET anc[w \in 1 .. Len(versions)] ==
            IF w \in known
            THEN versions[w].parents \cup UNION {anc[p] : p \in versions[w].parents}
            ELSE {}
    IN  anc[v]

(* graph::antichain *)
Antichain(known, members) ==
    {m \in members : \A n \in members \ {m} : m \notin AncestorsIn(known, n)}

-----------------------------------------------------------------------------
(* What a sidecar holds *)

(* Mutant: the latest applied, holes or not. *)
PrefixWithHoles(applied, n) == Max({0} \cup {k \in 1 .. n : k \in applied})

(* Prefix::new: how much of the log, as far as read, is applied without a   *)
(* hole.                                                                    *)
Prefix(applied, n) == Max({k \in 0 .. n : 1 .. k \subseteq applied})

(* Mutant: a version through the end of the prefix is not covered. *)
CoveredStrictly(vs, s, v, prefix) == v \in s.mine \/ vs[v].through \in 1 .. prefix - 1

(* Held::covered, vs being the list of versions *)
Covered(vs, s, v, prefix) == v \in s.mine \/ vs[v].through \in 1 .. prefix

(* emit_heads: what the shell is told of the heads.  The event is sent when   *)
(* the report differs from the last one; of the events on their way only the *)
(* last matters, so they are not in the pipe: see HearHeads.                *)
HeadsReport(vs, s) ==
    IF s.heads = {} THEN s.told
    ELSE [heads   |-> s.heads,
          covered |-> {h \in s.heads : Covered(vs, s, h, Prefix(s.applied, s.seen))}]
Conflict(report) == Cardinality(report.heads) > 1 /\ report.covered # report.heads

(* Receiver::ingest_resolved for stream k over the first n updates, from the *)
(* position s.pos[k] (none: the first number there is, start_of).           *)
Start(s, k, n) == IF s.pos[k] = -1 THEN Min(Numbers(k, n)) ELSE s.pos[k]
Reach(s, k, n) ==
    Min({j \in Start(s, k, n) .. Len(log) + MaxEdits + 1 : j \notin Numbers(k, n)})
Reads(s, k, n) == Numbers(k, n) # {} /\ k \notin s.stopped
HasGap(s, k, n) == \E j \in Numbers(k, n) : j > Reach(s, k, n)

Accepts(s, n) ==
    UNION {{First(k, j, n) : j \in Start(s, k, n) .. Reach(s, k, n) - 1} :
           k \in {x \in Editors : Reads(s, x, n)}}
Duplicates(s, n) ==
    UNION {{i \in Stream(k, n) : log[i].seq < Reach(s, k, n) /\ i # First(k, log[i].seq, n)} :
           k \in {x \in Editors : Reads(s, x, n)}}

(* Mutant: the latest number of a stream first. *)
DeliveryOrderBackwards(i, j) ==
    \/ i = GenesisId /\ j # GenesisId
    \/ j # GenesisId /\ log[i].by < log[j].by
    \/ j # GenesisId /\ log[i].by = log[j].by /\ log[i].seq > log[j].seq

(* What on_updates hands to the shell: stream by stream in key order, each   *)
(* in seq order, the genesis before all.                                    *)
DeliveryOrder(i, j) ==
    \/ i = GenesisId /\ j # GenesisId
    \/ j # GenesisId /\ log[i].by < log[j].by
    \/ j # GenesisId /\ log[i].by = log[j].by /\ log[i].seq < log[j].seq
UpdateEvents(ids) ==
    LET places == 1 .. Cardinality(ids)
        sorted == CHOOSE q \in [places -> ids] :
                      \A a, b \in places : a < b => DeliveryOrder(q[a], q[b])
    IN  [p \in places |-> [t  |-> IF sorted[p] = GenesisId THEN "genesis" ELSE "update",
                           id |-> sorted[p]]]

-----------------------------------------------------------------------------
(* Initially the document is shared: the root version and the genesis are    *)
(* stored, the sharer is live and the others have been answered `joined`.    *)

NewSide(e) ==
    [session  |-> e = Sharer,
     applied  |-> IF e = Sharer THEN {GenesisId} ELSE {},
     awaiting |-> {},
     mine     |-> IF e = Sharer THEN {Root} ELSE {},
     opened   |-> IF e = Sharer THEN Root ELSE 0,
     known    |-> {},
     heads    |-> {},
     told     |-> [heads |-> {}, covered |-> {}],
     nextSeq  |-> IF e = Sharer THEN 1 ELSE 0,
     pos      |-> [s \in Editors |-> -1],
     stopped  |-> {},
     seen     |-> 0,
     outbox   |-> <<>>,
     at       |-> "loop",
     order    |-> 0]

NewShell(e) ==
    [phase   |-> IF e = Sharer THEN "live" ELSE "awaiting",
     replica |-> IF e = Sharer THEN {Genesis} ELSE {},
     edits   |-> 0,
     queued  |-> <<>>,
     shown   |-> [heads |-> {}, covered |-> {}],
     resynced |-> FALSE]

Init ==
    /\ log = <<[by |-> Sharer, seq |-> 0, edit |-> Genesis]>>
    /\ versions = <<[by |-> Sharer, parents |-> {}, through |-> 0,
                     file |-> {Genesis}, from |-> 0]>>
    /\ shell = [e \in Editors |-> NewShell(e)]
    /\ side = [e \in Editors |-> NewSide(e)]
    /\ toSide = [e \in Editors |-> <<>>]
    /\ toShell = [e \in Editors |-> <<>>]
    /\ asked = 1
    /\ refused = {}

-----------------------------------------------------------------------------
(* The shell *)

Tell(e, messages) == toSide' = [toSide EXCEPT ![e] = @ \o messages]

(* The bounds on edits, versions and resyncs together. *)
AllOf == MapThenSumSet(LAMBDA e : shell[e].edits, Editors)
Resyncs == Cardinality({e \in Resyncers : shell[e].resynced})
Planned(edits, versionsAsked, resyncs) ==
    \E p \in Plans : edits <= p[1] /\ versionsAsked <= p[2] /\ resyncs <= p[3]

(* publish: one local action's update. *)
EditOf(e) == <<e, shell[e].edits + (IF e = Sharer THEN 1 ELSE 0)>>
Edit(e) ==
    /\ shell[e].phase = "live"
    /\ shell[e].edits < MaxEdits /\ Planned(AllOf + 1, asked, Resyncs)
    /\ shell' = [shell EXCEPT ![e].replica = @ \cup {EditOf(e)}, ![e].edits = @ + 1]
    /\ Tell(e, <<[t |-> "update", edit |-> EditOf(e)]>>)
    /\ UNCHANGED <<log, versions, side, toShell, asked, refused>>

(* publish_saved: the file just written, published as a version. *)
Save(e) ==
    /\ shell[e].phase = "live"
    /\ Planned(AllOf, asked + 1, Resyncs)
    /\ asked' = asked + 1
    /\ Tell(e, <<[t |-> "version", file |-> shell[e].replica, resolve |-> {}]>>)
    /\ UNCHANGED <<log, versions, shell, side, toShell, refused>>

(* keep_mine: the document as it is, published as the merge of the heads     *)
(* the shell was last told of.                                              *)
KeepMine(e) ==
    /\ shell[e].phase = "live"
    /\ Conflict(shell[e].shown)
    /\ Planned(AllOf, asked, Resyncs)
    /\ asked' = asked + 1
    /\ Tell(e, <<[t |-> "version", file |-> shell[e].replica,
                  resolve |-> shell[e].shown.heads]>>)
    /\ UNCHANGED <<log, versions, shell, side, toShell, refused>>

AskResync(e) ==
    /\ shell[e].phase = "live"
    /\ e \in Resyncers
    /\ ~shell[e].resynced /\ Planned(AllOf, asked, Resyncs + 1)
    /\ shell' = [shell EXCEPT ![e].resynced = TRUE]
    /\ Tell(e, <<[t |-> "resync"]>>)
    /\ UNCHANGED <<log, versions, side, toShell, asked, refused>>

(* leave: the session ends and its sidecar with it, whatever is queued. *)
Leave(e) ==
    /\ e \in Leavers
    /\ shell[e].phase # "left"
    /\ shell' = [shell EXCEPT ![e].phase = "left", ![e].queued = <<>>]
    /\ side' = [side EXCEPT ![e].outbox = <<>>, ![e].awaiting = {}, ![e].at = "loop",
                            ![e].order = 0]
    /\ toSide' = [toSide EXCEPT ![e] = <<>>]
    /\ toShell' = [toShell EXCEPT ![e] = <<>>]
    /\ UNCHANGED <<log, versions, asked, refused>>

(* import_remote and the answer: a failed dry run leaves the replica alone. *)
Imported(ids) == {log[i].edit : i \in ids} \ BadEdits
Answer(id) == [t |-> IF log[id].edit \in BadEdits THEN "rejected" ELSE "applied", id |-> id]

(* on_genesis: answered at once; the replica is made of its bytes when the   *)
(* root version's file has come.                                            *)
HearGenesis(e, m) ==
    IF shell[e].phase = "awaiting"
    THEN /\ shell' = [shell EXCEPT ![e].phase = "verifying", ![e].replica = {Genesis}]
         /\ Tell(e, <<[t |-> "applied", id |-> m.id], [t |-> "fetch"]>>)
    ELSE /\ UNCHANGED shell
         /\ Tell(e, <<[t |-> "applied", id |-> m.id]>>)

(* Mutant: an update that comes before the document is live is dropped. *)
HearUpdateDropping(e, m) ==
    IF shell[e].phase = "live"
    THEN /\ shell' = [shell EXCEPT ![e].replica = @ \cup Imported({m.id})]
         /\ Tell(e, <<Answer(m.id)>>)
    ELSE UNCHANGED <<shell, toSide>>

(* apply_update: queued until the document is live. *)
HearUpdate(e, m) ==
    IF shell[e].phase = "live"
    THEN /\ shell' = [shell EXCEPT ![e].replica = @ \cup Imported({m.id})]
         /\ Tell(e, <<Answer(m.id)>>)
    ELSE /\ shell' = [shell EXCEPT ![e].queued = Append(@, m.id)]
         /\ UNCHANGED toSide

(* finish_join: the document goes live and the queued updates are applied. *)
HearFile(e) ==
    /\ shell' = [shell EXCEPT ![e].phase = "live", ![e].queued = <<>>,
                              ![e].replica = @ \cup Imported(Range(shell[e].queued))]
    /\ Tell(e, [i \in DOMAIN shell[e].queued |-> Answer(shell[e].queued[i])])

Hear(e) ==
    /\ toShell[e] # <<>>
    /\ LET m == Head(toShell[e])
       IN  \/ m.t = "genesis" /\ HearGenesis(e, m)
           \/ m.t = "update" /\ HearUpdate(e, m)
           \/ m.t = "file" /\ HearFile(e)
    /\ toShell' = [toShell EXCEPT ![e] = Tail(@)]
    /\ UNCHANGED <<log, versions, side, asked, refused>>

(* The heads event. *)
HearHeads(e) ==
    /\ shell[e].phase # "left"
    /\ shell[e].shown # side[e].told
    /\ shell' = [shell EXCEPT ![e].shown = side[e].told]
    /\ UNCHANGED <<log, versions, side, toSide, toShell, asked, refused>>

-----------------------------------------------------------------------------
(* The sidecar: messages from the shell *)

Running(e) == shell[e].phase # "left"
Idle(e) == Running(e) /\ side[e].at = "loop"

Send(e, messages) == toShell' = [toShell EXCEPT ![e] = @ \o messages]
Become(e, s) == side' = [side EXCEPT ![e] = s]

(* The task's state becomes s, and emit_heads is called.  (Bound, s is        *)
(* evaluated once.)                                                         *)
EmitHeads(e, vs, s) == \E t \in {s} : Become(e, [t EXCEPT !.told = HeadsReport(vs, t)])

(* on_msg, PublishUpdate: the number is taken when the update is queued. *)
OnPublishUpdate(e, m) ==
    LET s == side[e]
    IN  /\ Become(e, IF ~s.session THEN s ELSE
                     [s EXCEPT !.nextSeq = @ + 1,
                               !.outbox = Append(@, [t |-> "update", seq |-> s.nextSeq,
                                                     edit |-> m.edit])])
        /\ UNCHANGED toShell

(* Mutant: a save overtakes the updates before it. *)
OnPublishVersionFirst(e, m) ==
    /\ Become(e, [side[e] EXCEPT !.outbox = <<m>> \o @])
    /\ UNCHANGED toShell

OnPublishVersion(e, m) ==
    /\ Become(e, [side[e] EXCEPT !.outbox = Append(@, m)])
    /\ UNCHANGED toShell

(* Mutants: a rejected update is awaited for ever; the heads are not looked  *)
(* at when an update is applied.                                            *)
OnAnswerApplied(e, m) ==
    IF m.t = "applied" /\ m.id \in side[e].awaiting
    THEN /\ EmitHeads(e, versions, [side[e] EXCEPT !.awaiting = @ \ {m.id},
                                                    !.applied = @ \cup {m.id}])
         /\ UNCHANGED toShell
    ELSE UNCHANGED <<side, toShell>>
OnAnswerSilently(e, m) ==
    IF m.id \in side[e].awaiting
    THEN /\ Become(e, [side[e] EXCEPT !.awaiting = @ \ {m.id}, !.applied = @ \cup {m.id}])
         /\ UNCHANGED toShell
    ELSE UNCHANGED <<side, toShell>>

(* on_msg, Applied and Rejected: an answer to something not awaited is only  *)
(* logged.  A rejected update counts as applied, so that the prefix does not *)
(* stall at it.                                                             *)
OnAnswer(e, m) ==
    IF m.id \in side[e].awaiting
    THEN /\ EmitHeads(e, versions, [side[e] EXCEPT !.awaiting = @ \ {m.id},
                                                    !.applied = @ \cup {m.id}])
         /\ UNCHANGED toShell
    ELSE UNCHANGED <<side, toShell>>

OnFetch(e) ==
    /\ Send(e, <<[t |-> "file"]>>)
    /\ UNCHANGED side

OnResync(e) ==
    /\ Become(e, [side[e] EXCEPT !.pos = [s \in Editors |-> -1], !.stopped = {},
                                 !.awaiting = {}, !.applied = {}])
    /\ UNCHANGED toShell

OnMsg(e) ==
    /\ Idle(e)
    /\ toSide[e] # <<>>
    /\ LET m == Head(toSide[e])
       IN  \/ m.t = "update" /\ OnPublishUpdate(e, m)
           \/ m.t = "version" /\ OnPublishVersion(e, m)
           \/ m.t \in {"applied", "rejected"} /\ OnAnswer(e, m)
           \/ m.t = "fetch" /\ OnFetch(e)
           \/ m.t = "resync" /\ OnResync(e)
    /\ toSide' = [toSide EXCEPT ![e] = Tail(@)]
    /\ UNCHANGED <<log, versions, shell, asked, refused>>

-----------------------------------------------------------------------------
(* The sidecar: flush and send_one *)

Sends(e, t) ==
    /\ Running(e)
    /\ side[e].at # "polling"
    /\ side[e].outbox # <<>>
    /\ Head(side[e].outbox).t = t

(* The head leaves the outbox: accepted, or discarded by flush when refused. *)
Popped(s) == [s EXCEPT !.outbox = Tail(@), !.at = "loop", !.order = 0]

(* It stays at the head, to be sent again from the beginning. *)
BackedOff(s) == [s EXCEPT !.at = "loop", !.order = 0]

StoreUpdate(e) ==
    LET item == Head(side[e].outbox)
    IN  log' = Append(log, [by |-> e, seq |-> item.seq, edit |-> item.edit])

UpdateAccepted(e) ==
    /\ Sends(e, "update")
    /\ StoreUpdate(e)
    /\ Become(e, [Popped(side[e]) EXCEPT !.applied = @ \cup {Len(log) + 1}])
    /\ UNCHANGED <<versions, shell, toSide, toShell, asked, refused>>

(* A transport failure after the store appended the update: it is sent again *)
(* with the same number.                                                    *)
UpdateAnswerLost(e) ==
    /\ Sends(e, "update")
    /\ Len(log) < MaxLog
    /\ StoreUpdate(e)
    /\ Become(e, BackedOff(side[e]))
    /\ UNCHANGED <<versions, shell, toSide, toShell, asked, refused>>

(* Step::Refused: flush discards the head and goes on with the next item. *)
UpdateRefused(e) ==
    /\ MayRefuse
    /\ Sends(e, "update")
    /\ refused' = refused \cup {Head(side[e].outbox).edit}
    /\ Become(e, Popped(side[e]))
    /\ UNCHANGED <<log, versions, shell, toSide, toShell, asked>>

NothingToSaveFrom(e) ==
    Head(side[e].outbox).resolve = {} /\ side[e].opened = 0

VersionRefused(e) ==
    /\ Sends(e, "version")
    /\ MayRefuse \/ (NothingToSaveFrom(e) /\ side[e].at = "saving")
    /\ Become(e, Popped(side[e]))
    /\ UNCHANGED <<log, versions, shell, toSide, toShell, asked, refused>>

(* send_one, Version: the log is read first. *)
ReadOrder(e) ==
    /\ Sends(e, "version")
    /\ side[e].at = "loop"
    /\ Become(e, [side[e] EXCEPT !.at = "saving", !.order = Len(log)])
    /\ UNCHANGED <<log, versions, shell, toSide, toShell, asked, refused>>

(* Mutants: one update too many; the covered heads alone; with ancestors. *)
ThroughNext(s) == Prefix(s.applied, s.order) + 1
ParentsCovered(s, item) ==
    IF item.resolve # {} THEN item.resolve
    ELSE {h \in s.heads : Covered(versions, s, h, Prefix(s.applied, s.order))}
ParentsUnreduced(s, item) ==
    IF item.resolve # {} THEN item.resolve
    ELSE {s.opened} \cup {h \in s.heads : Covered(versions, s, h, Prefix(s.applied, s.order))}

(* What the version claims to cover, and its parents, from what is held now. *)
Through(s) == Prefix(s.applied, s.order)
ParentsOf(s, item) ==
    IF item.resolve # {} THEN item.resolve
    ELSE Antichain(s.known, {s.opened} \cup {h \in s.heads : Covered(versions, s, h, Through(s))})

StoreVersion(e) ==
    LET s == side[e]
        item == Head(s.outbox)
    IN  /\ s.at = "saving"
        /\ ~NothingToSaveFrom(e)
        /\ versions' = Append(versions, [by |-> e, parents |-> ParentsOf(s, item),
                                         through |-> Through(s), file |-> item.file,
                                         from |-> IF item.resolve = {} THEN s.opened ELSE 0])

(* saved_version: the new version is a head from now on, in place of its     *)
(* parents.                                                                 *)
Saved(s, v, parents) ==
    [s EXCEPT !.mine = @ \cup {v}, !.opened = v, !.known = @ \cup {v},
              !.heads = IF @ = {} THEN {} ELSE (@ \ parents) \cup {v}]

VersionAccepted(e) ==
    /\ Sends(e, "version")
    /\ StoreVersion(e)
    /\ LET v == Len(versions) + 1
       IN  EmitHeads(e, versions', Saved(Popped(side[e]), v, versions'[v].parents))
    /\ UNCHANGED <<log, shell, toSide, toShell, asked, refused>>

VersionAnswerLost(e) ==
    /\ Sends(e, "version")
    /\ Planned(AllOf, asked + 1, Resyncs)
    /\ asked' = asked + 1
    /\ StoreVersion(e)
    /\ Become(e, BackedOff(side[e]))
    /\ UNCHANGED <<log, shell, toSide, toShell, refused>>

(* A transport failure or a rate limit between the two calls of a save.      *)
(* (Failing before the first call leaves everything as it was.)             *)
VersionFailed(e) ==
    /\ Running(e)
    /\ side[e].at = "saving"
    /\ Become(e, BackedOff(side[e]))
    /\ UNCHANGED <<log, versions, shell, toSide, toShell, asked, refused>>

-----------------------------------------------------------------------------
(* The sidecar: poll *)

(* need_poll: wait_for_change has something to tell, or the last read failed *)
(* before it was done.  A read that finds nothing new changes nothing.      *)
HasNews(e) ==
    \/ side[e].known # 1 .. Len(versions)
    \/ side[e].seen # Len(log)
    \/ Accepts(side[e], Len(log)) # {}

(* on_versions *)
PollVersions(e) ==
    /\ Idle(e)
    /\ HasNews(e)
    /\ LET all == 1 .. Len(versions)
       IN  Become(e, [side[e] EXCEPT !.known = all, !.heads = HeadsOf(all),
                                     !.opened = IF @ = 0 THEN Max(HeadsOf(all)) ELSE @,
                                     !.at = "polling"])
    /\ UNCHANGED <<log, versions, shell, toSide, toShell, asked, refused>>

(* Mutant: an update is taken for applied when it is sent to the shell. *)
PollUpdatesTrusting(e) ==
    LET s == side[e]
        n == Len(log)
        accepted == Accepts(s, n)
        new == {k \in Editors : Reads(s, k, n)}
    IN  /\ Running(e)
        /\ s.at = "polling"
        /\ EmitHeads(e, versions,
               [s EXCEPT !.session = TRUE,
                         !.seen = n,
                         !.pos = [k \in Editors |-> IF k \in new THEN Reach(s, k, n) ELSE @[k]],
                         !.stopped = @ \cup {k \in new : HasGap(s, k, n)},
                         !.applied = @ \cup accepted \cup Duplicates(s, n),
                         !.at = "loop"])
        /\ Send(e, UpdateEvents({i \in accepted : log[i].by # e}))
        /\ UNCHANGED <<log, versions, shell, toSide, asked, refused>>

(* on_updates and the emit_heads that follows it.  The ids of streams the    *)
(* receiver has not met stay unread; an update this device wrote is applied  *)
(* without asking the shell, as is one the receiver skips.                  *)
PollUpdates(e) ==
    LET s == side[e]
        n == Len(log)
        accepted == Accepts(s, n)
        own == {i \in accepted : log[i].by = e}
        new == {k \in Editors : Reads(s, k, n)}
    IN  /\ Running(e)
        /\ s.at = "polling"
        /\ EmitHeads(e, versions,
               [s EXCEPT !.session = TRUE,
                         !.seen = n,
                         !.pos = [k \in Editors |-> IF k \in new THEN Reach(s, k, n) ELSE @[k]],
                         !.stopped = @ \cup {k \in new : HasGap(s, k, n)},
                         !.applied = @ \cup own \cup Duplicates(s, n),
                         !.awaiting = @ \cup (accepted \ own),
                         !.at = "loop"])
        /\ Send(e, UpdateEvents(accepted \ own))
        /\ UNCHANGED <<log, versions, shell, toSide, asked, refused>>

(* The genesis is a file (other updates are taken to fit in their records);  *)
(* it is fetched once, and kept even over a resync.                         *)
GenesisUnresolved(e) ==
    GenesisId \in Accepts(side[e], Len(log)) /\ ~shell[e].resynced

(* The update list could not be read, or it was and the file of the genesis  *)
(* could not: the heads are told all the same.                              *)
PollFailed(e) ==
    /\ Running(e)
    /\ side[e].at = "polling"
    /\ \/ EmitHeads(e, versions, [side[e] EXCEPT !.at = "loop"])
       \/ /\ GenesisUnresolved(e)
          /\ EmitHeads(e, versions, [side[e] EXCEPT !.at = "loop", !.session = TRUE,
                                                     !.seen = Len(log)])
    /\ UNCHANGED <<log, versions, shell, toSide, toShell, asked, refused>>

-----------------------------------------------------------------------------
ShellStep(e) == Edit(e) \/ Save(e) \/ KeepMine(e) \/ AskResync(e) \/ Leave(e)
                \/ Hear(e) \/ HearHeads(e)
FlushStep(e) ==
    \/ UpdateAccepted(e) \/ UpdateAnswerLost(e) \/ UpdateRefused(e)
    \/ ReadOrder(e) \/ VersionAccepted(e) \/ VersionAnswerLost(e) \/ VersionRefused(e)
    \/ VersionFailed(e)
PollStep(e) == PollVersions(e) \/ PollUpdates(e) \/ PollFailed(e)

Next == \E e \in Editors : ShellStep(e) \/ OnMsg(e) \/ FlushStep(e) \/ PollStep(e)

Spec == Init /\ [][Next]_vars

(* Main loops, pipes and timers are served: whatever waits all the time has   *)
(* its turn.  The store answers some send and some read of each editor       *)
(* sooner or later.                                                         *)
Fairness ==
    \A e \in Editors :
        /\ WF_vars(Hear(e) \/ HearHeads(e))
        /\ WF_vars(OnMsg(e))
        /\ WF_vars(ReadOrder(e))
        /\ WF_vars(PollVersions(e))
        /\ SF_vars(PollUpdates(e))
        /\ SF_vars(UpdateAccepted(e) \/ VersionAccepted(e))

FairSpec == Spec /\ Fairness

-----------------------------------------------------------------------------
(* Properties *)

AllEdits == Editors \X (0 .. MaxEdits)
Reports == [heads : SUBSET (1 .. Len(versions)), covered : SUBSET (1 .. Len(versions))]

TypeOK ==
    /\ \A i \in DOMAIN log :
           log[i] \in [by : Editors, seq : 0 .. MaxEdits, edit : AllEdits]
    /\ \A v \in DOMAIN versions :
           /\ versions[v].by \in Editors
           /\ versions[v].parents \subseteq 1 .. v - 1
           /\ versions[v].through \in 0 .. Len(log)
           /\ versions[v].file \subseteq AllEdits
           /\ versions[v].from \in 0 .. v - 1
    /\ \A e \in Editors :
           /\ shell[e].phase \in {"awaiting", "verifying", "live", "left"}
           /\ shell[e].replica \subseteq AllEdits
           /\ shell[e].shown \in Reports
           /\ shell[e].resynced \in BOOLEAN
           /\ side[e].session \in BOOLEAN
           /\ side[e].applied \subseteq 1 .. Len(log)
           /\ side[e].awaiting \subseteq 1 .. Len(log)
           /\ side[e].mine \cup side[e].known \cup side[e].heads \subseteq 1 .. Len(versions)
           /\ side[e].opened \in 0 .. Len(versions)
           /\ side[e].told \in Reports
           /\ side[e].stopped \subseteq Editors
           /\ side[e].seen \in 0 .. Len(log) /\ side[e].order \in 0 .. Len(log)
           /\ side[e].at \in {"loop", "polling", "saving"}
    /\ asked \in Nat \ {0}
    /\ refused \subseteq AllEdits

(* Held::applied ("updates the live replica has"): whatever a sidecar takes  *)
(* for applied is in its shell's replica, is one the shell rejects, or is a  *)
(* second copy, behind the first in the log.  The sidecar never sees the     *)
(* replica; it goes by the answers of the shell, its own sends and what its  *)
(* receiver skips.                                                          *)
AppliedIsHeld ==
    \A e \in Editors : \A i \in side[e].applied :
        \/ log[i].edit \in shell[e].replica \cup BadEdits
        \/ \E j \in 1 .. i - 1 : log[j].edit = log[i].edit

(* What a version claims to cover was in its writer's replica by the time    *)
(* the version was stored (it need not be in the file, see CoversIsTrue).   *)
WriterHoldsItsClaim ==
    \A v \in DOMAIN versions : \A i \in 1 .. versions[v].through :
        log[i].edit \in shell[versions[v].by].replica \cup BadEdits

(* loro-1.md 8.3: "The file of this version holds every update of loro/1 up  *)
(* to and including through".                                               *)
CoversIsTrue ==
    \A v \in DOMAIN versions : \A i \in 1 .. versions[v].through :
        log[i].edit \in versions[v].file \cup BadEdits

(* A version is never ahead of the update log: every edit in its file was    *)
(* published before it (or refused), so an editor who misses one is sure to  *)
(* be sent it.                                                              *)
FileIsInLog ==
    \A v \in DOMAIN versions :
        versions[v].file \subseteq {log[i].edit : i \in DOMAIN log} \cup refused

(* A plain save descends from the version its writer last saved or opened,   *)
(* however heads moved and whichever covered heads it takes in.             *)
SaveFollowsOpened ==
    \A v \in DOMAIN versions : versions[v].from # 0 =>
        versions[v].from \in AncestorsIn(DOMAIN versions, v)

(* No version, save or merge, has a parent that another of its parents       *)
(* descends from, although the heads a merge names may be old ones.         *)
ParentsAreAntichain ==
    \A v \in DOMAIN versions :
        \A p, q \in versions[v].parents : p \notin AncestorsIn(DOMAIN versions, q)

(* loro-1.md 8.3 point 3: the sidecar "sends heads again whenever the heads, *)
(* any head's covered or conflict change": outside a read, and unless a      *)
(* resync is waiting for its read, the report told last is the current one.  *)
HeadsToldAreCurrent ==
    \A e \in Editors :
        Running(e) /\ side[e].at # "polling" /\ side[e].pos[Sharer] # -1 =>
            side[e].told = HeadsReport(versions, side[e])

(* Spec 7 rule 2: a replica never has an edit of somebody else's stream      *)
(* without all that stream's earlier updates that were not refused.         *)
StreamsHaveNoHoles ==
    \A e \in Editors : \A x \in shell[e].replica : x[1] # e =>
        \A k \in 0 .. x[2] - 1 :
            <<x[1], k>> \in shell[e].replica \cup BadEdits \cup refused

(* The sidecar waits for exactly the updates that are on their way: each one *)
(* once, as an answer, in the shell's queue or as an event (until a resync,  *)
(* which hands over again what may still be on its way).                    *)
Answers(e) == {i \in DOMAIN toSide[e] : toSide[e][i].t \in {"applied", "rejected"}}
Events(e) == {i \in DOMAIN toShell[e] : toShell[e][i].t # "file"}
Carriers(e) ==
    ({"answer"} \X Answers(e)) \cup ({"queued"} \X DOMAIN shell[e].queued) \cup ({"event"} \X Events(e))
Carried(e, c) ==
    CASE c[1] = "answer" -> toSide[e][c[2]].id
      [] c[1] = "queued" -> shell[e].queued[c[2]]
      [] c[1] = "event" -> toShell[e][c[2]].id
AwaitingIsInFlight ==
    \A e \in Editors : shell[e].resynced \/
        /\ side[e].awaiting = {Carried(e, c) : c \in Carriers(e)}
        /\ \A c, d \in Carriers(e) : c # d => Carried(e, c) # Carried(e, d)
        /\ side[e].awaiting \cap side[e].applied = {}

(* Once editing stops, every replica comes to hold the same edits, however   *)
(* often reads and sends fail and answers are lost in between.              *)
ReplicasConverge ==
    <>[](\A e, f \in Editors : shell[e].replica \ BadEdits = shell[f].replica \ BadEdits)

(* Two editors who have exchanged their updates are not in conflict: once    *)
(* saving stops, no shell keeps showing one.                                *)
ConflictsFade == <>[](\A e \in Editors : ~Conflict(shell[e].shown))
=============================================================================
