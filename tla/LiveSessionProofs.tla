------------------------- MODULE LiveSessionProofs -------------------------
(***************************************************************************)
(* The invariants of LiveSession, for any number of editors, edits, saves   *)
(* and resyncs, whatever is lost, refused or answered late.  Each part       *)
(* states an invariant of the state, shows that every step keeps it, and    *)
(* draws the property from it; all of them rest on Base.                    *)
(***************************************************************************)
EXTENDS LiveSession, DataLemmas

-----------------------------------------------------------------------------
(* 1. What is stored, queued and held: Base                                *)
(* The types and what is named by whom.                                    *)

ReportT == [heads : SUBSET Nat, covered : SUBSET Nat]

ShellT == [phase : {"awaiting", "verifying", "live", "left"}, replica : SUBSET AllEdits, edits : 0 .. MaxEdits,
           queued : Seq(Nat), shown : ReportT, resynced : BOOLEAN]

UpdateItem == [t : {"update"}, seq : 0 .. MaxEdits, edit : AllEdits]

VersionItem == [t : {"version"}, file : SUBSET AllEdits, resolve : SUBSET Nat]

SideT == [session : BOOLEAN, applied : SUBSET Nat, awaiting : SUBSET Nat, mine : SUBSET Nat,
          opened : Nat, known : SUBSET Nat, heads : SUBSET Nat, told : ReportT, nextSeq : Nat,
          pos : [Editors -> -1 .. MaxEdits + 1], stopped : SUBSET Editors, seen : Nat,
          outbox : Seq(UpdateItem \cup VersionItem), at : {"loop", "polling", "saving"}, order : Nat]

UpdateMsg == [t : {"update"}, edit : AllEdits]

AnswerMsg == [t : {"applied", "rejected"}, id : Nat]

PlainMsg == [t : {"fetch", "resync"}]

SideMsg == UpdateMsg \cup VersionItem \cup AnswerMsg \cup PlainMsg

EventMsg == [t : {"genesis", "update"}, id : Nat]

FileMsg == [t : {"file"}]

ShellMsg == EventMsg \cup FileMsg

LogT == [by : Editors, seq : 0 .. MaxEdits, edit : AllEdits]

VersionT == [by : Editors, parents : SUBSET Nat, through : Nat, file : SUBSET AllEdits, from : Nat]

Types ==
  /\ log \in Seq(LogT) /\ log # <<>>
  /\ versions \in Seq(VersionT) /\ versions # <<>>
  /\ shell \in [Editors -> ShellT]
  /\ side \in [Editors -> SideT]
  /\ toSide \in [Editors -> Seq(SideMsg)]
  /\ toShell \in [Editors -> Seq(ShellMsg)]
  /\ asked \in Nat \ {0}
  /\ refused \subseteq AllEdits

(* What is named is there. *)
SideIds(q, n) == \A i \in DOMAIN q : q[i].t \in {"applied", "rejected"} => q[i].id \in 1 .. n

ShellIds(q, n) == \A i \in DOMAIN q : q[i].t # "file" => q[i].id \in 1 .. n

Resolves(q, n) == \A i \in DOMAIN q : q[i].t = "version" => q[i].resolve \subseteq 1 .. n

Has(q, t) == \E i \in DOMAIN q : q[i].t = t

Ids(e) ==
  /\ \A i \in DOMAIN shell[e].queued : shell[e].queued[i] \in 1 .. Len(log)
  /\ ShellIds(toShell[e], Len(log)) /\ SideIds(toSide[e], Len(log))
  /\ side[e].applied \cup side[e].awaiting \subseteq 1 .. Len(log)
  /\ side[e].seen <= Len(log) /\ side[e].order <= Len(log)

Names(e) ==
  /\ side[e].mine \cup side[e].known \cup side[e].heads \subseteq 1 .. Len(versions)
  /\ side[e].told.heads \cup side[e].told.covered \subseteq 1 .. Len(versions)
  /\ shell[e].shown.heads \cup shell[e].shown.covered \subseteq 1 .. Len(versions)
  /\ side[e].opened <= Len(versions)
  /\ Resolves(toSide[e], Len(versions)) /\ Resolves(side[e].outbox, Len(versions))

VersionsOK ==
  \A v \in 1 .. Len(versions) :
     /\ versions[v].parents \subseteq 1 .. v - 1 /\ versions[v].from <= v - 1
     /\ versions[v].through <= Len(log)

(* The number of an editor's next edit, and the updates in a pipe: in order, *)
(* without a gap.                                                            *)
NextEdit(e) == shell[e].edits + (IF e = Sharer THEN 1 ELSE 0)

Updates(q) == {i \in DOMAIN q : q[i].t = "update"}

InOrder(q, e, first, next) ==
  /\ \A i \in Updates(q) : q[i].edit = <<e, q[i].edit[2]>> /\ q[i].edit[2] \in first .. next - 1
  /\ \A k \in first .. next - 1 : \E i \in Updates(q) : q[i].edit[2] = k
  /\ \A i, j \in Updates(q) : i < j => q[i].edit[2] < q[j].edit[2]

Pipes(e) ==
  /\ shell[e].phase \in {"verifying", "live"} \/ toShell[e] # <<>> => side[e].session
  /\ Has(toSide[e], "fetch") => shell[e].phase # "awaiting"
  /\ Has(toShell[e], "file") => shell[e].phase # "awaiting"
  /\ Updates(toSide[e]) # {} => shell[e].phase = "live"
  /\ shell[e].phase = "live" => shell[e].queued = <<>>
  /\ side[e].nextSeq <= NextEdit(e)
  /\ InOrder(toSide[e], e, side[e].nextSeq, NextEdit(e))
  /\ \A i \in Updates(side[e].outbox) :
        LET m == side[e].outbox[i] IN m.edit = <<e, m.seq>> /\ m.seq < side[e].nextSeq

Closing(e) ==
  shell[e].phase = "left" =>
     /\ toSide[e] = <<>> /\ toShell[e] = <<>> /\ side[e].outbox = <<>> /\ shell[e].queued = <<>>
     /\ side[e].awaiting = {} /\ side[e].at = "loop" /\ side[e].order = 0

LogOK ==
  /\ log[1] = [by |-> Sharer, seq |-> 0, edit |-> Genesis]
  /\ \A i \in 1 .. Len(log) : log[i].edit = <<log[i].by, log[i].seq>>

Base ==
  /\ Types /\ VersionsOK /\ LogOK
  /\ \A e \in Editors : Ids(e) /\ Names(e) /\ (shell[e].phase = "left" \/ Pipes(e)) /\ Closing(e)

(* The types hold initially.                                               *)
LEMMA InitTypes == Init => Types
<1> SUFFICES ASSUME Init PROVE Types
  OBVIOUS
<1>1. Genesis \in AllEdits /\ Sharer \in Editors /\ MaxEdits \in Nat
  BY EditorsAssumption, LiveBoundAssumption DEF Genesis, AllEdits
<1>2. log \in Seq(LogT) /\ log # <<>>
  <2>1. [by |-> Sharer, seq |-> 0, edit |-> Genesis] \in LogT
    BY <1>1 DEF LogT
  <2> QED BY <2>1, OneFacts DEF Init
<1>3. versions \in Seq(VersionT) /\ versions # <<>>
  <2>1. [by |-> Sharer, parents |-> {}, through |-> 0, file |-> {Genesis}, from |-> 0] \in VersionT
    BY <1>1 DEF VersionT
  <2> QED BY <2>1, OneFacts DEF Init
<1>4. \A e \in Editors : NewShell(e) \in ShellT
  BY <1>1 DEF NewShell, ShellT, ReportT
<1>5. \A e \in Editors : NewSide(e) \in SideT
  BY <1>1 DEF NewSide, SideT, ReportT, Root, GenesisId
<1> QED BY <1>1, <1>2, <1>3, <1>4, <1>5 DEF Init, Types

-----------------------------------------------------------------------------
(* What the steps of a shell do                                            *)

(* What the fields outside F do: nothing. *)
ShellBut(e, F) ==
  /\ "phase" \notin F => shell'[e].phase = shell[e].phase
  /\ "replica" \notin F => shell'[e].replica = shell[e].replica
  /\ "edits" \notin F => shell'[e].edits = shell[e].edits
  /\ "queued" \notin F => shell'[e].queued = shell[e].queued
  /\ "shown" \notin F => shell'[e].shown = shell[e].shown
  /\ "resynced" \notin F => shell'[e].resynced = shell[e].resynced

SideBut(e, F) ==
  /\ "session" \notin F => side'[e].session = side[e].session
  /\ "applied" \notin F => side'[e].applied = side[e].applied
  /\ "awaiting" \notin F => side'[e].awaiting = side[e].awaiting
  /\ "mine" \notin F => side'[e].mine = side[e].mine
  /\ "opened" \notin F => side'[e].opened = side[e].opened
  /\ "known" \notin F => side'[e].known = side[e].known
  /\ "heads" \notin F => side'[e].heads = side[e].heads
  /\ "told" \notin F => side'[e].told = side[e].told
  /\ "nextSeq" \notin F => side'[e].nextSeq = side[e].nextSeq
  /\ "pos" \notin F => side'[e].pos = side[e].pos
  /\ "stopped" \notin F => side'[e].stopped = side[e].stopped
  /\ "seen" \notin F => side'[e].seen = side[e].seen
  /\ "outbox" \notin F => side'[e].outbox = side[e].outbox
  /\ "at" \notin F => side'[e].at = side[e].at
  /\ "order" \notin F => side'[e].order = side[e].order

Others(e) ==
  \A f \in Editors \ {e} : /\ shell'[f] = shell[f] /\ side'[f] = side[f]
                           /\ toSide'[f] = toSide[f] /\ toShell'[f] = toShell[f]

(* The pipes of one editor. *)
Told(e, messages) == toSide'[e] = toSide[e] \o messages

Sent(e, messages) == toShell'[e] = toShell[e] \o messages

(* A command goes to the end of the pipe.                                  *)
LEMMA TellDoes ==
  ASSUME Types, NEW e \in Editors, NEW ms \in Seq(SideMsg), Tell(e, ms)
  PROVE  /\ Told(e, ms) /\ toSide' \in [Editors -> Seq(SideMsg)]
         /\ \A f \in Editors \ {e} : toSide'[f] = toSide[f]
<1>1. toSide[e] \in Seq(SideMsg)
  BY DEF Types
<1>2. toSide[e] \o ms \in Seq(SideMsg)
  BY <1>1, ConcatFacts
<1> QED BY <1>2 DEF Types, Tell, Told

(* An event goes to the end of the pipe.                                   *)
LEMMA SendDoes ==
  ASSUME Types, NEW e \in Editors, NEW ms \in Seq(ShellMsg), Send(e, ms)
  PROVE  /\ Sent(e, ms) /\ toShell' \in [Editors -> Seq(ShellMsg)]
         /\ \A f \in Editors \ {e} : toShell'[f] = toShell[f]
<1>1. toShell[e] \in Seq(ShellMsg)
  BY DEF Types
<1>2. toShell[e] \o ms \in Seq(ShellMsg)
  BY <1>1, ConcatFacts
<1> QED BY <1>2 DEF Types, Send, Sent

(* A local edit: what it does.                                             *)
LEMMA EditDoes ==
  ASSUME Types, NEW e \in Editors, Edit(e)
  PROVE  /\ Types' /\ Others(e) /\ UNCHANGED <<log, versions, side, toShell, asked, refused>>
         /\ shell[e].phase = "live" /\ EditOf(e) \in AllEdits
         /\ ShellBut(e, {"replica", "edits"})
         /\ shell'[e].replica = shell[e].replica \cup {EditOf(e)} /\ shell'[e].edits = shell[e].edits + 1
         /\ Told(e, <<[t |-> "update", edit |-> EditOf(e)]>>)
<1>1. shell[e] \in ShellT /\ MaxEdits \in Nat
  BY LiveBoundAssumption DEF Types
<1>2. EditOf(e) \in AllEdits /\ shell[e].edits + 1 \in 0 .. MaxEdits
  BY <1>1 DEF Edit, EditOf, AllEdits, ShellT
<1>3. [t |-> "update", edit |-> EditOf(e)] \in SideMsg
  BY <1>2 DEF SideMsg, UpdateMsg
<1>4. <<[t |-> "update", edit |-> EditOf(e)]>> \in Seq(SideMsg)
  BY <1>3, OneFacts
<1>5. Tell(e, <<[t |-> "update", edit |-> EditOf(e)]>>)
  BY DEF Edit
<1>6. /\ Told(e, <<[t |-> "update", edit |-> EditOf(e)]>>) /\ toSide' \in [Editors -> Seq(SideMsg)]
      /\ \A f \in Editors \ {e} : toSide'[f] = toSide[f]
  BY <1>4, <1>5, TellDoes
<1>7. [shell[e] EXCEPT !.replica = @ \cup {EditOf(e)}, !.edits = @ + 1] \in ShellT
  BY <1>1, <1>2 DEF ShellT
<1>8. shell' = [shell EXCEPT ![e] = [shell[e] EXCEPT !.replica = @ \cup {EditOf(e)}, !.edits = @ + 1]]
  BY DEF Edit
<1>9. shell' \in [Editors -> ShellT] /\ \A f \in Editors \ {e} : shell'[f] = shell[f]
  BY <1>7, <1>8 DEF Types
<1>10. shell'[e].replica = shell[e].replica \cup {EditOf(e)} /\ shell'[e].edits = shell[e].edits + 1
         /\ ShellBut(e, {"replica", "edits"})
  BY <1>1, <1>8 DEF Types, ShellT, ShellBut
<1>11. UNCHANGED <<log, versions, side, toShell, asked, refused>> /\ shell[e].phase = "live"
  BY DEF Edit
<1> QED BY <1>2, <1>6, <1>9, <1>10, <1>11 DEF Types, Others

(* One shell's record is replaced.                                         *)
LEMMA ShellBecomes ==
  ASSUME Types, NEW e \in Editors, NEW r \in ShellT, shell' = [shell EXCEPT ![e] = r]
  PROVE  shell' \in [Editors -> ShellT] /\ shell'[e] = r /\ \A f \in Editors \ {e} : shell'[f] = shell[f]
BY DEF Types

(* One sidecar's record is replaced.                                       *)
LEMMA SideBecomes ==
  ASSUME Types, NEW e \in Editors, NEW r \in SideT, Become(e, r)
  PROVE  side' \in [Editors -> SideT] /\ side'[e] = r /\ \A f \in Editors \ {e} : side'[f] = side[f]
BY DEF Types, Become

(* A save: what it does.                                                   *)
LEMMA SaveDoes ==
  ASSUME Types, NEW e \in Editors, Save(e)
  PROVE  /\ Types' /\ Others(e) /\ UNCHANGED <<log, versions, shell, side, toShell, refused>>
         /\ shell[e].phase = "live"
         /\ [t |-> "version", file |-> shell[e].replica, resolve |-> {}] \in SideMsg
         /\ Told(e, <<[t |-> "version", file |-> shell[e].replica, resolve |-> {}]>>)
<1>1. [t |-> "version", file |-> shell[e].replica, resolve |-> {}] \in SideMsg
  BY DEF SideMsg, VersionItem, Types, ShellT
<1>2. <<[t |-> "version", file |-> shell[e].replica, resolve |-> {}]>> \in Seq(SideMsg)
  BY <1>1, OneFacts
<1>3. Tell(e, <<[t |-> "version", file |-> shell[e].replica, resolve |-> {}]>>)
  BY DEF Save
<1>4. /\ Told(e, <<[t |-> "version", file |-> shell[e].replica, resolve |-> {}]>>)
      /\ toSide' \in [Editors -> Seq(SideMsg)] /\ \A f \in Editors \ {e} : toSide'[f] = toSide[f]
  BY <1>2, <1>3, TellDoes
<1>5. asked' = asked + 1 /\ UNCHANGED <<log, versions, shell, side, toShell, refused>>
        /\ shell[e].phase = "live"
  BY DEF Save
<1> QED BY <1>1, <1>4, <1>5 DEF Types, Others

(* Publishing a merge: what it does.                                       *)
LEMMA KeepMineDoes ==
  ASSUME Types, NEW e \in Editors, KeepMine(e)
  PROVE  /\ Types' /\ Others(e) /\ UNCHANGED <<log, versions, shell, side, toShell, refused>>
         /\ shell[e].phase = "live"
         /\ [t |-> "version", file |-> shell[e].replica, resolve |-> shell[e].shown.heads] \in SideMsg
         /\ Told(e, <<[t |-> "version", file |-> shell[e].replica, resolve |-> shell[e].shown.heads]>>)
<1> DEFINE m == [t |-> "version", file |-> shell[e].replica, resolve |-> shell[e].shown.heads]
<1>0. shell[e] \in ShellT /\ shell[e].shown \in ReportT
  BY DEF Types, ShellT
<1>1. m \in SideMsg
  BY <1>0 DEF SideMsg, VersionItem, ShellT, ReportT
<1>2. <<m>> \in Seq(SideMsg)
  BY <1>1, OneFacts
<1>3. Tell(e, <<m>>)
  BY DEF KeepMine
<1>4. Told(e, <<m>>) /\ toSide' \in [Editors -> Seq(SideMsg)]
        /\ \A f \in Editors \ {e} : toSide'[f] = toSide[f]
  BY <1>2, <1>3, TellDoes
<1>5. asked' = asked + 1 /\ UNCHANGED <<log, versions, shell, side, toShell, refused>>
        /\ shell[e].phase = "live"
  BY DEF KeepMine
<1> QED BY <1>1, <1>4, <1>5 DEF Types, Others

(* Asking for a resync: what it does.                                      *)
LEMMA AskResyncDoes ==
  ASSUME Types, NEW e \in Editors, AskResync(e)
  PROVE  /\ Types' /\ Others(e) /\ UNCHANGED <<log, versions, side, toShell, asked, refused>>
         /\ shell[e].phase = "live"
         /\ ShellBut(e, {"resynced"}) /\ shell'[e].resynced = TRUE
         /\ [t |-> "resync"] \in SideMsg
         /\ Told(e, <<[t |-> "resync"]>>)
<1>1. [t |-> "resync"] \in SideMsg
  BY DEF SideMsg, PlainMsg
<1>2. <<[t |-> "resync"]>> \in Seq(SideMsg)
  BY <1>1, OneFacts
<1>3. Tell(e, <<[t |-> "resync"]>>)
  BY DEF AskResync
<1>4. /\ Told(e, <<[t |-> "resync"]>>)
      /\ toSide' \in [Editors -> Seq(SideMsg)] /\ \A f \in Editors \ {e} : toSide'[f] = toSide[f]
  BY <1>2, <1>3, TellDoes
<1>5. shell[e] \in ShellT /\ [shell[e] EXCEPT !.resynced = TRUE] \in ShellT
  BY DEF Types, ShellT
<1>6. shell' = [shell EXCEPT ![e] = [shell[e] EXCEPT !.resynced = TRUE]]
  BY DEF AskResync
<1>7. shell' \in [Editors -> ShellT] /\ shell'[e] = [shell[e] EXCEPT !.resynced = TRUE]
      /\ \A f \in Editors \ {e} : shell'[f] = shell[f]
  BY <1>5, <1>6, ShellBecomes
<1>8. ShellBut(e, {"resynced"}) /\ shell'[e].resynced = TRUE
  BY <1>5, <1>7 DEF ShellBut, ShellT
<1>9. UNCHANGED <<log, versions, side, toShell, asked, refused>> /\ shell[e].phase = "live"
  BY DEF AskResync
<1> QED BY <1>1, <1>4, <1>7, <1>8, <1>9 DEF Types, Others

(* Leaving the session: what it does.                                      *)
LEMMA LeaveDoes ==
  ASSUME Types, NEW e \in Editors, Leave(e)
  PROVE  /\ Types' /\ Others(e) /\ UNCHANGED <<log, versions, asked, refused>>
         /\ shell[e].phase # "left"
         /\ ShellBut(e, {"phase", "queued"}) /\ shell'[e].phase = "left" /\ shell'[e].queued = <<>>
         /\ SideBut(e, {"outbox", "awaiting", "at", "order"})
         /\ side'[e].outbox = <<>> /\ side'[e].awaiting = {} /\ side'[e].at = "loop" /\ side'[e].order = 0
         /\ toSide'[e] = <<>> /\ toShell'[e] = <<>>
<1>1. shell[e] \in ShellT /\ side[e] \in SideT
  BY DEF Types
<1> DEFINE r == [shell[e] EXCEPT !.phase = "left", !.queued = <<>>]
           s == [side[e] EXCEPT !.outbox = <<>>, !.awaiting = {}, !.at = "loop", !.order = 0]
<1>0. <<>> \in Seq(Nat) /\ <<>> \in Seq(UpdateItem \cup VersionItem)
  OBVIOUS
<1>2. r \in ShellT
  BY <1>0, <1>1 DEF ShellT
<1>3. s \in SideT
  BY <1>0, <1>1 DEF SideT
<1>4. shell' = [shell EXCEPT ![e] = r] /\ Become(e, s)
  BY DEF Leave, Become
<1>5. ShellBut(e, {"phase", "queued"}) /\ r.phase = "left" /\ r.queued = <<>>
  BY <1>1, <1>4 DEF ShellBut, ShellT, Types
<1>6. /\ s.outbox = <<>> /\ s.awaiting = {} /\ s.at = "loop" /\ s.order = 0
      /\ side'[e] = s => SideBut(e, {"outbox", "awaiting", "at", "order"})
  BY <1>1 DEF SideBut, SideT
<1> HIDE DEF r, s
<1>7. shell' \in [Editors -> ShellT] /\ shell'[e] = r /\ \A f \in Editors \ {e} : shell'[f] = shell[f]
  BY <1>2, <1>4, ShellBecomes
<1>8. side' \in [Editors -> SideT] /\ side'[e] = s /\ \A f \in Editors \ {e} : side'[f] = side[f]
  BY <1>3, <1>4, SideBecomes
<1>9. toSide' = [toSide EXCEPT ![e] = <<>>] /\ toShell' = [toShell EXCEPT ![e] = <<>>]
      /\ UNCHANGED <<log, versions, asked, refused>> /\ shell[e].phase # "left"
  BY DEF Leave
<1>10. /\ toSide' \in [Editors -> Seq(SideMsg)] /\ \A f \in Editors \ {e} : toSide'[f] = toSide[f]
       /\ toShell' \in [Editors -> Seq(ShellMsg)] /\ \A f \in Editors \ {e} : toShell'[f] = toShell[f]
       /\ toSide'[e] = <<>> /\ toShell'[e] = <<>>
  BY <1>9 DEF Types
<1> QED BY <1>5, <1>6, <1>7, <1>8, <1>9, <1>10 DEF Types, Others

(* Taking the heads event: what it does.                                   *)
LEMMA HearHeadsDoes ==
  ASSUME Types, NEW e \in Editors, HearHeads(e)
  PROVE  /\ Types' /\ Others(e) /\ UNCHANGED <<log, versions, side, toSide, toShell, asked, refused>>
         /\ shell[e].phase # "left"
         /\ ShellBut(e, {"shown"}) /\ shell'[e].shown = side[e].told
<1>1. shell[e] \in ShellT /\ side[e].told \in ReportT
  BY DEF Types, SideT
<1>2. [shell[e] EXCEPT !.shown = side[e].told] \in ShellT
  BY <1>1 DEF ShellT
<1>3. shell' = [shell EXCEPT ![e] = [shell[e] EXCEPT !.shown = side[e].told]]
  BY DEF HearHeads
<1>4. shell' \in [Editors -> ShellT] /\ shell'[e] = [shell[e] EXCEPT !.shown = side[e].told]
      /\ \A f \in Editors \ {e} : shell'[f] = shell[f]
  BY <1>2, <1>3, ShellBecomes
<1>5. ShellBut(e, {"shown"}) /\ shell'[e].shown = side[e].told
  BY <1>1, <1>4 DEF ShellBut, ShellT
<1>6. UNCHANGED <<log, versions, side, toSide, toShell, asked, refused>> /\ shell[e].phase # "left"
  BY DEF HearHeads
<1> QED BY <1>4, <1>5, <1>6 DEF Types, Others

(* What an event is.                                                       *)
LEMMA EventTypes ==
  ASSUME NEW m \in ShellMsg
  PROVE  /\ m.t # "file" => m.id \in Nat
         /\ m.t \in {"genesis", "update", "file"}
BY DEF ShellMsg, EventMsg, FileMsg

(* What is imported is a set of edits.                                     *)
LEMMA ImportedTypes ==
  ASSUME Types, NEW ids \in SUBSET (1 .. Len(log))
  PROVE  Imported(ids) \subseteq AllEdits
<1>1. \A i \in 1 .. Len(log) : log[i] \in LogT
  BY SeqFacts DEF Types
<1> QED BY <1>1 DEF Imported, LogT

(* What an answer is.                                                      *)
LEMMA AnswerTypes ==
  ASSUME NEW i \in Nat
  PROVE  /\ Answer(i) \in SideMsg /\ Answer(i).t \in {"applied", "rejected"} /\ Answer(i).id = i
         /\ [t |-> "applied", id |-> i] \in SideMsg
BY DEF Answer, SideMsg, AnswerMsg

HeardGenesis(e, m) ==
  \/ /\ shell[e].phase = "awaiting"
     /\ ShellBut(e, {"phase", "replica"}) /\ shell'[e].phase = "verifying" /\ shell'[e].replica = {Genesis}
     /\ Told(e, <<[t |-> "applied", id |-> m.id], [t |-> "fetch"]>>)
  \/ /\ shell[e].phase # "awaiting" /\ ShellBut(e, {})
     /\ Told(e, <<[t |-> "applied", id |-> m.id]>>)

HeardUpdate(e, m) ==
  \/ /\ shell[e].phase = "live"
     /\ ShellBut(e, {"replica"}) /\ shell'[e].replica = shell[e].replica \cup Imported({m.id})
     /\ Told(e, <<Answer(m.id)>>)
  \/ /\ shell[e].phase # "live"
     /\ ShellBut(e, {"queued"}) /\ shell'[e].queued = Append(shell[e].queued, m.id)
     /\ toSide'[e] = toSide[e]

AnswersToQueue(e) == [i \in DOMAIN shell[e].queued |-> Answer(shell[e].queued[i])]

HeardFile(e) ==
  /\ ShellBut(e, {"phase", "queued", "replica"}) /\ shell'[e].phase = "live" /\ shell'[e].queued = <<>>
  /\ shell'[e].replica = shell[e].replica \cup Imported(Range(shell[e].queued))
  /\ Told(e, AnswersToQueue(e))

(* on_genesis: answered at once; the first one starts the replica.         *)
LEMMA HearGenesisDoes ==
  ASSUME Types, NEW e \in Editors, NEW m \in ShellMsg, m.t = "genesis", HearGenesis(e, m)
  PROVE  /\ shell' \in [Editors -> ShellT] /\ toSide' \in [Editors -> Seq(SideMsg)]
         /\ \A f \in Editors \ {e} : shell'[f] = shell[f] /\ toSide'[f] = toSide[f]
         /\ HeardGenesis(e, m)
<1>1. shell[e] \in ShellT /\ m.id \in Nat
  BY EventTypes DEF Types
<1>2. [t |-> "applied", id |-> m.id] \in SideMsg /\ [t |-> "fetch"] \in SideMsg
  BY <1>1, AnswerTypes DEF SideMsg, PlainMsg
<1>3. /\ <<[t |-> "applied", id |-> m.id]>> \in Seq(SideMsg)
      /\ <<[t |-> "applied", id |-> m.id], [t |-> "fetch"]>> \in Seq(SideMsg)
  BY <1>2, OneFacts, TwoFacts
<1>4. CASE shell[e].phase = "awaiting"
  <2> DEFINE r == [shell[e] EXCEPT !.phase = "verifying", !.replica = {Genesis}]
  <2>1. r \in ShellT
    <3>1. Genesis \in AllEdits
      BY EditorsAssumption, LiveBoundAssumption DEF Genesis, AllEdits
    <3> QED BY <1>1, <3>1 DEF ShellT
  <2>2. shell' = [shell EXCEPT ![e] = r] /\ Tell(e, <<[t |-> "applied", id |-> m.id], [t |-> "fetch"]>>)
    BY <1>4 DEF HearGenesis
  <2>3. /\ r.phase = "verifying" /\ r.replica = {Genesis}
        /\ shell'[e] = r => ShellBut(e, {"phase", "replica"})
    BY <1>1 DEF ShellT, ShellBut
  <2> HIDE DEF r
  <2>4. shell' \in [Editors -> ShellT] /\ shell'[e] = r /\ \A f \in Editors \ {e} : shell'[f] = shell[f]
    BY <2>1, <2>2, ShellBecomes
  <2>5. /\ Told(e, <<[t |-> "applied", id |-> m.id], [t |-> "fetch"]>>)
            /\ toSide' \in [Editors -> Seq(SideMsg)]
        /\ \A f \in Editors \ {e} : toSide'[f] = toSide[f]
    BY <1>3, <2>2, TellDoes
  <2> QED BY <1>4, <2>3, <2>4, <2>5 DEF HeardGenesis
<1>5. CASE shell[e].phase # "awaiting"
  <2>1. UNCHANGED shell /\ Tell(e, <<[t |-> "applied", id |-> m.id]>>)
    BY <1>5 DEF HearGenesis
  <2>2. /\ Told(e, <<[t |-> "applied", id |-> m.id]>>) /\ toSide' \in [Editors -> Seq(SideMsg)]
        /\ \A f \in Editors \ {e} : toSide'[f] = toSide[f]
    BY <1>3, <2>1, TellDoes
  <2> QED BY <1>5, <2>1, <2>2 DEF HeardGenesis, ShellBut, Types
<1> QED BY <1>4, <1>5

(* apply_update: imported and answered when live, queued before.           *)
LEMMA HearUpdateDoes ==
  ASSUME Types, NEW e \in Editors,
         NEW m \in ShellMsg, m.t = "update", m.id \in 1 .. Len(log), HearUpdate(e, m)
  PROVE  /\ shell' \in [Editors -> ShellT] /\ toSide' \in [Editors -> Seq(SideMsg)]
         /\ \A f \in Editors \ {e} : shell'[f] = shell[f] /\ toSide'[f] = toSide[f]
         /\ HeardUpdate(e, m)
<1>1. shell[e] \in ShellT /\ m.id \in Nat
  BY EventTypes DEF Types
<1>2. CASE shell[e].phase = "live"
  <2> DEFINE r == [shell[e] EXCEPT !.replica = @ \cup Imported({m.id})]
  <2>1. r \in ShellT
    <3>1. Imported({m.id}) \subseteq AllEdits
      BY ImportedTypes
    <3> QED BY <1>1, <3>1 DEF ShellT
  <2>2. shell' = [shell EXCEPT ![e] = r] /\ Tell(e, <<Answer(m.id)>>)
    BY <1>2 DEF HearUpdate
  <2>3. /\ r.replica = shell[e].replica \cup Imported({m.id})
        /\ shell'[e] = r => ShellBut(e, {"replica"})
    BY <1>1 DEF ShellT, ShellBut
  <2> HIDE DEF r
  <2>4. shell' \in [Editors -> ShellT] /\ shell'[e] = r /\ \A f \in Editors \ {e} : shell'[f] = shell[f]
    BY <2>1, <2>2, ShellBecomes
  <2>5. <<Answer(m.id)>> \in Seq(SideMsg)
    BY <1>1, AnswerTypes, OneFacts
  <2>6. /\ Told(e, <<Answer(m.id)>>) /\ toSide' \in [Editors -> Seq(SideMsg)]
        /\ \A f \in Editors \ {e} : toSide'[f] = toSide[f]
    BY <2>2, <2>5, TellDoes
  <2> QED BY <1>2, <2>3, <2>4, <2>6 DEF HeardUpdate
<1>3. CASE shell[e].phase # "live"
  <2> DEFINE r == [shell[e] EXCEPT !.queued = Append(@, m.id)]
  <2>1. r \in ShellT
    <3>1. Append(shell[e].queued, m.id) \in Seq(Nat)
      BY <1>1, AppendFacts DEF ShellT
    <3> QED BY <1>1, <3>1 DEF ShellT
  <2>2. shell' = [shell EXCEPT ![e] = r] /\ UNCHANGED toSide
    BY <1>3 DEF HearUpdate
  <2>3. r.queued = Append(shell[e].queued, m.id) /\ (shell'[e] = r => ShellBut(e, {"queued"}))
    BY <1>1 DEF ShellT, ShellBut
  <2> HIDE DEF r
  <2>4. shell' \in [Editors -> ShellT] /\ shell'[e] = r /\ \A f \in Editors \ {e} : shell'[f] = shell[f]
    BY <2>1, <2>2, ShellBecomes
  <2> QED BY <1>3, <2>2, <2>3, <2>4 DEF HeardUpdate, Types
<1> QED BY <1>2, <1>3

(* finish_join: the queue is imported, answered and emptied.               *)
LEMMA HearFileDoes ==
  ASSUME Types,
         NEW e \in Editors,
         \A i \in DOMAIN shell[e].queued : shell[e].queued[i] \in 1 .. Len(log), HearFile(e)
  PROVE  /\ shell' \in [Editors -> ShellT] /\ toSide' \in [Editors -> Seq(SideMsg)]
         /\ \A f \in Editors \ {e} : shell'[f] = shell[f] /\ toSide'[f] = toSide[f]
         /\ HeardFile(e) /\ AnswersToQueue(e) \in Seq(SideMsg)
             /\ DOMAIN shell[e].queued = 1 .. Len(shell[e].queued)
         /\ Len(AnswersToQueue(e)) = Len(shell[e].queued) /\ Len(shell[e].queued) \in Nat
<1>1. shell[e] \in ShellT /\ shell[e].queued \in Seq(Nat)
  BY DEF Types, ShellT
<1>2. /\ DOMAIN shell[e].queued = 1 .. Len(shell[e].queued) /\ Len(shell[e].queued) \in Nat
      /\ \A i \in DOMAIN shell[e].queued : shell[e].queued[i] \in Nat
  BY <1>1, SeqFacts
<1>3. AnswersToQueue(e) \in Seq(SideMsg) /\ Len(AnswersToQueue(e)) = Len(shell[e].queued)
  <2>1. \A i \in 1 .. Len(shell[e].queued) : Answer(shell[e].queued[i]) \in SideMsg
    BY <1>2, AnswerTypes
  <2> QED BY <1>2, <2>1 DEF AnswersToQueue
<1> DEFINE r == [shell[e] EXCEPT !.phase = "live", !.queued = <<>>, !.replica = @ \cup Imported(Range(shell[e].queued))]
<1>4. r \in ShellT
  <2>1. Range(shell[e].queued) \subseteq 1 .. Len(log)
    BY DEF Range
  <2>2. Imported(Range(shell[e].queued)) \subseteq AllEdits
    BY <2>1, ImportedTypes
  <2>3. <<>> \in Seq(Nat)
    OBVIOUS
  <2> QED BY <1>1, <2>2, <2>3 DEF ShellT
<1>5. shell' = [shell EXCEPT ![e] = r] /\ Tell(e, AnswersToQueue(e))
  BY DEF HearFile, AnswersToQueue
<1>6. /\ r.phase = "live" /\ r.queued = <<>> /\ r.replica = shell[e].replica
          \cup Imported(Range(shell[e].queued))
      /\ shell'[e] = r => ShellBut(e, {"phase", "queued", "replica"})
  BY <1>1 DEF ShellT, ShellBut
<1> HIDE DEF r
<1>7. shell' \in [Editors -> ShellT] /\ shell'[e] = r /\ \A f \in Editors \ {e} : shell'[f] = shell[f]
  BY <1>4, <1>5, ShellBecomes
<1>8. /\ Told(e, AnswersToQueue(e)) /\ toSide' \in [Editors -> Seq(SideMsg)]
      /\ \A f \in Editors \ {e} : toSide'[f] = toSide[f]
  BY <1>3, <1>5, TellDoes
<1> QED BY <1>2, <1>3, <1>6, <1>7, <1>8 DEF HeardFile

(* Hear, by what is heard.                                                   *)
LEMMA HearDoes ==
  ASSUME Types, NEW e \in Editors, Ids(e), Hear(e)
  PROVE  /\ Types' /\ Others(e) /\ UNCHANGED <<log, versions, side, asked, refused>>
         /\ toShell[e] # <<>> /\ toShell'[e] = Tail(toShell[e])
         /\ \E m \in ShellMsg :
               /\ m = toShell[e][1] /\ (m.t # "file" => m.id \in 1 .. Len(log))
               /\ \/ m.t = "genesis" /\ HeardGenesis(e, m)
                  \/ m.t = "update" /\ HeardUpdate(e, m)
                  \/ /\ m.t = "file" /\ HeardFile(e)
                     /\ AnswersToQueue(e) \in Seq(SideMsg)
                         /\ DOMAIN shell[e].queued = 1 .. Len(shell[e].queued)
                     /\ Len(AnswersToQueue(e)) = Len(shell[e].queued) /\ Len(shell[e].queued) \in Nat
<1>1. toShell[e] \in Seq(ShellMsg) /\ toShell[e] # <<>>
  BY DEF Types, Hear
<1>2. /\ Tail(toShell[e]) \in Seq(ShellMsg) /\ Head(toShell[e]) = toShell[e][1]
          /\ Head(toShell[e]) \in ShellMsg
      /\ 1 \in DOMAIN toShell[e]
  BY <1>1, TailFacts, SeqFacts
<1>3. PICK m \in ShellMsg : m = Head(toShell[e])
  BY <1>2
<1>4. m.t # "file" => m.id \in 1 .. Len(log)
  BY <1>2, <1>3 DEF Ids, ShellIds
<1>5. /\ \/ m.t = "genesis" /\ HearGenesis(e, m)
         \/ m.t = "update" /\ HearUpdate(e, m)
         \/ m.t = "file" /\ HearFile(e)
      /\ toShell' = [toShell EXCEPT ![e] = Tail(@)] /\ UNCHANGED <<log, versions, side, asked, refused>>
  BY <1>3 DEF Hear
<1>6. /\ toShell'[e] = Tail(toShell[e]) /\ toShell' \in [Editors -> Seq(ShellMsg)]
      /\ \A f \in Editors \ {e} : toShell'[f] = toShell[f]
  BY <1>2, <1>5 DEF Types
<1>7. /\ shell' \in [Editors -> ShellT] /\ toSide' \in [Editors -> Seq(SideMsg)]
      /\ \A f \in Editors \ {e} : shell'[f] = shell[f] /\ toSide'[f] = toSide[f]
      /\ \/ m.t = "genesis" /\ HeardGenesis(e, m)
         \/ m.t = "update" /\ HeardUpdate(e, m)
         \/ /\ m.t = "file" /\ HeardFile(e)
            /\ AnswersToQueue(e) \in Seq(SideMsg) /\ DOMAIN shell[e].queued = 1 .. Len(shell[e].queued)
            /\ Len(AnswersToQueue(e)) = Len(shell[e].queued) /\ Len(shell[e].queued) \in Nat
  <2>1. CASE m.t = "genesis" /\ HearGenesis(e, m)
    BY <2>1, HearGenesisDoes
  <2>2. CASE m.t = "update" /\ HearUpdate(e, m)
    BY <1>4, <2>2, HearUpdateDoes
  <2>3. CASE m.t = "file" /\ HearFile(e)
    BY <2>3, HearFileDoes DEF Ids, ShellIds
  <2> QED BY <1>5, <2>1, <2>2, <2>3
<1> QED BY <1>1, <1>2, <1>3, <1>4, <1>5, <1>6, <1>7 DEF Types, Others

-----------------------------------------------------------------------------
(* What the steps of a sidecar do                                          *)

(* The report told last is the current one, if there is one.                 *)
Emitted(e, vs) ==
  /\ side'[e].told = HeadsReport(vs, side'[e])
  /\ side'[e].heads = {} => side'[e].told = side[e].told

(* The report of the heads does not depend on the report told before.      *)
LEMMA ReportTypes ==
  ASSUME NEW vs, NEW s \in SideT
  PROVE  /\ HeadsReport(vs, s) \in ReportT /\ [s EXCEPT !.told = HeadsReport(vs, s)] \in SideT
         /\ HeadsReport(vs, [s EXCEPT !.told = HeadsReport(vs, s)]) = HeadsReport(vs, s)
<1>1. HeadsReport(vs, s) \in ReportT
  BY DEF HeadsReport, SideT, ReportT
<1> DEFINE r == HeadsReport(vs, s)
           t == [s EXCEPT !.told = r]
<1>2. t \in SideT /\ t.heads = s.heads /\ t.mine = s.mine /\ t.applied = s.applied /\ t.seen = s.seen
        /\ t.told = r
  <2>1. r \in ReportT
    BY <1>1
  <2> HIDE DEF r
  <2> QED BY <2>1 DEF SideT
<1>3. HeadsReport(vs, t) = r
  <2>1. HeadsReport(vs, t) = IF s.heads = {} THEN r
                             ELSE [heads   |-> s.heads,
                                   covered |-> {h \in s.heads : Covered(vs, s, h, Prefix(s.applied, s.seen))}]
    <3> HIDE DEF t, r
    <3> QED BY <1>2 DEF HeadsReport, Covered
  <2>2. s.heads # {} => r = [heads   |-> s.heads,
                            covered |-> {h \in s.heads : Covered(vs, s, h, Prefix(s.applied, s.seen))}]
    BY DEF HeadsReport
  <2> HIDE DEF t, r
  <2> QED BY <2>1, <2>2
<1> QED BY <1>1, <1>2, <1>3

(* emit_heads with the new state s of the task.                              *)
LEMMA EmitDoes ==
  ASSUME Types, NEW e \in Editors, NEW vs, NEW s \in SideT, EmitHeads(e, vs, s)
  PROVE  /\ side' \in [Editors -> SideT] /\ \A f \in Editors \ {e} : side'[f] = side[f]
         /\ side'[e] = [s EXCEPT !.told = HeadsReport(vs, s)]
         /\ s.told = side[e].told => Emitted(e, vs)
<1>1. Become(e, [s EXCEPT !.told = HeadsReport(vs, s)])
  BY DEF EmitHeads
<1> DEFINE t == [s EXCEPT !.told = HeadsReport(vs, s)]
<1>2. t \in SideT /\ HeadsReport(vs, t) = HeadsReport(vs, s)
  BY ReportTypes
<1>3. t.told = HeadsReport(vs, s) /\ (t.heads = {} => t.told = s.told)
  BY DEF SideT, HeadsReport
<1>4. t = [s EXCEPT !.told = HeadsReport(vs, s)]
  OBVIOUS
<1> HIDE DEF t
<1>5. side' \in [Editors -> SideT] /\ side'[e] = t /\ \A f \in Editors \ {e} : side'[f] = side[f]
  BY <1>1, <1>2, <1>4, SideBecomes
<1> QED BY <1>2, <1>3, <1>4, <1>5 DEF Emitted

(* What a command is.                                                      *)
LEMMA CommandTypes ==
  ASSUME NEW m \in SideMsg
  PROVE  /\ m.t = "update" => m = [t |-> "update", edit |-> m.edit] /\ m.edit \in AllEdits
         /\ m.t = "version" => m \in VersionItem
         /\ m.t \in {"applied", "rejected"} => m.id \in Nat
         /\ m.t \in {"update", "version", "applied", "rejected", "fetch", "resync"}
BY DEF SideMsg, UpdateMsg, VersionItem, AnswerMsg, PlainMsg

GotUpdate(e, m) ==
  /\ SideBut(e, {"nextSeq", "outbox"}) /\ side'[e].nextSeq = side[e].nextSeq + 1
  /\ side'[e].outbox = Append(side[e].outbox, [t |-> "update", seq |-> side[e].nextSeq, edit |-> m.edit])
  /\ UNCHANGED toShell

GotVersion(e, m) ==
  /\ SideBut(e, {"outbox"}) /\ side'[e].outbox = Append(side[e].outbox, m)
  /\ UNCHANGED toShell

GotAnswer(e, m) ==
  \/ /\ m.id \in side[e].awaiting
     /\ SideBut(e, {"awaiting", "applied", "told"}) /\ Emitted(e, versions)
     /\ side'[e].awaiting = side[e].awaiting \ {m.id} /\ side'[e].applied = side[e].applied \cup {m.id}
     /\ UNCHANGED toShell
  \/ m.id \notin side[e].awaiting /\ UNCHANGED <<side, toShell>>

GotFetch(e) == Sent(e, <<[t |-> "file"]>>) /\ UNCHANGED side

GotResync(e) ==
  /\ SideBut(e, {"pos", "stopped", "awaiting", "applied"})
  /\ side'[e].pos = [s \in Editors |-> -1] /\ side'[e].stopped = {}
  /\ side'[e].awaiting = {} /\ side'[e].applied = {}
  /\ UNCHANGED toShell

(* PublishUpdate takes the next number.                                    *)
LEMMA OnUpdateDoes ==
  ASSUME Types, NEW e \in Editors, NEW m \in SideMsg, m.t = "update", side[e].session,
         side[e].nextSeq <= MaxEdits, OnPublishUpdate(e, m)
  PROVE  /\ side' \in [Editors -> SideT] /\ \A f \in Editors \ {e} : side'[f] = side[f]
         /\ GotUpdate(e, m)
<1>1. side[e] \in SideT /\ m.edit \in AllEdits /\ MaxEdits \in Nat
  BY CommandTypes, LiveBoundAssumption DEF Types
<1> DEFINE x == [t |-> "update", seq |-> side[e].nextSeq, edit |-> m.edit]
           q == Append(side[e].outbox, x)
           n == side[e].nextSeq + 1
           t == [side[e] EXCEPT !.nextSeq = n, !.outbox = q]
<1>2. x \in UpdateItem
  BY <1>1 DEF SideT, UpdateItem
<1>3. q \in Seq(UpdateItem \cup VersionItem) /\ n \in Nat
  <2> HIDE DEF x
  <2> QED BY <1>1, <1>2, AppendFacts DEF SideT
<1>4. t \in SideT /\ t.nextSeq = n /\ t.outbox = q /\ (side'[e] = t => SideBut(e, {"nextSeq", "outbox"}))
  <2> HIDE DEF q, n, x
  <2>1. t \in SideT
    BY <1>1, <1>3 DEF SideT
  <2>2. t.nextSeq = n /\ t.outbox = q
    BY <1>1 DEF SideT
  <2>3. side'[e] = t => SideBut(e, {"nextSeq", "outbox"})
    <3> SUFFICES ASSUME side'[e] = t PROVE SideBut(e, {"nextSeq", "outbox"})
      OBVIOUS
    <3> QED BY <1>1 DEF SideT, SideBut
  <2> QED BY <2>1, <2>2, <2>3
<1>5. Become(e, t) /\ UNCHANGED toShell
  BY DEF OnPublishUpdate
<1> HIDE DEF t
<1>6. side' \in [Editors -> SideT] /\ side'[e] = t /\ \A f \in Editors \ {e} : side'[f] = side[f]
  BY <1>4, <1>5, SideBecomes
<1> QED BY <1>4, <1>5, <1>6 DEF GotUpdate

(* PublishVersion queues the version.                                      *)
LEMMA OnVersionDoes ==
  ASSUME Types, NEW e \in Editors, NEW m \in SideMsg, m.t = "version", OnPublishVersion(e, m)
  PROVE  /\ side' \in [Editors -> SideT] /\ \A f \in Editors \ {e} : side'[f] = side[f]
         /\ GotVersion(e, m)
<1>1. side[e] \in SideT /\ m \in VersionItem
  BY CommandTypes DEF Types
<1> DEFINE t == [side[e] EXCEPT !.outbox = Append(@, m)]
<1>3. Append(side[e].outbox, m) \in Seq(UpdateItem \cup VersionItem)
  BY <1>1, AppendFacts DEF SideT
<1>4. t \in SideT /\ t.outbox = Append(side[e].outbox, m) /\ (side'[e] = t => SideBut(e, {"outbox"}))
  BY <1>1, <1>3 DEF SideT, SideBut
<1>5. Become(e, t) /\ UNCHANGED toShell
  BY DEF OnPublishVersion
<1> HIDE DEF t
<1>6. side' \in [Editors -> SideT] /\ side'[e] = t /\ \A f \in Editors \ {e} : side'[f] = side[f]
  BY <1>4, <1>5, SideBecomes
<1> QED BY <1>4, <1>5, <1>6 DEF GotVersion

(* Applied and Rejected: an id that is awaited becomes applied.            *)
LEMMA OnAnswerDoes ==
  ASSUME Types, NEW e \in Editors, NEW m \in SideMsg, m.t \in {"applied", "rejected"}, OnAnswer(e, m)
  PROVE  /\ side' \in [Editors -> SideT] /\ \A f \in Editors \ {e} : side'[f] = side[f]
         /\ GotAnswer(e, m)
<1>1. side[e] \in SideT /\ m.id \in Nat
  BY CommandTypes DEF Types
<1>2. CASE m.id \in side[e].awaiting
  <2> DEFINE t == [side[e] EXCEPT !.awaiting = @ \ {m.id}, !.applied = @ \cup {m.id}]
  <2>1. /\ t \in SideT /\ t.told = side[e].told
        /\ t.awaiting = side[e].awaiting \ {m.id} /\ t.applied = side[e].applied \cup {m.id}
        /\ \A r : side'[e] = [t EXCEPT !.told = r] =>
             /\ SideBut(e, {"awaiting", "applied", "told"})
             /\ side'[e].awaiting = t.awaiting /\ side'[e].applied = t.applied
    BY <1>1 DEF SideT, SideBut
  <2>2. EmitHeads(e, versions, t) /\ UNCHANGED toShell
    BY <1>2 DEF OnAnswer
  <2> HIDE DEF t
  <2>3. /\ side' \in [Editors -> SideT] /\ \A f \in Editors \ {e} : side'[f] = side[f]
        /\ side'[e] = [t EXCEPT !.told = HeadsReport(versions, t)] /\ Emitted(e, versions)
    BY <2>1, <2>2, EmitDoes
  <2> QED BY <1>2, <2>1, <2>2, <2>3 DEF GotAnswer
<1>3. CASE m.id \notin side[e].awaiting
  BY <1>3 DEF OnAnswer, GotAnswer, Types
<1> QED BY <1>2, <1>3

(* Resync forgets the positions and what was taken in.                     *)
LEMMA OnResyncDoes ==
  ASSUME Types, NEW e \in Editors, OnResync(e)
  PROVE  /\ side' \in [Editors -> SideT] /\ \A f \in Editors \ {e} : side'[f] = side[f]
         /\ GotResync(e)
<1>1. side[e] \in SideT /\ MaxEdits \in Nat
  BY LiveBoundAssumption DEF Types
<1> DEFINE none == [s \in Editors |-> -1]
           t == [side[e] EXCEPT !.pos = none, !.stopped = {}, !.awaiting = {}, !.applied = {}]
<1>2. none \in [Editors -> -1 .. MaxEdits + 1]
  BY <1>1
<1>3. Become(e, t) /\ UNCHANGED toShell
  BY DEF OnResync
<1>4. none = [s \in Editors |-> -1]
  OBVIOUS
<1> HIDE DEF none
<1>5. t \in SideT /\ t.pos = none /\ t.stopped = {} /\ t.awaiting = {} /\ t.applied = {}
      /\ (side'[e] = t => SideBut(e, {"pos", "stopped", "awaiting", "applied"}))
  BY <1>1, <1>2 DEF SideT, SideBut
<1> HIDE DEF t
<1>6. side' \in [Editors -> SideT] /\ side'[e] = t /\ \A f \in Editors \ {e} : side'[f] = side[f]
  BY <1>3, <1>5, SideBecomes
<1> QED BY <1>3, <1>4, <1>5, <1>6 DEF GotResync

(* OnMsg, by what the message is.                                            *)
LEMMA OnMsgDoes ==
  ASSUME Base, NEW e \in Editors, OnMsg(e)
  PROVE  /\ Types' /\ Others(e) /\ UNCHANGED <<log, versions, shell, asked, refused>>
         /\ toSide[e] # <<>> /\ toSide'[e] = Tail(toSide[e]) /\ shell[e].phase # "left"
         /\ side[e].at = "loop"
         /\ \E m \in SideMsg :
               /\ m = toSide[e][1] /\ 1 \in DOMAIN toSide[e]
               /\ \/ m.t = "update" /\ GotUpdate(e, m)
                  \/ m.t = "version" /\ GotVersion(e, m)
                  \/ m.t \in {"applied", "rejected"} /\ GotAnswer(e, m)
                  \/ m.t = "fetch" /\ GotFetch(e)
                  \/ m.t = "resync" /\ GotResync(e)
<1>0. Types /\ shell[e].phase # "left" /\ Pipes(e) /\ side[e].at = "loop"
  BY DEF Base, OnMsg, Idle, Running
<1>1. toSide[e] \in Seq(SideMsg) /\ toSide[e] # <<>>
  BY <1>0 DEF Types, OnMsg
<1>2. /\ Tail(toSide[e]) \in Seq(SideMsg) /\ Head(toSide[e]) = toSide[e][1] /\ Head(toSide[e]) \in SideMsg
      /\ 1 \in DOMAIN toSide[e]
  BY <1>1, TailFacts, SeqFacts
<1>3. PICK m \in SideMsg : m = Head(toSide[e])
  BY <1>2
<1>4. /\ \/ m.t = "update" /\ OnPublishUpdate(e, m)
         \/ m.t = "version" /\ OnPublishVersion(e, m)
         \/ m.t \in {"applied", "rejected"} /\ OnAnswer(e, m)
         \/ m.t = "fetch" /\ OnFetch(e)
         \/ m.t = "resync" /\ OnResync(e)
      /\ toSide' = [toSide EXCEPT ![e] = Tail(@)] /\ UNCHANGED <<log, versions, shell, asked, refused>>
  BY <1>3 DEF OnMsg
<1>5. /\ toSide'[e] = Tail(toSide[e]) /\ toSide' \in [Editors -> Seq(SideMsg)]
      /\ \A f \in Editors \ {e} : toSide'[f] = toSide[f]
  BY <1>0, <1>2, <1>4 DEF Types
<1>6. m.t = "update" => side[e].session /\ side[e].nextSeq <= MaxEdits
  <2> SUFFICES ASSUME m.t = "update" PROVE side[e].session /\ side[e].nextSeq <= MaxEdits
    OBVIOUS
  <2>1. 1 \in Updates(toSide[e])
    BY <1>2, <1>3 DEF Updates
  <2>2. m.edit[2] >= side[e].nextSeq
    BY <1>0, <1>2, <1>3, <2>1 DEF Pipes, Has, InOrder
  <2>3. m.edit \in AllEdits /\ side[e].nextSeq \in Nat /\ MaxEdits \in Nat
    BY <1>0, CommandTypes, LiveBoundAssumption DEF Types, SideT
  <2>4. m.edit[2] <= MaxEdits /\ m.edit[2] \in Nat
    BY <2>3 DEF AllEdits
  <2>5. side[e].session
    BY <1>0, <2>1 DEF Pipes, Has
  <2> QED BY <2>2, <2>3, <2>4, <2>5
<1>7. /\ side' \in [Editors -> SideT] /\ toShell' \in [Editors -> Seq(ShellMsg)]
      /\ \A f \in Editors \ {e} : side'[f] = side[f] /\ toShell'[f] = toShell[f]
      /\ \/ m.t = "update" /\ GotUpdate(e, m)
         \/ m.t = "version" /\ GotVersion(e, m)
         \/ m.t \in {"applied", "rejected"} /\ GotAnswer(e, m)
         \/ m.t = "fetch" /\ GotFetch(e)
         \/ m.t = "resync" /\ GotResync(e)
  <2>1. CASE m.t = "update" /\ OnPublishUpdate(e, m)
    BY <1>0, <1>6, <2>1, OnUpdateDoes DEF GotUpdate, Types
  <2>2. CASE m.t = "version" /\ OnPublishVersion(e, m)
    BY <1>0, <2>2, OnVersionDoes DEF GotVersion, Types
  <2>3. CASE m.t \in {"applied", "rejected"} /\ OnAnswer(e, m)
    BY <1>0, <2>3, OnAnswerDoes DEF GotAnswer, Types
  <2>4. CASE m.t = "fetch" /\ OnFetch(e)
    <3>1. [t |-> "file"] \in ShellMsg
      BY DEF ShellMsg, FileMsg
    <3>2. <<[t |-> "file"]>> \in Seq(ShellMsg)
      BY <3>1, OneFacts
    <3>3. Send(e, <<[t |-> "file"]>>) /\ UNCHANGED side
      BY <2>4 DEF OnFetch
    <3> QED BY <1>0, <2>4, <3>2, <3>3, SendDoes DEF GotFetch, Types
  <2>5. CASE m.t = "resync" /\ OnResync(e)
    BY <1>0, <2>5, OnResyncDoes DEF GotResync, Types
  <2> QED BY <1>4, <2>1, <2>2, <2>3, <2>4, <2>5
<1> QED BY <1>0, <1>1, <1>2, <1>3, <1>4, <1>5, <1>7 DEF Types, Others

(* A prefix has no hole.                                                     *)
LEMMA PrefixFacts ==
  ASSUME NEW applied, NEW n \in Nat
  PROVE  /\ Prefix(applied, n) \in 0 .. n /\ 1 .. Prefix(applied, n) \subseteq applied
         /\ \A k \in 0 .. n : 1 .. k \subseteq applied => k <= Prefix(applied, n)
<1> DEFINE T == {k \in 0 .. n : 1 .. k \subseteq applied}
<1>1. T \in SUBSET Nat /\ 0 \in T /\ \A k \in T : k <= n
  OBVIOUS
<1>2. Prefix(applied, n) = Max(T)
  BY DEF Prefix
<1> HIDE DEF T
<1>3. Max(T) \in T /\ \A k \in T : k <= Max(T)
  BY <1>1, MaxIsGreatest
<1> QED BY <1>2, <1>3 DEF T

(* What is sent is the first in the outbox.                                  *)
First1(e) == side[e].outbox[1]

(* What is there when flush sends.                                         *)
LEMMA SendsDoes ==
  ASSUME Types, NEW e \in Editors, NEW t, Sends(e, t)
  PROVE  /\ side[e].outbox # <<>> /\ side[e].outbox \in Seq(UpdateItem \cup VersionItem)
         /\ 1 \in DOMAIN side[e].outbox
         /\ Head(side[e].outbox) = First1(e) /\ First1(e).t = t
         /\ Tail(side[e].outbox) \in Seq(UpdateItem \cup VersionItem)
         /\ shell[e].phase # "left" /\ side[e].at # "polling" /\ side[e] \in SideT
         /\ t = "update" => First1(e) \in UpdateItem
         /\ t = "version" => First1(e) \in VersionItem
<1>1. side[e].outbox # <<>> /\ side[e].outbox \in Seq(UpdateItem \cup VersionItem)
  BY DEF Sends, Types, SideT
<1>2. /\ 1 \in DOMAIN side[e].outbox /\ Head(side[e].outbox) = First1(e)
      /\ First1(e) \in UpdateItem \cup VersionItem
      /\ Tail(side[e].outbox) \in Seq(UpdateItem \cup VersionItem)
  BY <1>1, TailFacts, SeqFacts DEF First1
<1>3. First1(e).t = t /\ shell[e].phase # "left" /\ side[e].at # "polling" /\ side[e] \in SideT
  BY <1>2 DEF Sends, Running, Types
<1> QED BY <1>1, <1>2, <1>3 DEF UpdateItem, VersionItem

(* The end of a send.                                                        *)
PoppedOff(e) ==
  side'[e].outbox = Tail(side[e].outbox) /\ side'[e].at = "loop" /\ side'[e].order = 0

BackOff(e) == side'[e].at = "loop" /\ side'[e].order = 0

LogGets(e) == log' = Append(log, [by |-> e, seq |-> First1(e).seq, edit |-> First1(e).edit])

(* The log grows by the head of the outbox.                                *)
LEMMA StoreUpdateDoes ==
  ASSUME Types, NEW e \in Editors, Sends(e, "update"), StoreUpdate(e)
  PROVE  LogGets(e) /\ log' \in Seq(LogT) /\ log' # <<>>
<1>1. First1(e) \in UpdateItem /\ Head(side[e].outbox) = First1(e)
  BY SendsDoes
<1>2. [by |-> e, seq |-> First1(e).seq, edit |-> First1(e).edit] \in LogT
  BY <1>1 DEF UpdateItem, LogT
<1>3. LogGets(e)
  BY <1>1 DEF StoreUpdate, LogGets
<1>4. log \in Seq(LogT)
  BY DEF Types
<1> DEFINE x == [by |-> e, seq |-> First1(e).seq, edit |-> First1(e).edit]
<1>5. x \in LogT /\ log' = Append(log, x)
  BY <1>2, <1>3 DEF LogGets
<1> HIDE DEF x
<1> QED BY <1>3, <1>4, <1>5, AppendFacts

(* The records after a send are of the type.                               *)
LEMMA PoppedTypes ==
  ASSUME Types, NEW e \in Editors, NEW t, Sends(e, t)
  PROVE  Popped(side[e]) \in SideT /\ BackedOff(side[e]) \in SideT
<1>1. side[e] \in SideT /\ Tail(side[e].outbox) \in Seq(UpdateItem \cup VersionItem)
  BY SendsDoes
<1> QED BY <1>1 DEF Popped, BackedOff, SideT

(* An update the store accepts: what it does.                              *)
LEMMA UpdateAcceptedDoes ==
  ASSUME Types, NEW e \in Editors, UpdateAccepted(e)
  PROVE  /\ Types' /\ Others(e) /\ UNCHANGED <<versions, shell, toSide, toShell, asked, refused>>
         /\ LogGets(e) /\ SideBut(e, {"outbox", "at", "order", "applied"}) /\ PoppedOff(e)
         /\ side'[e].applied = side[e].applied \cup {Len(log) + 1}
<1>1. /\ Sends(e, "update") /\ StoreUpdate(e)
          /\ UNCHANGED <<versions, shell, toSide, toShell, asked, refused>>
      /\ Become(e, [Popped(side[e]) EXCEPT !.applied = @ \cup {Len(log) + 1}])
  BY DEF UpdateAccepted
<1>2. /\ side[e] \in SideT /\ Popped(side[e]) \in SideT /\ Len(log) \in Nat
  BY <1>1, SendsDoes, PoppedTypes, SeqFacts DEF Types
<1> DEFINE a == side[e].applied \cup {Len(log) + 1}
           t == [Popped(side[e]) EXCEPT !.applied = a]
<1>3. t = [Popped(side[e]) EXCEPT !.applied = @ \cup {Len(log) + 1}] /\ a \in SUBSET Nat
  BY <1>2 DEF Popped, SideT
<1>4. t \in SideT /\ t.outbox = Tail(side[e].outbox) /\ t.at = "loop" /\ t.order = 0 /\ t.applied = a
  <2> HIDE DEF a
  <2>1. t \in SideT
    BY <1>2, <1>3 DEF SideT
  <2> QED BY <1>2, <2>1 DEF SideT, Popped
<1>5. ASSUME side'[e] = t PROVE SideBut(e, {"outbox", "at", "order", "applied"})
  <2> HIDE DEF a
  <2> QED BY <1>2, <1>5 DEF SideT, Popped, SideBut
<1> HIDE DEF t
<1>6. side' \in [Editors -> SideT] /\ side'[e] = t /\ \A f \in Editors \ {e} : side'[f] = side[f]
  BY <1>1, <1>3, <1>4, SideBecomes
<1>7. LogGets(e) /\ log' \in Seq(LogT) /\ log' # <<>>
  BY <1>1, StoreUpdateDoes
<1> QED BY <1>1, <1>4, <1>5, <1>6, <1>7 DEF Types, Others, PoppedOff

(* Steps that only end a send, or begin one.                                 *)
LEMMA PoppedDoes ==
  ASSUME Types, NEW e \in Editors, NEW t, Sends(e, t), Become(e, Popped(side[e]))
  PROVE  /\ side' \in [Editors -> SideT] /\ \A f \in Editors \ {e} : side'[f] = side[f]
         /\ SideBut(e, {"outbox", "at", "order"}) /\ PoppedOff(e)
<1>1. side' \in [Editors -> SideT] /\ side'[e] = Popped(side[e])
        /\ \A f \in Editors \ {e} : side'[f] = side[f]
  BY PoppedTypes, SideBecomes
<1>2. side[e] \in SideT
  BY SendsDoes
<1> QED BY <1>1, <1>2 DEF SideBut, PoppedOff, Popped, SideT

(* A send that is put off.                                                 *)
LEMMA BackedOffDoes ==
  ASSUME Types, NEW e \in Editors, Become(e, BackedOff(side[e]))
  PROVE  /\ side' \in [Editors -> SideT] /\ \A f \in Editors \ {e} : side'[f] = side[f]
         /\ SideBut(e, {"at", "order"}) /\ BackOff(e)
<1>1. side[e] \in SideT
  BY DEF Types
<1>2. BackedOff(side[e]) \in SideT
  BY <1>1 DEF BackedOff, SideT
<1>3. side' \in [Editors -> SideT] /\ side'[e] = BackedOff(side[e])
        /\ \A f \in Editors \ {e} : side'[f] = side[f]
  BY <1>2, SideBecomes
<1> QED BY <1>1, <1>3 DEF SideBut, BackOff, BackedOff, SideT

(* An update whose answer is lost: what it does.                           *)
LEMMA UpdateAnswerLostDoes ==
  ASSUME Types, NEW e \in Editors, UpdateAnswerLost(e)
  PROVE  /\ Types' /\ Others(e) /\ UNCHANGED <<versions, shell, toSide, toShell, asked, refused>>
         /\ LogGets(e) /\ SideBut(e, {"at", "order"}) /\ BackOff(e)
<1>1. /\ Sends(e, "update") /\ StoreUpdate(e)
          /\ UNCHANGED <<versions, shell, toSide, toShell, asked, refused>>
      /\ Become(e, BackedOff(side[e]))
  BY DEF UpdateAnswerLost
<1>2. LogGets(e) /\ log' \in Seq(LogT) /\ log' # <<>>
  BY <1>1, StoreUpdateDoes
<1> QED BY <1>1, <1>2, BackedOffDoes DEF Types, Others

(* An update the store refuses: what it does.                              *)
LEMMA UpdateRefusedDoes ==
  ASSUME Types, NEW e \in Editors, UpdateRefused(e)
  PROVE  /\ Types' /\ Others(e) /\ UNCHANGED <<log, versions, shell, toSide, toShell, asked>>
         /\ refused' = refused \cup {First1(e).edit}
         /\ SideBut(e, {"outbox", "at", "order"}) /\ PoppedOff(e)
<1>1. /\ Sends(e, "update") /\ UNCHANGED <<log, versions, shell, toSide, toShell, asked>>
      /\ Become(e, Popped(side[e])) /\ refused' = refused \cup {First1(e).edit}
  BY SendsDoes DEF UpdateRefused
<1>2. First1(e).edit \in AllEdits
  BY <1>1, SendsDoes DEF UpdateItem
<1> QED BY <1>1, <1>2, PoppedDoes DEF Types, Others

(* A version the store refuses: what it does.                              *)
LEMMA VersionRefusedDoes ==
  ASSUME Types, NEW e \in Editors, VersionRefused(e)
  PROVE  /\ Types' /\ Others(e) /\ UNCHANGED <<log, versions, shell, toSide, toShell, asked, refused>>
         /\ SideBut(e, {"outbox", "at", "order"}) /\ PoppedOff(e)
<1>1. /\ Sends(e, "version") /\ UNCHANGED <<log, versions, shell, toSide, toShell, asked, refused>>
      /\ Become(e, Popped(side[e]))
  BY DEF VersionRefused
<1> QED BY <1>1, PoppedDoes DEF Types, Others

(* Reading the log for a save: what it does.                               *)
LEMMA ReadOrderDoes ==
  ASSUME Types, NEW e \in Editors, ReadOrder(e)
  PROVE  /\ Types' /\ Others(e) /\ UNCHANGED <<log, versions, shell, toSide, toShell, asked, refused>>
         /\ SideBut(e, {"at", "order"}) /\ side'[e].at = "saving" /\ side'[e].order = Len(log)
<1>1. side[e] \in SideT /\ Len(log) \in Nat /\ shell[e].phase # "left"
  BY SendsDoes, SeqFacts DEF Types, ReadOrder
<1>2. [side[e] EXCEPT !.at = "saving", !.order = Len(log)] \in SideT
  BY <1>1 DEF SideT
<1>3. /\ Become(e, [side[e] EXCEPT !.at = "saving", !.order = Len(log)])
      /\ UNCHANGED <<log, versions, shell, toSide, toShell, asked, refused>>
  BY DEF ReadOrder
<1>4. /\ side' \in [Editors -> SideT] /\ \A f \in Editors \ {e} : side'[f] = side[f]
      /\ side'[e] = [side[e] EXCEPT !.at = "saving", !.order = Len(log)]
  BY <1>2, <1>3, SideBecomes
<1>5. SideBut(e, {"at", "order"}) /\ side'[e].at = "saving" /\ side'[e].order = Len(log)
  BY <1>1, <1>4 DEF SideBut, SideT
<1> QED BY <1>3, <1>4, <1>5 DEF Types, Others

(* A save that fails half way: what it does.                               *)
LEMMA VersionFailedDoes ==
  ASSUME Types, NEW e \in Editors, VersionFailed(e)
  PROVE  /\ Types' /\ Others(e) /\ UNCHANGED <<log, versions, shell, toSide, toShell, asked, refused>>
         /\ SideBut(e, {"at", "order"}) /\ BackOff(e) /\ shell[e].phase # "left"
<1>1. /\ Become(e, BackedOff(side[e])) /\ UNCHANGED <<log, versions, shell, toSide, toShell, asked, refused>>
      /\ shell[e].phase # "left"
  BY DEF VersionFailed, Running
<1> QED BY <1>1, BackedOffDoes DEF Types, Others

(* A version is stored.                                                      *)
NewVersion(e) ==
  [by |-> e, parents |-> ParentsOf(side[e], First1(e)), through |-> Through(side[e]),
   file |-> First1(e).file, from |-> IF First1(e).resolve = {} THEN side[e].opened ELSE 0]

(* The list of versions grows by the head of the outbox.                   *)
LEMMA StoreVersionDoes ==
  ASSUME Types, NEW e \in Editors, Sends(e, "version"), StoreVersion(e)
  PROVE  /\ versions' = Append(versions, NewVersion(e)) /\ versions' \in Seq(VersionT) /\ versions' # <<>>
         /\ NewVersion(e) \in VersionT /\ side[e].at = "saving"
         /\ First1(e).resolve = {} => side[e].opened # 0
         /\ Len(versions') = Len(versions) + 1 /\ versions'[Len(versions) + 1] = NewVersion(e)
             /\ Len(versions) \in Nat
<1>1. First1(e) \in VersionItem /\ Head(side[e].outbox) = First1(e) /\ side[e] \in SideT
  BY SendsDoes
<1>2. Through(side[e]) \in Nat
  BY <1>1, PrefixFacts DEF Through, SideT
<1>3. ParentsOf(side[e], First1(e)) \subseteq Nat
  BY <1>1 DEF ParentsOf, Antichain, VersionItem, SideT
<1>4. NewVersion(e) \in VersionT
  BY <1>1, <1>2, <1>3 DEF NewVersion, VersionT, VersionItem, SideT
<1>5. versions' = Append(versions, NewVersion(e)) /\ side[e].at = "saving"
        /\ (First1(e).resolve = {} => side[e].opened # 0)
  BY <1>1 DEF StoreVersion, NewVersion, NothingToSaveFrom
<1>6. versions \in Seq(VersionT)
  BY DEF Types
<1> QED BY <1>4, <1>5, <1>6, AppendFacts

(* A version whose answer is lost: what it does.                           *)
LEMMA VersionAnswerLostDoes ==
  ASSUME Types, NEW e \in Editors, VersionAnswerLost(e)
  PROVE  /\ Types' /\ Others(e) /\ UNCHANGED <<log, shell, toSide, toShell, refused>>
         /\ Sends(e, "version") /\ StoreVersion(e)
         /\ SideBut(e, {"at", "order"}) /\ BackOff(e)
<1>1. /\ Sends(e, "version") /\ StoreVersion(e) /\ UNCHANGED <<log, shell, toSide, toShell, refused>>
      /\ Become(e, BackedOff(side[e])) /\ asked' = asked + 1
  BY DEF VersionAnswerLost
<1>2. versions' \in Seq(VersionT) /\ versions' # <<>>
  BY <1>1, StoreVersionDoes
<1> QED BY <1>1, <1>2, BackedOffDoes DEF Types, Others

(* A version the store accepts: what it does.                              *)
LEMMA VersionAcceptedDoes ==
  ASSUME Types, NEW e \in Editors, VersionAccepted(e)
  PROVE  /\ Types' /\ Others(e) /\ UNCHANGED <<log, shell, toSide, toShell, asked, refused>>
         /\ Sends(e, "version") /\ StoreVersion(e)
         /\ SideBut(e, {"outbox", "at", "order", "mine", "opened", "known", "heads", "told"}) /\ PoppedOff(e)
         /\ side'[e].mine = side[e].mine \cup {Len(versions) + 1} /\ side'[e].opened = Len(versions) + 1
         /\ side'[e].known = side[e].known \cup {Len(versions) + 1}
         /\ side'[e].heads = IF side[e].heads = {} THEN {}
                             ELSE (side[e].heads \ NewVersion(e).parents) \cup {Len(versions) + 1}
         /\ Emitted(e, versions')
<1> DEFINE v == Len(versions) + 1
           ps == versions'[v].parents
           s == Saved(Popped(side[e]), v, ps)
<1>1. /\ Sends(e, "version") /\ StoreVersion(e) /\ UNCHANGED <<log, shell, toSide, toShell, asked, refused>>
      /\ EmitHeads(e, versions', s)
  BY DEF VersionAccepted
<1>2. versions' \in Seq(VersionT) /\ versions' # <<>> /\ versions'[v] = NewVersion(e) /\ v \in Nat
  BY <1>1, StoreVersionDoes
<1>3. side[e] \in SideT /\ Popped(side[e]) \in SideT
  BY <1>1, SendsDoes, PoppedTypes
<1>4. /\ s \in SideT /\ s.told = side[e].told
      /\ s.mine = side[e].mine \cup {v} /\ s.opened = v /\ s.known = side[e].known \cup {v}
      /\ s.heads = IF side[e].heads = {} THEN {} ELSE (side[e].heads \ ps) \cup {v}
  <2> HIDE DEF v, ps
  <2>1. s \in SideT
    BY <1>2, <1>3 DEF Saved, SideT
  <2>2. /\ Popped(side[e]).told = side[e].told /\ Popped(side[e]).mine = side[e].mine
        /\ Popped(side[e]).known = side[e].known /\ Popped(side[e]).heads = side[e].heads
    BY <1>3 DEF Popped, SideT
  <2> QED BY <1>3, <2>1, <2>2 DEF Saved, SideT
<1>5. ASSUME NEW r, side'[e] = [s EXCEPT !.told = r]
      PROVE  /\ SideBut(e, {"outbox", "at", "order", "mine", "opened", "known", "heads", "told"})
                 /\ PoppedOff(e)
             /\ side'[e].mine = s.mine /\ side'[e].opened = s.opened /\ side'[e].known = s.known
             /\ side'[e].heads = s.heads
  <2> HIDE DEF v, ps
  <2> QED BY <1>3, <1>5 DEF Saved, Popped, SideT, SideBut, PoppedOff
<1>6. ps = NewVersion(e).parents
  BY <1>2
<1> HIDE DEF s, ps
<1>7. /\ side' \in [Editors -> SideT] /\ \A f \in Editors \ {e} : side'[f] = side[f]
      /\ side'[e] = [s EXCEPT !.told = HeadsReport(versions', s)] /\ Emitted(e, versions')
  <2>1. PICK vs : vs = versions'
    OBVIOUS
  <2>0. PICK x \in SideT : x = s
    BY <1>4
  <2>2. EmitHeads(e, vs, x) /\ x.told = side[e].told
    BY <1>1, <1>4, <2>0, <2>1
  <2>3. /\ side' \in [Editors -> SideT] /\ \A f \in Editors \ {e} : side'[f] = side[f]
        /\ side'[e] = [x EXCEPT !.told = HeadsReport(vs, x)] /\ Emitted(e, vs)
    BY <2>2, EmitDoes
  <2> QED BY <2>0, <2>1, <2>3
<1>8. Types'
  BY <1>1, <1>2, <1>7 DEF Types
<1> QED BY <1>1, <1>4, <1>5, <1>6, <1>7, <1>8 DEF Others

-----------------------------------------------------------------------------
(* What a read takes in                                                    *)

(* What the log holds.                                                     *)
LEMMA LogFacts ==
  ASSUME Base
  PROVE  /\ Len(log) \in Nat \ {0} /\ DOMAIN log = 1 .. Len(log) /\ MaxEdits \in Nat /\ Types
         /\ \A i \in 1 .. Len(log) : /\ log[i] \in LogT /\ log[i].by \in Editors /\ log[i].seq \in 0 .. MaxEdits
                                     /\ log[i].edit = <<log[i].by, log[i].seq>> /\ log[i].edit \in AllEdits
         /\ log[1] = [by |-> Sharer, seq |-> 0, edit |-> Genesis] /\ GenesisId = 1
<1>1. log \in Seq(LogT) /\ log # <<>> /\ MaxEdits \in Nat /\ Types /\ LogOK
  BY LiveBoundAssumption DEF Base, Types
<1>2. Len(log) \in Nat /\ DOMAIN log = 1 .. Len(log) /\ \A i \in 1 .. Len(log) : log[i] \in LogT
  BY <1>1, SeqFacts
<1>3. Len(log) # 0
  BY <1>1
<1>4. \A i \in 1 .. Len(log) : log[i].by \in Editors /\ log[i].seq \in 0 .. MaxEdits
        /\ log[i].edit \in AllEdits
  BY <1>2 DEF LogT
<1> QED BY <1>1, <1>2, <1>3, <1>4 DEF LogOK, GenesisId

(* The numbers of a stream, and how far a receiver gets with them.           *)
LEMMA ReachFacts ==
  ASSUME Base, NEW e \in Editors, NEW k \in Editors, Reads(side[e], k, Len(log)),
         NEW st, st = Start(side[e], k, Len(log)), NEW r, r = Reach(side[e], k, Len(log))
  PROVE  /\ st \in 0 .. MaxEdits + 1 /\ r \in st .. MaxEdits + 1
         /\ \A j \in st .. r - 1 : j \in Numbers(k, Len(log))
         /\ r \notin Numbers(k, Len(log))
         /\ side[e].pos[k] # -1 => st = side[e].pos[k]
         /\ side[e].pos[k] = -1 => st < r /\ \A j \in Numbers(k, Len(log)) : st <= j
<1>1. /\ Len(log) \in Nat /\ MaxEdits \in Nat /\ side[e] \in SideT
      /\ \A i \in 1 .. Len(log) : log[i].seq \in 0 .. MaxEdits
  BY LogFacts DEF Types
<1> DEFINE N == Numbers(k, Len(log))
<1>2. N \subseteq 0 .. MaxEdits /\ N # {}
  BY <1>1 DEF Numbers, Stream, Reads
<1>3. side[e].pos[k] \in -1 .. MaxEdits + 1
  BY <1>1 DEF SideT
<1>4. st = IF side[e].pos[k] = -1 THEN Min(N) ELSE side[e].pos[k]
  BY DEF Start
<1> HIDE DEF N
<1>5. N \in SUBSET Nat
  BY <1>1, <1>2
<1>6. Min(N) \in N /\ \A j \in N : Min(N) <= j
  BY <1>2, <1>5, MinIsLeast
<1>7. st \in 0 .. MaxEdits + 1
  <2>1. CASE side[e].pos[k] = -1
    <3>1. Min(N) \in 0 .. MaxEdits
      BY <1>2, <1>6
    <3> QED BY <1>1, <1>4, <2>1, <3>1
  <2>2. CASE side[e].pos[k] # -1
    BY <1>1, <1>3, <1>4, <2>2
  <2> QED BY <2>1, <2>2
<1> DEFINE T == {j \in st .. Len(log) + MaxEdits + 1 : j \notin N}
<1>8. r = Min(T)
  BY DEF Reach, N
<1>9. MaxEdits + 1 \in T
  BY <1>1, <1>2, <1>7
<1>10. T \in SUBSET Nat /\ T # {}
  BY <1>1, <1>7, <1>9
<1>11. r \in T /\ \A j \in T : r <= j
  <2> HIDE DEF T
  <2> QED BY <1>8, <1>10, MinIsLeast
<1>12. r \in st .. MaxEdits + 1 /\ r \notin N
  BY <1>1, <1>7, <1>9, <1>11
<1>13. ASSUME NEW j \in st .. r - 1 PROVE j \in N
  <2>1. j \in st .. Len(log) + MaxEdits + 1 /\ j < r
    BY <1>1, <1>7, <1>12
  <2>2. j \notin T
    BY <1>1, <1>7, <1>11, <1>12, <2>1
  <2> QED BY <2>1, <2>2
<1>14. side[e].pos[k] = -1 => st < r /\ \A j \in N : st <= j
  <2> SUFFICES ASSUME side[e].pos[k] = -1 PROVE st < r /\ \A j \in N : st <= j
    OBVIOUS
  <2>1. st \in N /\ \A j \in N : st <= j
    BY <1>4, <1>6
  <2>2. st # r
    BY <1>12, <2>1
  <2> QED BY <1>7, <1>12, <2>1, <2>2
<1> QED BY <1>4, <1>7, <1>12, <1>13, <1>14 DEF N

(* The first of the updates with a number.                                   *)
LEMMA FirstFacts ==
  ASSUME Base, NEW k \in Editors, NEW j \in Numbers(k, Len(log)), NEW f, f = First(k, j, Len(log))
  PROVE  /\ f \in 1 .. Len(log) /\ log[f].by = k /\ log[f].seq = j
         /\ \A i \in 1 .. Len(log) : log[i].by = k /\ log[i].seq = j => f <= i
<1> DEFINE T == {i \in Stream(k, Len(log)) : log[i].seq = j}
<1>1. T \in SUBSET Nat /\ T # {}
  BY LogFacts DEF Stream, Numbers
<1>2. f = Min(T)
  BY DEF First
<1>3. \A i : i \in T <=> i \in 1 .. Len(log) /\ log[i].by = k /\ log[i].seq = j
  BY DEF Stream
<1> HIDE DEF T
<1>4. f \in T /\ \A i \in T : f <= i
  BY <1>1, <1>2, MinIsLeast
<1> QED BY <1>3, <1>4

(* What is accepted: the first copies, from the start up to the reach.       *)
LEMMA AcceptsFacts ==
  ASSUME Base, NEW e \in Editors, NEW i \in Accepts(side[e], Len(log))
  PROVE  /\ i \in 1 .. Len(log) /\ log[i].by \in Editors /\ Reads(side[e], log[i].by, Len(log))
         /\ Start(side[e], log[i].by, Len(log)) <= log[i].seq
             /\ log[i].seq < Reach(side[e], log[i].by, Len(log))
         /\ \A j \in 1 .. Len(log) : log[j].by = log[i].by /\ log[j].seq = log[i].seq => i <= j
<1>1. PICK k \in Editors : /\ Reads(side[e], k, Len(log))
                           /\ i \in {First(k, j, Len(log)) : j \in Start(side[e], k, Len(log)) .. Reach(side[e], k, Len(log)) - 1}
  BY DEF Accepts
<1>2. PICK st : st = Start(side[e], k, Len(log))
  OBVIOUS
<1>3. PICK r : r = Reach(side[e], k, Len(log))
  OBVIOUS
<1>4. st \in 0 .. MaxEdits + 1 /\ r \in st .. MaxEdits + 1
        /\ \A j \in st .. r - 1 : j \in Numbers(k, Len(log))
  BY <1>1, <1>2, <1>3, ReachFacts
<1>5. PICK j \in st .. r - 1 : i = First(k, j, Len(log))
  BY <1>1, <1>2, <1>3
<1>6. /\ i \in 1 .. Len(log) /\ log[i].by = k /\ log[i].seq = j
      /\ \A x \in 1 .. Len(log) : log[x].by = k /\ log[x].seq = j => i <= x
  BY <1>4, <1>5, FirstFacts
<1>7. st <= j /\ j < r
  BY <1>4, <1>5, LogFacts
<1> QED BY <1>1, <1>2, <1>3, <1>6, <1>7

(* ... and every number between them has its first copy accepted.            *)
LEMMA AcceptsAll ==
  ASSUME Base, NEW e \in Editors, NEW k \in Editors, Reads(side[e], k, Len(log)),
         NEW j \in Start(side[e], k, Len(log)) .. Reach(side[e], k, Len(log)) - 1
  PROVE  \E i \in Accepts(side[e], Len(log)) : log[i].by = k /\ log[i].seq = j
<1>1. j \in Numbers(k, Len(log))
  BY ReachFacts
<1>2. First(k, j, Len(log)) \in Accepts(side[e], Len(log))
  BY DEF Accepts
<1> QED BY <1>1, <1>2, FirstFacts

(* A duplicate has an earlier copy.                                          *)
LEMMA DuplicatesFacts ==
  ASSUME Base, NEW e \in Editors, NEW i \in Duplicates(side[e], Len(log))
  PROVE  /\ i \in 1 .. Len(log) /\ log[i].by \in Editors /\ Reads(side[e], log[i].by, Len(log))
         /\ log[i].seq < Reach(side[e], log[i].by, Len(log))
         /\ \E j \in 1 .. i - 1 : log[j].by = log[i].by /\ log[j].seq = log[i].seq
             /\ log[j].edit = log[i].edit
<1>1. PICK k \in Editors : /\ Reads(side[e], k, Len(log)) /\ i \in Stream(k, Len(log))
                           /\ log[i].seq < Reach(side[e], k, Len(log)) /\ i # First(k, log[i].seq, Len(log))
  BY DEF Duplicates
<1>2. i \in 1 .. Len(log) /\ log[i].by = k /\ log[i].seq \in Numbers(k, Len(log))
  BY <1>1 DEF Stream, Numbers
<1>3. PICK f : f = First(k, log[i].seq, Len(log))
  OBVIOUS
<1>4. f \in 1 .. Len(log) /\ log[f].by = k /\ log[f].seq = log[i].seq /\ f <= i
  BY <1>2, <1>3, FirstFacts
<1>5. f \in 1 .. i - 1
  BY <1>1, <1>2, <1>3, <1>4
<1>6. log[f].edit = log[i].edit
  BY <1>2, <1>4, LogFacts
<1> QED BY <1>1, <1>2, <1>4, <1>5, <1>6

(* The order of the events, on ids that differ in stream or number.          *)
LEMMA OrderFacts ==
  ASSUME Base, NEW ids \in SUBSET (1 .. Len(log)),
         \A i, j \in ids : log[i].by = log[j].by /\ log[i].seq = log[j].seq => i = j
  PROVE  /\ \A i \in ids : ~DeliveryOrder(i, i)
         /\ \A i, j, k \in ids : DeliveryOrder(i, j) /\ DeliveryOrder(j, k) => DeliveryOrder(i, k)
         /\ \A i, j \in ids : i # j => DeliveryOrder(i, j) \/ DeliveryOrder(j, i)
<1>1. \A i \in ids : log[i].by \in Nat /\ log[i].seq \in Nat
  <2> SUFFICES ASSUME NEW i \in ids PROVE log[i].by \in Nat /\ log[i].seq \in Nat
    OBVIOUS
  <2>1. i \in 1 .. Len(log)
    OBVIOUS
  <2>2. \A j \in 1 .. Len(log) : log[j].by \in Editors /\ log[j].seq \in 0 .. MaxEdits
    BY LogFacts
  <2>3. log[i].by \in Editors /\ log[i].seq \in 0 .. MaxEdits
    BY <2>1, <2>2
  <2>4. log[i].by \in Nat
    BY <2>3, EditorsAssumption
  <2>5. log[i].seq \in Nat
    BY <2>3, LogFacts
  <2> QED BY <2>4, <2>5
<1>2. \A i \in ids : ~DeliveryOrder(i, i)
  BY <1>1 DEF DeliveryOrder
<1>3. ASSUME NEW i \in ids, NEW j \in ids, NEW k \in ids, DeliveryOrder(i, j), DeliveryOrder(j, k)
      PROVE  DeliveryOrder(i, k)
  BY <1>1, <1>3 DEF DeliveryOrder
<1>4. ASSUME NEW i \in ids, NEW j \in ids, i # j PROVE DeliveryOrder(i, j) \/ DeliveryOrder(j, i)
  BY <1>1, <1>4 DEF DeliveryOrder
<1> QED BY <1>2, <1>3, <1>4

(* The events of a read: each id once, in the order of delivery.           *)
LEMMA EventsFacts ==
  ASSUME Base, NEW ids \in SUBSET (1 .. Len(log)),
         \A i, j \in ids : log[i].by = log[j].by /\ log[i].seq = log[j].seq => i = j,
         NEW q, q = UpdateEvents(ids)
  PROVE  /\ q \in Seq(ShellMsg) /\ Len(q) \in Nat /\ DOMAIN q = 1 .. Len(q)
         /\ \A p \in 1 .. Len(q) : /\ q[p].id \in ids
                                   /\ q[p].t = IF q[p].id = GenesisId THEN "genesis" ELSE "update"
         /\ \A i \in ids : \E p \in 1 .. Len(q) : q[p].id = i
         /\ \A a, b \in 1 .. Len(q) : a < b => DeliveryOrder(q[a].id, q[b].id)
         /\ \A a, b \in 1 .. Len(q) : q[a].id = q[b].id => a = b
<1>1. IsFiniteSet(ids) /\ Cardinality(ids) \in Nat
  <2>1. IsFiniteSet(1 .. Len(log))
    <3>1. 1 \in Int /\ Len(log) \in Int
      BY LogFacts
    <3> QED BY <3>1, FS_Interval
  <2> QED BY <2>1, FS_Subset, FS_CardinalityType
<1>2. PICK n \in Nat : n = Cardinality(ids)
  BY <1>1
<1> DEFINE Sorted(f) == f \in [1 .. n -> ids] /\ \A a, b \in 1 .. n : a < b => DeliveryOrder(f[a], f[b])
           R == {x \in ids \X ids : DeliveryOrder(x[1], x[2])}
<1>3. \E f : Sorted(f)
  <2>1. \A x, y \in ids : <<x, y>> \in R <=> DeliveryOrder(x, y)
    OBVIOUS
  <2> HIDE DEF R
  <2>2. /\ \A x \in ids : <<x, x>> \notin R
        /\ \A x, y, z \in ids : <<x, y>> \in R /\ <<y, z>> \in R => <<x, z>> \in R
        /\ \A x, y \in ids : x # y => <<x, y>> \in R \/ <<y, x>> \in R
    BY <2>1, OrderFacts
  <2>3. PICK f \in [1 .. Cardinality(ids) -> ids] : \A i, j \in 1 .. Cardinality(ids) : i < j
          => <<f[i], f[j]>> \in R
    BY <1>1, <2>2, SortedList
  <2> QED BY <1>2, <2>1, <2>3
<1>4. PICK s : Sorted(s) /\ q
        = [p \in 1 .. n |-> [t |-> IF s[p] = GenesisId THEN "genesis" ELSE "update", id |-> s[p]]]
  <2> DEFINE s == CHOOSE f \in [1 .. Cardinality(ids) -> ids] :
                      \A a, b \in 1 .. Cardinality(ids) : a < b => DeliveryOrder(f[a], f[b])
  <2>1. Sorted(s)
    BY <1>2, <1>3
  <2>2. q = [p \in 1 .. n |-> [t |-> IF s[p] = GenesisId THEN "genesis" ELSE "update", id |-> s[p]]]
    <3>1. UpdateEvents(ids) = [p \in 1 .. Cardinality(ids) |->
                                [t |-> IF s[p] = GenesisId THEN "genesis" ELSE "update", id |-> s[p]]]
      BY DEF UpdateEvents
    <3> HIDE DEF s
    <3> QED BY <1>2, <3>1
  <2> HIDE DEF s, Sorted
  <2> QED BY <2>1, <2>2
<1>5. s \in [1 .. n -> ids] /\ \A a, b \in 1 .. n : a < b => DeliveryOrder(s[a], s[b])
  BY <1>4
<1>6. \A a, b \in 1 .. n : s[a] = s[b] => a = b
  <2> SUFFICES ASSUME NEW a \in 1 .. n, NEW b \in 1 .. n, s[a] = s[b], a # b PROVE FALSE
    OBVIOUS
  <2>1. a < b \/ b < a
    OBVIOUS
  <2>2. DeliveryOrder(s[a], s[a])
    BY <1>5, <2>1
  <2>3. s[a] \in ids
    BY <1>5
  <2> QED BY <2>2, <2>3, OrderFacts
<1>7. \A i \in ids : \E p \in 1 .. n : s[p] = i
  <2>1. s \in Injection(1 .. n, ids)
    BY <1>5, <1>6, Fun_IsInj
  <2>2. Cardinality(1 .. n) = n
    BY FS_Interval
  <2>3. s \in Surjection(1 .. n, ids)
    BY <1>1, <1>2, <2>1, <2>2, FS_Injection
  <2> QED BY <2>3 DEF Surjection
<1>8. \A p \in 1 .. n : q[p] = [t |-> IF s[p] = GenesisId THEN "genesis" ELSE "update", id |-> s[p]]
  BY <1>4
<1>9. \A p \in 1 .. n : q[p] \in ShellMsg
  <2> SUFFICES ASSUME NEW p \in 1 .. n PROVE q[p] \in ShellMsg
    OBVIOUS
  <2>1. s[p] \in 1 .. Len(log) /\ Len(log) \in Nat
    BY <1>5, LogFacts
  <2>2. s[p] \in Nat
    BY <2>1
  <2>3. \A t \in {"genesis", "update"} : [t |-> t, id |-> s[p]] \in ShellMsg
    BY <2>2 DEF ShellMsg, EventMsg
  <2> QED BY <1>8, <2>3
<1>10. q \in Seq(ShellMsg) /\ Len(q) = n /\ DOMAIN q = 1 .. n
  <2>1. q \in [1 .. n -> ShellMsg]
    <3>1. DOMAIN q = 1 .. n /\ q = [p \in 1 .. n |-> q[p]]
      BY <1>4
    <3> QED BY <1>9, <3>1
  <2> QED BY <2>1
<1> QED BY <1>5, <1>6, <1>7, <1>8, <1>10

(* The heads of all the versions there are.                                  *)
LEMMA HeadsFacts ==
  ASSUME Base, NEW hs, hs = HeadsOf(1 .. Len(versions))
  PROVE  /\ Len(versions) \in Nat \ {0} /\ hs \subseteq 1 .. Len(versions) /\ Len(versions) \in hs
         /\ Max(hs) \in hs
<1>1. versions \in Seq(VersionT) /\ versions # <<>>
  BY DEF Base, Types
<1>2. Len(versions) \in Nat \ {0}
  BY <1>1
<1>3. \A v \in 1 .. Len(versions) : versions[v].parents \subseteq 1 .. v - 1
  BY DEF Base, VersionsOK
<1>4. hs \subseteq 1 .. Len(versions)
  BY DEF HeadsOf
<1>5. Len(versions) \in hs
  <2>1. ASSUME NEW w \in 1 .. Len(versions) PROVE Len(versions) \notin versions[w].parents
    <3>1. versions[w].parents \subseteq 1 .. w - 1
      BY <1>3
    <3> QED BY <1>2, <3>1
  <2> QED BY <1>2, <2>1 DEF HeadsOf
<1>6. Max(hs) \in hs
  <2>1. hs \in SUBSET Nat /\ hs # {} /\ \A k \in hs : k <= Len(versions)
    BY <1>2, <1>4, <1>5
  <2> QED BY <1>2, <2>1, MaxIsGreatest
<1> QED BY <1>2, <1>4, <1>5, <1>6

(* Reading the versions: what it does.                                     *)
LEMMA PollVersionsDoes ==
  ASSUME Base, NEW e \in Editors, PollVersions(e)
  PROVE  /\ Types' /\ Others(e) /\ UNCHANGED <<log, versions, shell, toSide, toShell, asked, refused>>
         /\ shell[e].phase # "left" /\ side[e].at = "loop"
         /\ SideBut(e, {"known", "heads", "opened", "at"})
         /\ side'[e].known = 1 .. Len(versions) /\ side'[e].heads = HeadsOf(1 .. Len(versions))
         /\ side'[e].opened = IF side[e].opened = 0 THEN Max(HeadsOf(1 .. Len(versions))) ELSE side[e].opened
         /\ side'[e].at = "polling"
<1>1. Types /\ side[e] \in SideT
  BY DEF Base, Types
<1>2. PICK hs : hs = HeadsOf(1 .. Len(versions))
  OBVIOUS
<1>3. Len(versions) \in Nat \ {0} /\ hs \subseteq 1 .. Len(versions) /\ Max(hs) \in hs
  BY <1>2, HeadsFacts
<1>4. PICK o : o = IF side[e].opened = 0 THEN Max(hs) ELSE side[e].opened
  OBVIOUS
<1>5. o \in Nat
  <2>1. side[e].opened \in Nat
    BY <1>1 DEF SideT
  <2>2. Max(hs) \in Nat
    <3>1. 1 .. Len(versions) \subseteq Nat
      BY <1>3
    <3>2. hs \subseteq Nat
      BY <1>3, <3>1
    <3> QED BY <1>3, <3>2
  <2> QED BY <1>4, <2>1, <2>2
<1>6. hs \in SUBSET Nat /\ 1 .. Len(versions) \in SUBSET Nat
  BY <1>3
<1> DEFINE s == [side[e] EXCEPT !.known = 1 .. Len(versions), !.heads = hs, !.opened = o, !.at = "polling"]
<1>7. Become(e, s)
  BY <1>2, <1>4 DEF PollVersions
<1>8. s \in SideT
  BY <1>1, <1>5, <1>6 DEF SideT
<1>9. /\ s.known = 1 .. Len(versions) /\ s.heads = hs /\ s.opened = o /\ s.at = "polling"
      /\ side'[e] = s => SideBut(e, {"known", "heads", "opened", "at"})
  BY <1>1 DEF SideBut, SideT
<1> HIDE DEF s
<1>10. side' \in [Editors -> SideT] /\ side'[e] = s /\ \A f \in Editors \ {e} : side'[f] = side[f]
  BY <1>1, <1>7, <1>8, SideBecomes
<1>11. /\ UNCHANGED <<log, versions, shell, toSide, toShell, asked, refused>>
       /\ shell[e].phase # "left" /\ side[e].at = "loop"
  BY DEF PollVersions, Idle, Running
<1>12. Types' /\ Others(e)
  BY <1>1, <1>10, <1>11 DEF Types, Others
<1> QED BY <1>2, <1>4, <1>9, <1>10, <1>11, <1>12

(* What a read takes in: accepted, and from another editor.                  *)
Taken(e) == {i \in Accepts(side[e], Len(log)) : log[i].by # e}

Own(e) == {i \in Accepts(side[e], Len(log)) : log[i].by = e}

(* What a read takes in and what it skips is in the log.                   *)
LEMMA TakenFacts ==
  ASSUME Base, NEW e \in Editors
  PROVE  /\ Taken(e) \in SUBSET (1 .. Len(log)) /\ Own(e) \in SUBSET (1 .. Len(log))
         /\ Duplicates(side[e], Len(log)) \in SUBSET (1 .. Len(log))
         /\ \A i, j \in Taken(e) : log[i].by = log[j].by /\ log[i].seq = log[j].seq => i = j
         /\ UpdateEvents(Taken(e)) \in Seq(ShellMsg)
<1>1. Taken(e) \in SUBSET (1 .. Len(log)) /\ Own(e) \in SUBSET (1 .. Len(log))
  BY AcceptsFacts DEF Taken, Own
<1>2. Duplicates(side[e], Len(log)) \in SUBSET (1 .. Len(log))
  BY DuplicatesFacts
<1>3. ASSUME NEW i \in Taken(e), NEW j \in Taken(e), log[i].by = log[j].by, log[i].seq = log[j].seq
      PROVE  i = j
  <2>1. i \in Accepts(side[e], Len(log)) /\ j \in Accepts(side[e], Len(log))
    BY DEF Taken
  <2>2. i \in 1 .. Len(log) /\ j \in 1 .. Len(log) /\ i <= j /\ j <= i
    BY <1>3, <2>1, AcceptsFacts
  <2> QED BY <2>2
<1>4. UpdateEvents(Taken(e)) \in Seq(ShellMsg)
  <2>1. PICK q : q = UpdateEvents(Taken(e))
    OBVIOUS
  <2>2. q \in Seq(ShellMsg)
    BY <1>1, <1>3, <2>1, EventsFacts
  <2> QED BY <2>1, <2>2
<1> QED BY <1>1, <1>2, <1>3, <1>4

(* Reading the updates: what it does.                                      *)
LEMMA PollUpdatesDoes ==
  ASSUME Base, NEW e \in Editors, PollUpdates(e)
  PROVE  /\ Types' /\ Others(e) /\ UNCHANGED <<log, versions, shell, toSide, asked, refused>>
         /\ shell[e].phase # "left" /\ side[e].at = "polling"
         /\ SideBut(e, {"session", "seen", "pos", "stopped", "applied", "awaiting", "at", "told"})
         /\ side'[e].session = TRUE /\ side'[e].seen = Len(log) /\ side'[e].at = "loop"
         /\ \A k \in Editors : side'[e].pos[k] = IF Reads(side[e], k, Len(log))
             THEN Reach(side[e], k, Len(log))
                                                 ELSE side[e].pos[k]
         /\ side'[e].stopped = side[e].stopped \cup
               {k \in Editors : Reads(side[e], k, Len(log)) /\ HasGap(side[e], k, Len(log))}
         /\ side'[e].applied = side[e].applied \cup Own(e) \cup Duplicates(side[e], Len(log))
         /\ side'[e].awaiting = side[e].awaiting \cup Taken(e)
         /\ Emitted(e, versions) /\ Sent(e, UpdateEvents(Taken(e)))
<1>1. Types /\ side[e] \in SideT /\ Len(log) \in Nat /\ MaxEdits \in Nat
  BY LogFacts DEF Types
<1>2. PICK n : n = Len(log)
  OBVIOUS
<1>3. PICK po : po = [k \in Editors |-> IF Reads(side[e], k, n) THEN Reach(side[e], k, n) ELSE side[e].pos[k]]
  OBVIOUS
<1>4. PICK st : st = side[e].stopped \cup {k \in Editors : Reads(side[e], k, n) /\ HasGap(side[e], k, n)}
  OBVIOUS
<1>5. PICK ap : ap = side[e].applied \cup Own(e) \cup Duplicates(side[e], n)
  OBVIOUS
<1>6. PICK aw : aw = side[e].awaiting \cup Taken(e)
  OBVIOUS
<1> DEFINE s == [side[e] EXCEPT !.session = TRUE, !.seen = n, !.pos = po, !.stopped = st, !.applied = ap,
                                !.awaiting = aw, !.at = "loop"]
<1>7. po \in [Editors -> -1 .. MaxEdits + 1]
  <2>1. ASSUME NEW k \in Editors, Reads(side[e], k, n) PROVE Reach(side[e], k, n) \in -1 .. MaxEdits + 1
    <3>1. PICK a, r : a = Start(side[e], k, n) /\ r = Reach(side[e], k, n)
      OBVIOUS
    <3>2. a \in 0 .. MaxEdits + 1 /\ r \in a .. MaxEdits + 1
      BY <1>2, <2>1, <3>1, ReachFacts
    <3>3. r \in -1 .. MaxEdits + 1
      BY <1>1, <3>2
    <3> QED BY <3>1, <3>3
  <2>2. side[e].pos \in [Editors -> -1 .. MaxEdits + 1]
    BY <1>1 DEF SideT
  <2>3. ASSUME NEW k \in Editors PROVE po[k] \in -1 .. MaxEdits + 1
    <3>1. CASE Reads(side[e], k, n)
      BY <1>3, <2>1, <3>1
    <3>2. CASE ~Reads(side[e], k, n)
      BY <1>3, <2>2, <3>2
    <3> QED BY <3>1, <3>2
  <2> QED BY <1>3, <2>3
<1>8. s \in SideT
  <2>1. 1 .. Len(log) \subseteq Nat
    BY <1>1
  <2>2. ap \in SUBSET Nat /\ aw \in SUBSET Nat /\ st \in SUBSET Editors /\ n \in Nat
    BY <1>1, <1>2, <1>4, <1>5, <1>6, <2>1, TakenFacts DEF SideT
  <2> QED BY <1>1, <1>7, <2>2 DEF SideT
<1>9. /\ s.session = TRUE /\ s.seen = n /\ s.pos = po /\ s.stopped = st /\ s.applied = ap /\ s.awaiting = aw
      /\ s.at = "loop"
  BY <1>1 DEF SideT
<1>10. \A hr : LET r == [s EXCEPT !.told = hr]
                IN  /\ r.session = TRUE /\ r.seen = n /\ r.pos = po /\ r.stopped = st /\ r.applied = ap
                    /\ r.awaiting = aw /\ r.at = "loop"
                    /\ side'[e] = r =>
                          SideBut(e, {"session", "seen", "pos", "stopped", "applied", "awaiting", "at", "told"})
  BY <1>1 DEF SideBut, SideT
<1>11. EmitHeads(e, versions, s)
  <2>1. EmitHeads(e, versions,
           [side[e] EXCEPT !.session = TRUE, !.seen = n,
              !.pos = [k \in Editors |-> IF k \in {x \in Editors : Reads(side[e], x, n)} THEN Reach(side[e], k, n) ELSE @[k]],
              !.stopped = @ \cup {k \in {x \in Editors : Reads(side[e], x, n)} : HasGap(side[e], k, n)},
              !.applied = @ \cup Own(e) \cup Duplicates(side[e], n),
              !.awaiting = @ \cup (Accepts(side[e], n) \ Own(e)),
              !.at = "loop"])
    BY <1>2 DEF PollUpdates, Own
  <2>2. Accepts(side[e], n) \ Own(e) = Taken(e)
    BY <1>2 DEF Taken, Own
  <2>3. {k \in {x \in Editors : Reads(side[e], x, n)} : HasGap(side[e], k, n)}
          = {k \in Editors : Reads(side[e], k, n) /\ HasGap(side[e], k, n)}
    OBVIOUS
  <2>4. [k \in Editors |-> IF k \in {x \in Editors : Reads(side[e], x, n)} THEN Reach(side[e], k, n) ELSE side[e].pos[k]] = po
    BY <1>3
  <2> QED BY <1>4, <1>5, <1>6, <2>1, <2>2, <2>3, <2>4
<1>18. s.told = side[e].told
  BY <1>1 DEF SideT
<1> HIDE DEF s
<1>12. /\ side' \in [Editors -> SideT] /\ \A f \in Editors \ {e} : side'[f] = side[f]
       /\ side'[e] = [s EXCEPT !.told = HeadsReport(versions, s)] /\ Emitted(e, versions)
  <2>1. Types
    BY <1>1
  <2>2. /\ side' \in [Editors -> SideT] /\ \A f \in Editors \ {e} : side'[f] = side[f]
        /\ side'[e] = [s EXCEPT !.told = HeadsReport(versions, s)]
        /\ s.told = side[e].told => Emitted(e, versions)
    BY <2>1, <1>8, <1>11, EmitDoes
  <2> QED BY <1>18, <2>2
<1>13. Send(e, UpdateEvents(Taken(e)))
  <2>1. Accepts(side[e], n) \ {i \in Accepts(side[e], n) : log[i].by = e} = Taken(e)
    BY <1>2 DEF Taken
  <2> QED BY <1>2, <2>1 DEF PollUpdates
<1>14. /\ Sent(e, UpdateEvents(Taken(e))) /\ toShell' \in [Editors -> Seq(ShellMsg)]
       /\ \A f \in Editors \ {e} : toShell'[f] = toShell[f]
  BY <1>1, <1>13, TakenFacts, SendDoes
<1>15. UNCHANGED <<log, versions, shell, toSide, asked, refused>> /\ shell[e].phase # "left"
         /\ side[e].at = "polling"
  BY DEF PollUpdates, Running
<1>16. Types' /\ Others(e)
  BY <1>1, <1>12, <1>14, <1>15 DEF Types, Others
<1>19. /\ side'[e].session = TRUE /\ side'[e].seen = n /\ side'[e].pos = po /\ side'[e].stopped = st
       /\ side'[e].applied = ap /\ side'[e].awaiting = aw /\ side'[e].at = "loop"
       /\ SideBut(e, {"session", "seen", "pos", "stopped", "applied", "awaiting", "at", "told"})
  BY <1>10, <1>12
<1>17. \A k \in Editors : side'[e].pos[k] = IF Reads(side[e], k, Len(log)) THEN Reach(side[e], k, Len(log))
                                            ELSE side[e].pos[k]
  BY <1>2, <1>3, <1>19
<1> QED BY <1>2, <1>4, <1>5, <1>6, <1>12, <1>14, <1>15, <1>16, <1>17, <1>19

(* A read that fails: what it does.                                        *)
LEMMA PollFailedDoes ==
  ASSUME Base, NEW e \in Editors, PollFailed(e)
  PROVE  /\ Types' /\ Others(e) /\ UNCHANGED <<log, versions, shell, toSide, toShell, asked, refused>>
         /\ shell[e].phase # "left" /\ side[e].at = "polling"
         /\ SideBut(e, {"session", "seen", "at", "told"}) /\ side'[e].at = "loop"
         /\ \/ SideBut(e, {"at", "told"})
            \/ side'[e].session = TRUE /\ side'[e].seen = Len(log)
         /\ Emitted(e, versions)
<1>1. Types /\ side[e] \in SideT /\ Len(log) \in Nat
  BY LogFacts DEF Types
<1>2. UNCHANGED <<log, versions, shell, toSide, toShell, asked, refused>> /\ shell[e].phase # "left"
        /\ side[e].at = "polling"
  BY DEF PollFailed, Running
<1>3. CASE EmitHeads(e, versions, [side[e] EXCEPT !.at = "loop"])
  <2> DEFINE s == [side[e] EXCEPT !.at = "loop"]
  <2>1. s \in SideT /\ s.told = side[e].told
    BY <1>1 DEF SideT
  <2>2. \A hr : LET r == [s EXCEPT !.told = hr]
                IN  r.at = "loop"
                  /\ (side'[e] = r => SideBut(e, {"at", "told"}) /\ SideBut(e, {"session", "seen", "at", "told"}))
    BY <1>1 DEF SideBut, SideT
  <2>3. EmitHeads(e, versions, s)
    BY <1>3
  <2> HIDE DEF s
  <2>4. /\ side' \in [Editors -> SideT] /\ \A f \in Editors \ {e} : side'[f] = side[f]
        /\ side'[e] = [s EXCEPT !.told = HeadsReport(versions, s)] /\ Emitted(e, versions)
    BY <1>1, <2>1, <2>3, EmitDoes
  <2>5. Types' /\ Others(e)
    BY <1>1, <1>2, <2>4 DEF Types, Others
  <2> QED BY <1>2, <2>2, <2>4, <2>5
<1>4. CASE EmitHeads(e, versions, [side[e] EXCEPT !.at = "loop", !.session = TRUE, !.seen = Len(log)])
  <2> DEFINE s == [side[e] EXCEPT !.at = "loop", !.session = TRUE, !.seen = Len(log)]
  <2>1. s \in SideT /\ s.told = side[e].told
    BY <1>1 DEF SideT
  <2>2. \A hr : LET r == [s EXCEPT !.told = hr]
                IN  /\ r.at = "loop" /\ r.session = TRUE /\ r.seen = Len(log)
                    /\ side'[e] = r => SideBut(e, {"session", "seen", "at", "told"})
    BY <1>1 DEF SideBut, SideT
  <2>3. EmitHeads(e, versions, s)
    BY <1>4
  <2> HIDE DEF s
  <2>4. /\ side' \in [Editors -> SideT] /\ \A f \in Editors \ {e} : side'[f] = side[f]
        /\ side'[e] = [s EXCEPT !.told = HeadsReport(versions, s)] /\ Emitted(e, versions)
    BY <1>1, <2>1, <2>3, EmitDoes
  <2>5. Types' /\ Others(e)
    BY <1>1, <1>2, <2>4 DEF Types, Others
  <2> QED BY <1>2, <2>2, <2>4, <2>5
<1> QED BY <1>3, <1>4 DEF PollFailed

-----------------------------------------------------------------------------
(* Queues                                                                  *)

(* Ids that are in the log, in two pipes of commands joined.               *)
LEMMA SideIdsConcat ==
  ASSUME NEW q \in Seq(SideMsg), NEW r \in Seq(SideMsg), NEW n, SideIds(q, n), SideIds(r, n)
  PROVE  SideIds(q \o r, n)
BY ConcatMembers DEF SideIds

(* ... and in one without its head.                                        *)
LEMMA SideIdsTail ==
  ASSUME NEW q \in Seq(SideMsg), q # <<>>, NEW n, SideIds(q, n)
  PROVE  SideIds(Tail(q), n)
BY TailMembers DEF SideIds

(* Ids that are in the log, in two pipes of events joined.                 *)
LEMMA ShellIdsConcat ==
  ASSUME NEW q \in Seq(ShellMsg), NEW r \in Seq(ShellMsg), NEW n, ShellIds(q, n), ShellIds(r, n)
  PROVE  ShellIds(q \o r, n)
BY ConcatMembers DEF ShellIds

(* ... and in one without its head.                                        *)
LEMMA ShellIdsTail ==
  ASSUME NEW q \in Seq(ShellMsg), q # <<>>, NEW n, ShellIds(q, n)
  PROVE  ShellIds(Tail(q), n)
BY TailMembers DEF ShellIds

(* Merges of versions that are there, in two queues joined.                *)
LEMMA ResolvesConcat ==
  ASSUME NEW S, NEW q \in Seq(S), NEW r \in Seq(S), NEW n, Resolves(q, n), Resolves(r, n)
  PROVE  Resolves(q \o r, n)
BY ConcatMembers DEF Resolves

(* ... and in one without its head.                                        *)
LEMMA ResolvesTail ==
  ASSUME NEW S, NEW q \in Seq(S), q # <<>>, NEW n, Resolves(q, n)
  PROVE  Resolves(Tail(q), n)
BY TailMembers DEF Resolves

(* A joined queue has what one of its parts has.                           *)
LEMMA HasConcat ==
  ASSUME NEW S, NEW q \in Seq(S), NEW r \in Seq(S), NEW t, Has(q \o r, t)
  PROVE  Has(q, t) \/ Has(r, t)
BY ConcatMembers DEF Has

(* A queue has what its tail has.                                          *)
LEMMA HasTail ==
  ASSUME NEW S, NEW q \in Seq(S), q # <<>>, NEW t, Has(Tail(q), t)
  PROVE  Has(q, t)
BY TailMembers DEF Has

(* More of the log, more versions: what is named is still there.             *)
LEMMA StillThere ==
  ASSUME NEW n \in Nat, NEW m \in Nat, n <= m, NEW q
  PROVE  /\ SideIds(q, n) => SideIds(q, m)
         /\ ShellIds(q, n) => ShellIds(q, m)
         /\ Resolves(q, n) => Resolves(q, m)
<1>1. 1 .. n \subseteq 1 .. m
  OBVIOUS
<1> QED BY <1>1 DEF SideIds, ShellIds, Resolves

(* The updates on their way to the sidecar, in order and without a gap.      *)
LEMMA InOrderConcat ==
  ASSUME NEW q \in Seq(SideMsg), NEW r \in Seq(SideMsg), NEW e, NEW a \in Nat, NEW b \in Nat,
         InOrder(q, e, a, b), ~Has(r, "update")
  PROVE  InOrder(q \o r, e, a, b) /\ (Updates(q \o r) # {} => Updates(q) # {})
<1>1. \A i : i \in Updates(q \o r) => i \in Updates(q) /\ (q \o r)[i] = q[i]
  BY ConcatMembers DEF Updates, Has
<1>2. \A i \in Updates(q) : i \in Updates(q \o r) /\ (q \o r)[i] = q[i]
  BY ConcatMembers DEF Updates
<1> QED BY <1>1, <1>2 DEF InOrder

(* One more update with the next number keeps the pipe in order.           *)
LEMMA InOrderAppend ==
  ASSUME NEW q \in Seq(SideMsg), NEW m \in SideMsg, NEW e, NEW a \in Nat, NEW b \in Nat, a <= b,
         InOrder(q, e, a, b), m = [t |-> "update", edit |-> <<e, b>>]
  PROVE  InOrder(q \o <<m>>, e, a, b + 1)
<1>0. m.t = "update" /\ m.edit = <<e, b>> /\ m.edit[2] = b
  OBVIOUS
<1>1. <<m>> \in Seq(SideMsg) /\ DOMAIN <<m>> = {1} /\ <<m>>[1] = m
  BY OneFacts
<1> DEFINE p == q \o <<m>>
           l == Len(q) + 1
<1>2. /\ l \in Updates(p) /\ p[l] = m
      /\ \A i \in Updates(p) : i = l \/ (i \in Updates(q) /\ p[i] = q[i])
      /\ \A i \in Updates(q) : i \in Updates(p) /\ p[i] = q[i] /\ i < l /\ i \in Nat
      /\ l \in Nat
  <2>1. /\ Len(q) \in Nat /\ DOMAIN q = 1 .. Len(q)
        /\ \A i \in DOMAIN p : \/ i \in DOMAIN q /\ p[i] = q[i]
                               \/ \E j \in DOMAIN <<m>> : i = Len(q) + j /\ p[i] = <<m>>[j]
        /\ \A i \in DOMAIN q : i \in DOMAIN p /\ p[i] = q[i]
        /\ \A j \in DOMAIN <<m>> : Len(q) + j \in DOMAIN p /\ p[Len(q) + j] = <<m>>[j]
    BY <1>1, ConcatMembers
  <2> HIDE DEF p
  <2> QED BY <1>0, <1>1, <2>1 DEF Updates
<1> HIDE DEF p, l
<1>3. \A i \in Updates(p) : p[i].edit = <<e, p[i].edit[2]>> /\ p[i].edit[2] \in a .. (b + 1) - 1
  <2> SUFFICES ASSUME NEW i \in Updates(p)
               PROVE  p[i].edit = <<e, p[i].edit[2]>> /\ p[i].edit[2] \in a .. (b + 1) - 1
    OBVIOUS
  <2>1. CASE i = l
    BY <1>0, <1>2, <2>1
  <2>2. CASE i \in Updates(q) /\ p[i] = q[i]
    <3>1. q[i].edit = <<e, q[i].edit[2]>> /\ q[i].edit[2] \in a .. b - 1
      BY <2>2 DEF InOrder
    <3> QED BY <2>2, <3>1
  <2> QED BY <1>2, <2>1, <2>2
<1>4. ASSUME NEW k \in a .. (b + 1) - 1 PROVE \E i \in Updates(p) : p[i].edit[2] = k
  <2>1. CASE k = b
    BY <1>0, <1>2, <2>1
  <2>2. CASE k # b
    <3>1. k \in a .. b - 1
      BY <2>2
    <3>2. PICK i \in Updates(q) : q[i].edit[2] = k
      BY <3>1 DEF InOrder
    <3> QED BY <1>2, <3>2
  <2> QED BY <2>1, <2>2
<1>5. ASSUME NEW i \in Updates(p), NEW j \in Updates(p), i < j PROVE p[i].edit[2] < p[j].edit[2]
  <2>1. CASE j = l
    <3>1. i \in Updates(q) /\ p[i] = q[i]
      BY <1>2, <1>5, <2>1
    <3>2. q[i].edit[2] \in a .. b - 1
      BY <3>1 DEF InOrder
    <3> QED BY <1>0, <1>2, <2>1, <3>1, <3>2
  <2>2. CASE j # l
    <3>1. j \in Updates(q) /\ p[j] = q[j]
      BY <1>2, <2>2
    <3>2. i # l
      BY <1>2, <1>5, <3>1
    <3>3. i \in Updates(q) /\ p[i] = q[i]
      BY <1>2, <3>2
    <3> QED BY <1>5, <3>1, <3>3 DEF InOrder
  <2> QED BY <2>1, <2>2
<1> QED BY <1>3, <1>4, <1>5 DEF InOrder, p

(* Taking another command does not disturb the updates.                    *)
LEMMA InOrderTail ==
  ASSUME NEW q \in Seq(SideMsg), q # <<>>, NEW e, NEW a \in Nat, NEW b \in Nat,
         InOrder(q, e, a, b), q[1].t # "update"
  PROVE  InOrder(Tail(q), e, a, b) /\ (Updates(Tail(q)) # {} => Updates(q) # {})
<1>1. \A i \in Updates(Tail(q)) : i + 1 \in Updates(q) /\ Tail(q)[i] = q[i + 1] /\ i \in Nat
  BY TailMembers DEF Updates
<1>2. \A i \in Updates(q) : i - 1 \in Updates(Tail(q)) /\ Tail(q)[i - 1] = q[i]
  BY TailMembers DEF Updates
<1>3. ASSUME NEW i \in Updates(Tail(q))
      PROVE  Tail(q)[i].edit = <<e, Tail(q)[i].edit[2]>> /\ Tail(q)[i].edit[2] \in a .. b - 1
  <2>1. i + 1 \in Updates(q) /\ Tail(q)[i] = q[i + 1]
    BY <1>1
  <2>2. q[i + 1].edit = <<e, q[i + 1].edit[2]>> /\ q[i + 1].edit[2] \in a .. b - 1
    BY <2>1 DEF InOrder
  <2> QED BY <2>1, <2>2
<1>4. ASSUME NEW k \in a .. b - 1 PROVE \E i \in Updates(Tail(q)) : Tail(q)[i].edit[2] = k
  <2>1. PICK i \in Updates(q) : q[i].edit[2] = k
    BY DEF InOrder
  <2> QED BY <1>2, <2>1
<1>5. ASSUME NEW i \in Updates(Tail(q)), NEW j \in Updates(Tail(q)), i < j
      PROVE  Tail(q)[i].edit[2] < Tail(q)[j].edit[2]
  <2>1. i + 1 \in Updates(q) /\ j + 1 \in Updates(q) /\ i + 1 < j + 1
    BY <1>1, <1>5
  <2> QED BY <1>1, <2>1 DEF InOrder
<1> QED BY <1>1, <1>3, <1>4, <1>5 DEF InOrder

(* The first update on its way has the next number.                          *)
LEMMA InOrderTake ==
  ASSUME NEW q \in Seq(SideMsg), q # <<>>, NEW e, NEW a \in Nat, NEW b \in Nat,
         InOrder(q, e, a, b), q[1].t = "update"
  PROVE  /\ q[1].edit = <<e, a>> /\ a < b /\ InOrder(Tail(q), e, a + 1, b)
         /\ Updates(q) # {}
<1>1. \A i \in Updates(Tail(q)) : i + 1 \in Updates(q) /\ Tail(q)[i] = q[i + 1] /\ i \in Nat /\ 1 < i + 1
  BY TailMembers DEF Updates
<1>2. \A i \in Updates(q) \ {1} : i - 1 \in Updates(Tail(q)) /\ Tail(q)[i - 1] = q[i] /\ i \in Nat /\ 1 < i
  BY TailMembers DEF Updates
<1>3. 1 \in Updates(q)
  BY TailMembers DEF Updates
<1>4. q[1].edit = <<e, q[1].edit[2]>> /\ q[1].edit[2] \in a .. b - 1
  BY <1>3 DEF InOrder
<1>5. q[1].edit[2] = a
  <2>1. a \in a .. b - 1
    BY <1>4
  <2>2. PICK i \in Updates(q) : q[i].edit[2] = a
    BY <2>1 DEF InOrder
  <2>3. ASSUME i # 1 PROVE FALSE
    <3>1. 1 < i
      BY <1>2, <2>3
    <3>2. q[1].edit[2] < a
      BY <1>3, <2>2, <3>1 DEF InOrder
    <3> QED BY <1>4, <3>2
  <2> QED BY <2>2, <2>3
<1>6. \A i \in Updates(Tail(q)) : Tail(q)[i].edit = <<e, Tail(q)[i].edit[2]>>
        /\ Tail(q)[i].edit[2] \in a + 1 .. b - 1
  <2> SUFFICES ASSUME NEW i \in Updates(Tail(q))
               PROVE  Tail(q)[i].edit = <<e, Tail(q)[i].edit[2]>> /\ Tail(q)[i].edit[2] \in a + 1 .. b - 1
    OBVIOUS
  <2>1. i + 1 \in Updates(q) /\ Tail(q)[i] = q[i + 1] /\ 1 < i + 1
    BY <1>1
  <2>2. q[i + 1].edit = <<e, q[i + 1].edit[2]>> /\ q[i + 1].edit[2] \in a .. b - 1
          /\ q[1].edit[2] < q[i + 1].edit[2]
    BY <1>3, <2>1 DEF InOrder
  <2>3. PICK x : x = q[i + 1].edit[2]
    OBVIOUS
  <2>4. x \in a + 1 .. b - 1
    BY <1>5, <2>2, <2>3
  <2> QED BY <2>1, <2>2, <2>3, <2>4
<1>7. ASSUME NEW k \in a + 1 .. b - 1 PROVE \E i \in Updates(Tail(q)) : Tail(q)[i].edit[2] = k
  <2>1. k \in a .. b - 1 /\ k # a
    OBVIOUS
  <2>2. PICK i \in Updates(q) : q[i].edit[2] = k
    BY <2>1 DEF InOrder
  <2>3. i # 1
    BY <1>5, <2>1, <2>2
  <2> QED BY <1>2, <2>2, <2>3
<1>8. ASSUME NEW i \in Updates(Tail(q)), NEW j \in Updates(Tail(q)), i < j
      PROVE  Tail(q)[i].edit[2] < Tail(q)[j].edit[2]
  <2>1. i + 1 \in Updates(q) /\ j + 1 \in Updates(q) /\ i + 1 < j + 1
    BY <1>1, <1>8
  <2> QED BY <1>1, <2>1 DEF InOrder
<1>9. InOrder(Tail(q), e, a + 1, b)
  BY <1>6, <1>7, <1>8 DEF InOrder
<1>10. a < b
  BY <1>4, <1>5
<1> QED BY <1>3, <1>4, <1>5, <1>9, <1>10

-----------------------------------------------------------------------------
(* Every step keeps Base                                                   *)

(* What Base says of one editor.                                             *)
Held(e) == Ids(e) /\ Names(e) /\ (shell[e].phase = "left" \/ Pipes(e)) /\ Closing(e)

(* The parts of an editor's state, by type.                                *)
LEMMA EditorFacts ==
  ASSUME Types, NEW e \in Editors
  PROVE  /\ shell[e] \in ShellT /\ side[e] \in SideT
         /\ toSide[e] \in Seq(SideMsg) /\ toShell[e] \in Seq(ShellMsg)
         /\ shell[e].queued \in Seq(Nat) /\ side[e].outbox \in Seq(UpdateItem \cup VersionItem)
         /\ Len(log) \in Nat /\ Len(versions) \in Nat /\ side[e].nextSeq \in Nat /\ shell[e].edits \in Nat
         /\ NextEdit(e) \in Nat
<1>1. shell[e] \in ShellT /\ side[e] \in SideT /\ toSide[e] \in Seq(SideMsg) /\ toShell[e] \in Seq(ShellMsg)
  BY DEF Types
<1>2. Len(log) \in Nat /\ Len(versions) \in Nat
  BY SeqFacts DEF Types
<1>3. shell[e].queued \in Seq(Nat) /\ side[e].outbox \in Seq(UpdateItem \cup VersionItem)
  BY <1>1 DEF ShellT, SideT
<1>4. side[e].nextSeq \in Nat /\ shell[e].edits \in Nat
  BY <1>1, LiveBoundAssumption DEF ShellT, SideT
<1> QED BY <1>1, <1>2, <1>3, <1>4 DEF NextEdit

(* Base, for one editor.                                                   *)
LEMMA HeldFacts ==
  ASSUME Base, NEW e \in Editors
  PROVE  Types /\ Held(e)
BY DEF Base, Held

(* The editors who do nothing keep what they hold.                           *)
LEMMA OthersHold ==
  ASSUME Base, Types', NEW e \in Editors, Others(e),
         Len(log) <= Len(log'), Len(versions) <= Len(versions')
  PROVE  \A f \in Editors \ {e} : Held(f)'
<1> SUFFICES ASSUME NEW f \in Editors \ {e} PROVE Held(f)'
  OBVIOUS
<1>1. /\ shell'[f] = shell[f] /\ side'[f] = side[f] /\ toSide'[f] = toSide[f] /\ toShell'[f] = toShell[f]
  BY DEF Others
<1>2. Types /\ Held(f)
  BY HeldFacts
<1>3. Len(log) \in Nat /\ Len(versions) \in Nat
  BY <1>2, EditorFacts
<1>4. log' \in Seq(LogT) /\ versions' \in Seq(VersionT)
  BY DEF Types
<1>5. Len(log') \in Nat /\ Len(versions') \in Nat
  BY <1>4
<1>6. 1 .. Len(log) \subseteq 1 .. Len(log') /\ 1 .. Len(versions) \subseteq 1 .. Len(versions')
  BY <1>3, <1>5
<1>7. Ids(f)'
  <2>1. ShellIds(toShell[f], Len(log)) /\ SideIds(toSide[f], Len(log))
    BY <1>2 DEF Held, Ids
  <2>2. ShellIds(toShell[f], Len(log')) /\ SideIds(toSide[f], Len(log'))
    BY <2>1, <1>3, <1>5, StillThere
  <2>3. /\ \A i \in DOMAIN shell[f].queued : shell[f].queued[i] \in 1 .. Len(log')
        /\ side[f].applied \cup side[f].awaiting \subseteq 1 .. Len(log')
    BY <1>2, <1>6 DEF Held, Ids
  <2>4. side[f].seen <= Len(log') /\ side[f].order <= Len(log')
    <3>1. side[f].seen \in Nat /\ side[f].order \in Nat /\ side[f].seen <= Len(log)
            /\ side[f].order <= Len(log)
      BY <1>2, EditorFacts DEF SideT, Held, Ids
    <3> QED BY <1>3, <1>5, <3>1
  <2> QED BY <1>1, <2>2, <2>3, <2>4 DEF Ids
<1>8. Names(f)'
  <2>1. Resolves(toSide[f], Len(versions)) /\ Resolves(side[f].outbox, Len(versions))
    BY <1>2 DEF Held, Names
  <2>2. Resolves(toSide[f], Len(versions')) /\ Resolves(side[f].outbox, Len(versions'))
    BY <2>1, <1>3, <1>5, StillThere
  <2>3. /\ side[f].mine \cup side[f].known \cup side[f].heads \subseteq 1 .. Len(versions')
        /\ side[f].told.heads \cup side[f].told.covered \subseteq 1 .. Len(versions')
        /\ shell[f].shown.heads \cup shell[f].shown.covered \subseteq 1 .. Len(versions')
    BY <1>2, <1>6 DEF Held, Names
  <2>4. side[f].opened <= Len(versions')
    <3>1. side[f].opened \in Nat /\ side[f].opened <= Len(versions)
      BY <1>2, EditorFacts DEF SideT, Held, Names
    <3> QED BY <1>3, <1>5, <3>1
  <2> QED BY <1>1, <2>2, <2>3, <2>4 DEF Names
<1>9. Closing(f)' /\ (shell[f].phase = "left" \/ Pipes(f))'
  BY <1>1, <1>2 DEF Held, Closing, Pipes, NextEdit
<1> QED BY <1>7, <1>8, <1>9 DEF Held

(* A step that stores nothing.                                               *)
LEMMA QuietStep ==
  ASSUME Base, Types', NEW e \in Editors, Others(e), UNCHANGED <<log, versions>>, Held(e)'
  PROVE  Base'
<1>1. Len(log) \in Nat /\ Len(versions) \in Nat
  BY HeldFacts, EditorFacts
<1>2. \A f \in Editors \ {e} : Held(f)'
  BY <1>1, OthersHold
<1>3. VersionsOK' /\ LogOK'
  BY DEF Base, VersionsOK, LogOK
<1>4. \A f \in Editors : Held(f)'
  BY <1>2
<1> QED BY <1>3, <1>4 DEF Base, Held

(* A shell's step with one message to its sidecar that is not an update, the *)
(* phase as it was.                                                          *)
LEMMA TellingStep ==
  ASSUME Base, Types', NEW e \in Editors, Others(e), UNCHANGED <<log, versions, side>>,
         toShell'[e] = toShell[e], NEW m \in SideMsg, Told(e, <<m>>),
         m.t # "update", m.t \notin {"applied", "rejected", "fetch"},
         m.t = "version" => m.resolve \subseteq 1 .. Len(versions),
         shell[e].phase = "live", NEW F, F \subseteq {"resynced"}, ShellBut(e, F)
  PROVE  Base'
<1>1. Types /\ Held(e) /\ shell[e].queued = <<>>
  BY HeldFacts DEF Held, Pipes
<1>2. <<m>> \in Seq(SideMsg) /\ DOMAIN <<m>> = {1} /\ <<m>>[1] = m
  BY OneFacts
<1>3. SideIds(<<m>>, Len(log)) /\ Resolves(<<m>>, Len(versions)) /\ ~Has(<<m>>, "update")
        /\ ~Has(<<m>>, "fetch")
  BY <1>2 DEF SideIds, Resolves, Has
<1>4. toSide[e] \in Seq(SideMsg) /\ side[e].nextSeq \in Nat /\ NextEdit(e) \in Nat
  BY <1>1, EditorFacts
<1>5. SideIds(toSide'[e], Len(log)) /\ Resolves(toSide'[e], Len(versions))
  BY <1>1, <1>2, <1>3, <1>4, SideIdsConcat, ResolvesConcat DEF Told, Held, Ids, Names
<1>6. shell'[e].phase = "live" /\ shell'[e].queued = shell[e].queued /\ shell'[e].shown = shell[e].shown
        /\ shell'[e].edits = shell[e].edits
  BY DEF ShellBut
<1>7. Ids(e)' /\ Names(e)' /\ Closing(e)'
  BY <1>1, <1>5, <1>6 DEF Held, Ids, Names, Closing
<1>8. Pipes(e)'
  <2>1. Pipes(e) /\ InOrder(toSide[e], e, side[e].nextSeq, NextEdit(e))
    BY <1>1 DEF Held, Pipes
  <2>2. InOrder(toSide'[e], e, side[e].nextSeq, NextEdit(e))
    <3>1. InOrder(toSide[e] \o <<m>>, e, side[e].nextSeq, NextEdit(e))
      BY <1>2, <1>3, <1>4, <2>1, InOrderConcat
    <3> QED BY <3>1 DEF Told
  <2>3. NextEdit(e)' = NextEdit(e)
    BY <1>6 DEF NextEdit
  <2> QED BY <1>1, <1>6, <2>1, <2>2, <2>3 DEF Pipes
<1> QED BY <1>7, <1>8, QuietStep DEF Held

(* A local edit keeps types, numbering and pipes in order.                 *)
LEMMA EditBase ==
  ASSUME Base, NEW e \in Editors, Edit(e)
  PROVE  Base'
<1>1. Types /\ Held(e) /\ shell[e].phase = "live"
  BY HeldFacts DEF Edit
<1>2. /\ Types' /\ Others(e) /\ UNCHANGED <<log, versions, side, toShell, asked, refused>>
      /\ EditOf(e) \in AllEdits /\ ShellBut(e, {"replica", "edits"}) /\ shell'[e].edits = shell[e].edits + 1
      /\ Told(e, <<[t |-> "update", edit |-> EditOf(e)]>>)
  BY <1>1, EditDoes
<1>3. PICK m : m = [t |-> "update", edit |-> EditOf(e)]
  OBVIOUS
<1>4. EditOf(e) = <<e, NextEdit(e)>> /\ m \in SideMsg /\ m.t = "update"
  BY <1>2, <1>3 DEF EditOf, NextEdit, SideMsg, UpdateMsg
<1>5. <<m>> \in Seq(SideMsg) /\ DOMAIN <<m>> = {1} /\ <<m>>[1] = m
  BY <1>4, OneFacts
<1>6. SideIds(<<m>>, Len(log)) /\ Resolves(<<m>>, Len(versions)) /\ ~Has(<<m>>, "fetch")
  BY <1>4, <1>5 DEF SideIds, Resolves, Has
<1>7. toSide[e] \in Seq(SideMsg) /\ side[e].nextSeq \in Nat /\ NextEdit(e) \in Nat /\ shell[e].edits \in Nat
  BY <1>1, EditorFacts
<1>8. toSide'[e] = toSide[e] \o <<m>>
  BY <1>2, <1>3 DEF Told
<1>9. SideIds(toSide'[e], Len(log)) /\ Resolves(toSide'[e], Len(versions))
        /\ (Has(toSide'[e], "fetch") => Has(toSide[e], "fetch"))
  <2>1. SideIds(toSide[e], Len(log)) /\ Resolves(toSide[e], Len(versions))
    BY <1>1 DEF Held, Ids, Names
  <2>2. SideIds(toSide[e] \o <<m>>, Len(log))
    BY <1>5, <1>6, <1>7, <2>1, SideIdsConcat
  <2>3. Resolves(toSide[e] \o <<m>>, Len(versions))
    BY <1>5, <1>6, <1>7, <2>1, ResolvesConcat
  <2>4. Has(toSide[e] \o <<m>>, "fetch") => Has(toSide[e], "fetch")
    BY <1>5, <1>6, <1>7, HasConcat
  <2> QED BY <1>8, <2>2, <2>3, <2>4
<1>10. shell'[e].phase = "live" /\ shell'[e].queued = shell[e].queued /\ shell'[e].shown = shell[e].shown
  BY <1>1, <1>2 DEF ShellBut
<1>11. Ids(e)' /\ Names(e)' /\ Closing(e)'
  BY <1>1, <1>2, <1>9, <1>10 DEF Held, Ids, Names, Closing
<1>12. Pipes(e)'
  <2>1. Pipes(e) /\ InOrder(toSide[e], e, side[e].nextSeq, NextEdit(e)) /\ side[e].nextSeq <= NextEdit(e)
    BY <1>1 DEF Held, Pipes
  <2>2. InOrder(toSide'[e], e, side[e].nextSeq, NextEdit(e) + 1)
    BY <1>3, <1>4, <1>7, <1>8, <2>1, InOrderAppend
  <2>3. NextEdit(e)' = NextEdit(e) + 1
    BY <1>2, <1>7 DEF NextEdit
  <2>4. side[e].nextSeq <= NextEdit(e) + 1
    BY <1>7, <2>1
  <2> QED BY <1>1, <1>2, <1>10, <2>1, <2>2, <2>3, <2>4 DEF Pipes
<1> QED BY <1>2, <1>11, <1>12, QuietStep DEF Held

(* A save keeps types, numbering and pipes in order.                       *)
LEMMA SaveBase ==
  ASSUME Base, NEW e \in Editors, Save(e)
  PROVE  Base'
<1>1. Types
  BY DEF Base
<1>2. PICK m : m = [t |-> "version", file |-> shell[e].replica, resolve |-> {}]
  OBVIOUS
<1>3. /\ Types' /\ Others(e) /\ UNCHANGED <<log, versions, shell, side, toShell, refused>>
      /\ shell[e].phase = "live" /\ m \in SideMsg /\ Told(e, <<m>>)
  BY <1>1, <1>2, SaveDoes
<1>4. m.t = "version" /\ m.resolve = {} /\ ShellBut(e, {}) /\ toShell'[e] = toShell[e]
  BY <1>2, <1>3 DEF ShellBut
<1> QED BY <1>3, <1>4, TellingStep

(* Publishing a merge keeps types, numbering and pipes in order.           *)
LEMMA KeepMineBase ==
  ASSUME Base, NEW e \in Editors, KeepMine(e)
  PROVE  Base'
<1>1. Types /\ shell[e].shown.heads \subseteq 1 .. Len(versions)
  BY HeldFacts DEF Base, Held, Names
<1>2. PICK m : m = [t |-> "version", file |-> shell[e].replica, resolve |-> shell[e].shown.heads]
  OBVIOUS
<1>3. /\ Types' /\ Others(e) /\ UNCHANGED <<log, versions, shell, side, toShell, refused>>
      /\ shell[e].phase = "live" /\ m \in SideMsg /\ Told(e, <<m>>)
  BY <1>1, <1>2, KeepMineDoes
<1>4. m.t = "version" /\ m.resolve \subseteq 1 .. Len(versions) /\ ShellBut(e, {}) /\ toShell'[e] = toShell[e]
  BY <1>1, <1>2, <1>3 DEF ShellBut
<1> QED BY <1>3, <1>4, TellingStep

(* Asking for a resync keeps types, numbering and pipes in order.          *)
LEMMA AskResyncBase ==
  ASSUME Base, NEW e \in Editors, AskResync(e)
  PROVE  Base'
<1>1. Types
  BY DEF Base
<1>2. PICK m : m = [t |-> "resync"]
  OBVIOUS
<1>3. /\ Types' /\ Others(e) /\ UNCHANGED <<log, versions, side, toShell, asked, refused>>
      /\ shell[e].phase = "live" /\ m \in SideMsg /\ Told(e, <<m>>) /\ ShellBut(e, {"resynced"})
  BY <1>1, <1>2, AskResyncDoes
<1>4. m.t = "resync" /\ toShell'[e] = toShell[e]
  BY <1>2, <1>3
<1> QED BY <1>3, <1>4, TellingStep

(* Leaving the session keeps types, numbering and pipes in order.          *)
LEMMA LeaveBase ==
  ASSUME Base, NEW e \in Editors, Leave(e)
  PROVE  Base'
<1>1. Types /\ Held(e)
  BY HeldFacts
<1>2. /\ Types' /\ Others(e) /\ UNCHANGED <<log, versions, asked, refused>>
      /\ ShellBut(e, {"phase", "queued"}) /\ shell'[e].phase = "left" /\ shell'[e].queued = <<>>
      /\ SideBut(e, {"outbox", "awaiting", "at", "order"})
      /\ side'[e].outbox = <<>> /\ side'[e].awaiting = {} /\ side'[e].at = "loop" /\ side'[e].order = 0
      /\ toSide'[e] = <<>> /\ toShell'[e] = <<>>
  BY <1>1, LeaveDoes
<1>3. shell'[e].shown = shell[e].shown
  BY <1>2 DEF ShellBut
<1>4. /\ side'[e].applied = side[e].applied /\ side'[e].mine = side[e].mine /\ side'[e].known = side[e].known
      /\ side'[e].heads = side[e].heads /\ side'[e].told = side[e].told /\ side'[e].opened = side[e].opened
      /\ side'[e].seen = side[e].seen
  BY <1>2 DEF SideBut
<1>5. Ids(e)'
  <2>1. DOMAIN <<>> = {} /\ 0 <= Len(log)
    BY <1>1, EditorFacts
  <2> QED BY <1>1, <1>2, <1>4, <2>1 DEF Held, Ids, ShellIds, SideIds
<1>6. Names(e)'
  BY <1>1, <1>2, <1>3, <1>4 DEF Held, Names, Resolves
<1>7. Closing(e)'
  BY <1>2 DEF Closing
<1> QED BY <1>2, <1>5, <1>6, <1>7, QuietStep DEF Held

(* Taking the heads event keeps types, numbering and pipes in order.       *)
LEMMA HearHeadsBase ==
  ASSUME Base, NEW e \in Editors, HearHeads(e)
  PROVE  Base'
<1>1. Types /\ Held(e)
  BY HeldFacts
<1>2. /\ Types' /\ Others(e) /\ UNCHANGED <<log, versions, side, toSide, toShell, asked, refused>>
      /\ ShellBut(e, {"shown"}) /\ shell'[e].shown = side[e].told
  BY <1>1, HearHeadsDoes
<1>3. shell'[e].phase = shell[e].phase /\ shell'[e].queued = shell[e].queued
        /\ shell'[e].edits = shell[e].edits
  BY <1>2 DEF ShellBut
<1>4. Ids(e)' /\ Names(e)' /\ Closing(e)'
  BY <1>1, <1>2, <1>3 DEF Held, Ids, Names, Closing
<1>5. (shell[e].phase = "left" \/ Pipes(e))'
  BY <1>1, <1>2, <1>3 DEF Held, Pipes, NextEdit
<1> QED BY <1>2, <1>4, <1>5, QuietStep DEF Held

(* What a shell's answers add to the pipe: ids that are there, no command.   *)
Harmless(ms) ==
  /\ ms \in Seq(SideMsg) /\ SideIds(ms, Len(log)) /\ Resolves(ms, Len(versions)) /\ ~Has(ms, "update")

(* An answer names an update that is there and is no command.              *)
LEMMA AnswersHarmless ==
  ASSUME Types, NEW i \in 1 .. Len(log)
  PROVE  Harmless(<<Answer(i)>>) /\ ~Has(<<Answer(i)>>, "fetch")
<1>1. i \in Nat
  BY EditorsAssumption, SeqFacts DEF Types
<1>2. PICK a : a = Answer(i)
  OBVIOUS
<1>3. a \in SideMsg /\ a.t \in {"applied", "rejected"} /\ a.id = i
  BY <1>1, <1>2, AnswerTypes
<1>4. <<a>> \in Seq(SideMsg) /\ DOMAIN <<a>> = {1} /\ <<a>>[1] = a
  BY <1>3, OneFacts
<1>5. Harmless(<<a>>) /\ ~Has(<<a>>, "fetch")
  BY <1>3, <1>4 DEF Harmless, SideIds, Resolves, Has
<1> QED BY <1>2, <1>5

(* Answers leave the pipe of commands in order.                            *)
LEMMA TellHarmless ==
  ASSUME Base, NEW e \in Editors, NEW ms, Harmless(ms), Told(e, ms)
  PROVE  /\ SideIds(toSide'[e], Len(log)) /\ Resolves(toSide'[e], Len(versions))
         /\ (Has(toSide'[e], "fetch") => Has(toSide[e], "fetch") \/ Has(ms, "fetch"))
         /\ shell[e].phase # "left" => /\ InOrder(toSide'[e], e, side[e].nextSeq, NextEdit(e))
                                       /\ (Updates(toSide'[e]) # {} => Updates(toSide[e]) # {})
<1>1. Types /\ Held(e)
  BY HeldFacts
<1>2. toSide[e] \in Seq(SideMsg) /\ side[e].nextSeq \in Nat /\ NextEdit(e) \in Nat
  BY <1>1, EditorFacts
<1>3. ms \in Seq(SideMsg) /\ SideIds(ms, Len(log)) /\ Resolves(ms, Len(versions)) /\ ~Has(ms, "update")
  BY DEF Harmless
<1>4. SideIds(toSide[e], Len(log)) /\ Resolves(toSide[e], Len(versions))
  BY <1>1 DEF Held, Ids, Names
<1>5. SideIds(toSide[e] \o ms, Len(log))
  BY <1>2, <1>3, <1>4, SideIdsConcat
<1>6. Resolves(toSide[e] \o ms, Len(versions))
  BY <1>2, <1>3, <1>4, ResolvesConcat
<1>7. Has(toSide[e] \o ms, "fetch") => Has(toSide[e], "fetch") \/ Has(ms, "fetch")
  BY <1>2, <1>3, HasConcat
<1>8. shell[e].phase # "left" => InOrder(toSide[e], e, side[e].nextSeq, NextEdit(e))
  BY <1>1 DEF Held, Pipes
<1>9. shell[e].phase # "left" => /\ InOrder(toSide[e] \o ms, e, side[e].nextSeq, NextEdit(e))
                                 /\ (Updates(toSide[e] \o ms) # {} => Updates(toSide[e]) # {})
  BY <1>2, <1>3, <1>8, InOrderConcat
<1> QED BY <1>5, <1>6, <1>7, <1>9 DEF Told

(* Taking an event from the pipe keeps types, numbering and pipes in       *)
(* order.                                                                  *)
LEMMA HearBase ==
  ASSUME Base, NEW e \in Editors, Hear(e)
  PROVE  Base'
<1>1. Types /\ Held(e) /\ Ids(e)
  BY HeldFacts DEF Held
<1>2. PICK m \in ShellMsg :
         /\ m = toShell[e][1] /\ (m.t # "file" => m.id \in 1 .. Len(log))
         /\ \/ m.t = "genesis" /\ HeardGenesis(e, m)
            \/ m.t = "update" /\ HeardUpdate(e, m)
            \/ /\ m.t = "file" /\ HeardFile(e)
               /\ AnswersToQueue(e) \in Seq(SideMsg) /\ DOMAIN shell[e].queued = 1 .. Len(shell[e].queued)
               /\ Len(AnswersToQueue(e)) = Len(shell[e].queued) /\ Len(shell[e].queued) \in Nat
  BY <1>1, HearDoes
<1>3. /\ Types' /\ Others(e) /\ UNCHANGED <<log, versions, side, asked, refused>>
      /\ toShell[e] # <<>> /\ toShell'[e] = Tail(toShell[e])
  BY <1>1, HearDoes
<1>4. /\ toSide[e] \in Seq(SideMsg) /\ toShell[e] \in Seq(ShellMsg) /\ shell[e].queued \in Seq(Nat)
      /\ shell[e] \in ShellT
  BY <1>1, EditorFacts
<1>5. ShellIds(toShell'[e], Len(log)) /\ (Has(toShell'[e], "file") => Has(toShell[e], "file"))
  <2>1. ShellIds(toShell[e], Len(log))
    BY <1>1 DEF Ids
  <2>2. ShellIds(Tail(toShell[e]), Len(log))
    BY <1>3, <1>4, <2>1, ShellIdsTail
  <2>3. Has(Tail(toShell[e]), "file") => Has(toShell[e], "file")
    BY <1>3, <1>4, HasTail
  <2> QED BY <1>3, <2>2, <2>3
<1>6. shell[e].phase # "left" /\ Pipes(e)
  BY <1>1, <1>3 DEF Held, Closing
<1>7. side[e].session
  BY <1>3, <1>6 DEF Pipes
<1>8. CASE m.t = "genesis" /\ HeardGenesis(e, m)
  <2>1. m.id \in 1 .. Len(log) /\ m.id \in Nat
    <3>1. m.t # "file"
      BY <1>8
    <3>2. m.id \in Nat
      BY <3>1, EventTypes
    <3> QED BY <1>2, <3>1, <3>2
  <2>2. [t |-> "applied", id |-> m.id] \in SideMsg
    BY <2>1, AnswerTypes
  <2>3. [t |-> "fetch"] \in SideMsg
    BY DEF SideMsg, PlainMsg
  <2>4. CASE shell[e].phase = "awaiting"
    <3>1. PICK a, f : a = [t |-> "applied", id |-> m.id] /\ f = [t |-> "fetch"]
      OBVIOUS
    <3>2. a \in SideMsg /\ f \in SideMsg /\ a.t = "applied" /\ a.id = m.id /\ f.t = "fetch"
      BY <2>2, <2>3, <3>1
    <3>3. <<a, f>> \in Seq(SideMsg) /\ DOMAIN <<a, f>> = {1, 2} /\ <<a, f>>[1] = a /\ <<a, f>>[2] = f
      BY <3>2, TwoFacts
    <3>4. Harmless(<<a, f>>)
      BY <2>1, <3>2, <3>3 DEF Harmless, SideIds, Resolves, Has
    <3>5. Told(e, <<a, f>>)
      BY <1>8, <2>4, <3>1 DEF HeardGenesis
    <3>6. shell'[e].phase = "verifying" /\ ShellBut(e, {"phase", "replica"})
      BY <1>8, <2>4 DEF HeardGenesis
    <3>7. shell'[e].queued = shell[e].queued /\ shell'[e].shown = shell[e].shown
            /\ shell'[e].edits = shell[e].edits
      BY <3>6 DEF ShellBut
    <3>8. SideIds(toSide'[e], Len(log)) /\ Resolves(toSide'[e], Len(versions))
          /\ InOrder(toSide'[e], e, side[e].nextSeq, NextEdit(e))
              /\ (Updates(toSide'[e]) # {} => Updates(toSide[e]) # {})
      BY <1>6, <3>4, <3>5, TellHarmless
    <3>9. Ids(e)' /\ Names(e)' /\ Closing(e)'
      BY <1>1, <1>3, <1>5, <3>6, <3>7, <3>8 DEF Held, Ids, Names, Closing
    <3>10. Updates(toSide'[e]) = {}
      BY <1>6, <2>4, <3>8 DEF Pipes
    <3>11. Pipes(e)'
      BY <1>3, <1>6, <1>7, <3>6, <3>7, <3>8, <3>10 DEF Pipes, NextEdit
    <3> QED BY <1>3, <3>9, <3>11, QuietStep DEF Held
  <2>5. CASE shell[e].phase # "awaiting"
    <3>1. PICK a : a = [t |-> "applied", id |-> m.id]
      OBVIOUS
    <3>2. a \in SideMsg /\ a.t = "applied" /\ a.id = m.id
      BY <2>2, <3>1
    <3>3. <<a>> \in Seq(SideMsg) /\ DOMAIN <<a>> = {1} /\ <<a>>[1] = a
      BY <3>2, OneFacts
    <3>4. Harmless(<<a>>) /\ ~Has(<<a>>, "fetch")
      BY <2>1, <3>2, <3>3 DEF Harmless, SideIds, Resolves, Has
    <3>5. Told(e, <<a>>) /\ ShellBut(e, {})
      BY <1>8, <2>5, <3>1 DEF HeardGenesis
    <3>6. shell'[e].phase = shell[e].phase /\ shell'[e].queued = shell[e].queued
            /\ shell'[e].shown = shell[e].shown
          /\ shell'[e].edits = shell[e].edits
      BY <3>5 DEF ShellBut
    <3>7. SideIds(toSide'[e], Len(log)) /\ Resolves(toSide'[e], Len(versions))
            /\ (Has(toSide'[e], "fetch") => Has(toSide[e], "fetch"))
          /\ InOrder(toSide'[e], e, side[e].nextSeq, NextEdit(e))
              /\ (Updates(toSide'[e]) # {} => Updates(toSide[e]) # {})
      BY <1>6, <3>4, <3>5, TellHarmless
    <3>8. Ids(e)' /\ Names(e)' /\ Closing(e)'
      BY <1>1, <1>3, <1>5, <1>6, <3>6, <3>7 DEF Held, Ids, Names, Closing
    <3>9. Pipes(e)'
      BY <1>3, <1>5, <1>6, <1>7, <3>6, <3>7 DEF Pipes, NextEdit
    <3> QED BY <1>3, <3>8, <3>9, QuietStep DEF Held
  <2> QED BY <2>4, <2>5
<1>9. CASE m.t = "update" /\ HeardUpdate(e, m)
  <2>1. m.id \in 1 .. Len(log) /\ m.id \in Nat
    <3>1. m.t # "file"
      BY <1>9
    <3>2. m.id \in Nat
      BY <3>1, EventTypes
    <3> QED BY <1>2, <3>1, <3>2
  <2>2. CASE shell[e].phase = "live"
    <3>1. Told(e, <<Answer(m.id)>>) /\ ShellBut(e, {"replica"})
      BY <1>9, <2>2 DEF HeardUpdate
    <3>2. PICK ms : ms = <<Answer(m.id)>>
      OBVIOUS
    <3>3. Told(e, ms) /\ Harmless(ms) /\ ~Has(ms, "fetch")
      BY <1>1, <2>1, <3>1, <3>2, AnswersHarmless
    <3>4. shell'[e].phase = shell[e].phase /\ shell'[e].queued = shell[e].queued
            /\ shell'[e].shown = shell[e].shown
          /\ shell'[e].edits = shell[e].edits
      BY <3>1 DEF ShellBut
    <3>5. SideIds(toSide'[e], Len(log)) /\ Resolves(toSide'[e], Len(versions))
            /\ (Has(toSide'[e], "fetch") => Has(toSide[e], "fetch"))
          /\ InOrder(toSide'[e], e, side[e].nextSeq, NextEdit(e))
              /\ (Updates(toSide'[e]) # {} => Updates(toSide[e]) # {})
      BY <1>6, <3>3, TellHarmless
    <3>6. Ids(e)' /\ Names(e)' /\ Closing(e)'
      BY <1>1, <1>3, <1>5, <1>6, <3>4, <3>5 DEF Held, Ids, Names, Closing
    <3>7. Pipes(e)'
      BY <1>3, <1>5, <1>6, <1>7, <3>4, <3>5 DEF Pipes, NextEdit
    <3> QED BY <1>3, <3>6, <3>7, QuietStep DEF Held
  <2>3. CASE shell[e].phase # "live"
    <3>1. ShellBut(e, {"queued"}) /\ shell'[e].queued = Append(shell[e].queued, m.id)
            /\ toSide'[e] = toSide[e]
      BY <1>9, <2>3 DEF HeardUpdate
    <3>2. shell'[e].phase = shell[e].phase /\ shell'[e].shown = shell[e].shown
            /\ shell'[e].edits = shell[e].edits
      BY <3>1 DEF ShellBut
    <3>3. \A i \in DOMAIN shell'[e].queued : shell'[e].queued[i] \in 1 .. Len(log)
      <4>1. PICK q : q = shell[e].queued
        OBVIOUS
      <4>2. \A i \in DOMAIN q : q[i] \in 1 .. Len(log)
        BY <1>1, <4>1 DEF Ids
      <4>3. q \in Seq(1 .. Len(log))
        <5>1. q \in Seq(Nat) /\ Len(q) \in Nat /\ DOMAIN q = 1 .. Len(q)
          BY <1>4, <4>1
        <5>2. q \in [1 .. Len(q) -> 1 .. Len(log)]
          BY <4>2, <5>1
        <5> QED BY <5>1, <5>2
      <4>4. Append(q, m.id) \in Seq(1 .. Len(log))
        BY <2>1, <4>3
      <4>5. \A i \in DOMAIN Append(q, m.id) : Append(q, m.id)[i] \in 1 .. Len(log)
        BY <4>4
      <4> QED BY <3>1, <4>1, <4>5
    <3>4. Ids(e)' /\ Names(e)' /\ Closing(e)'
      BY <1>1, <1>3, <1>5, <1>6, <3>1, <3>2, <3>3 DEF Held, Ids, Names, Closing
    <3>5. Pipes(e)'
      BY <1>3, <1>5, <1>6, <1>7, <2>3, <3>1, <3>2 DEF Pipes, NextEdit
    <3> QED BY <1>3, <3>4, <3>5, QuietStep DEF Held
  <2> QED BY <2>2, <2>3
<1>10. CASE m.t = "file" /\ HeardFile(e)
  <2>1. PICK ms : ms = AnswersToQueue(e)
    OBVIOUS
  <2>2. /\ Told(e, ms) /\ ms \in Seq(SideMsg) /\ DOMAIN ms = DOMAIN shell[e].queued
        /\ \A i \in DOMAIN ms : ms[i] = Answer(shell[e].queued[i])
    BY <1>2, <1>10, <2>1, EventTypes DEF HeardFile, AnswersToQueue
  <2>3. \A i \in DOMAIN ms : ms[i].t \in {"applied", "rejected"} /\ ms[i].id \in 1 .. Len(log)
    <3> SUFFICES ASSUME NEW i \in DOMAIN ms PROVE ms[i].t \in {"applied", "rejected"}
                          /\ ms[i].id \in 1 .. Len(log)
      OBVIOUS
    <3>1. PICK k : k = shell[e].queued[i]
      OBVIOUS
    <3>2. k \in 1 .. Len(log)
      BY <1>1, <2>2, <3>1 DEF Ids
    <3>3. k \in Nat
      BY <3>2
    <3>4. Answer(k).t \in {"applied", "rejected"} /\ Answer(k).id = k
      BY <3>3, AnswerTypes
    <3> QED BY <2>2, <3>1, <3>2, <3>4
  <2>4. Harmless(ms) /\ ~Has(ms, "fetch")
    BY <2>2, <2>3 DEF Harmless, SideIds, Resolves, Has
  <2>5. shell'[e].phase = "live" /\ shell'[e].queued = <<>> /\ ShellBut(e, {"phase", "queued", "replica"})
    BY <1>10 DEF HeardFile
  <2>6. shell'[e].shown = shell[e].shown /\ shell'[e].edits = shell[e].edits
    BY <2>5 DEF ShellBut
  <2>7. SideIds(toSide'[e], Len(log)) /\ Resolves(toSide'[e], Len(versions))
          /\ (Has(toSide'[e], "fetch") => Has(toSide[e], "fetch"))
        /\ InOrder(toSide'[e], e, side[e].nextSeq, NextEdit(e))
            /\ (Updates(toSide'[e]) # {} => Updates(toSide[e]) # {})
    BY <1>6, <2>2, <2>4, TellHarmless
  <2>8. Ids(e)' /\ Names(e)' /\ Closing(e)'
    <3>1. DOMAIN <<>> = {}
      OBVIOUS
    <3> QED BY <1>1, <1>3, <1>5, <2>5, <2>6, <2>7, <3>1 DEF Held, Ids, Names, Closing
  <2>9. Pipes(e)'
    BY <1>3, <1>5, <1>6, <1>7, <2>5, <2>6, <2>7 DEF Pipes, NextEdit
  <2> QED BY <1>3, <2>8, <2>9, QuietStep DEF Held
<1> QED BY <1>2, <1>8, <1>9, <1>10

(* The names in the report of the heads.                                     *)
LEMMA EmittedNames ==
  ASSUME NEW e \in Editors, NEW vs, NEW n, Emitted(e, vs), side'[e].heads \subseteq 1 .. n,
         side[e].told.heads \cup side[e].told.covered \subseteq 1 .. n
  PROVE  side'[e].told.heads \cup side'[e].told.covered \subseteq 1 .. n
<1>1. PICK s : s = side'[e]
  OBVIOUS
<1>2. CASE s.heads = {}
  <2>1. side'[e].told = side[e].told
    BY <1>1, <1>2 DEF Emitted
  <2> QED BY <2>1
<1>3. CASE s.heads # {}
  <2>1. s.told = [heads |-> s.heads, covered |-> {h \in s.heads : Covered(vs, s, h, Prefix(s.applied, s.seen))}]
    BY <1>1, <1>3 DEF Emitted, HeadsReport
  <2>2. s.told.heads = s.heads /\ s.told.covered \subseteq s.heads
    BY <2>1
  <2> QED BY <1>1, <2>2
<1> QED BY <1>2, <1>3

(* A step of the sidecar alone that reads no message: the outbox loses its    *)
(* head or stays, and what it holds grows by what is there.                  *)
LEMMA SidecarStep ==
  ASSUME Base, Types', NEW e \in Editors, Others(e), UNCHANGED <<log, versions, shell, toSide, toShell>>,
         shell[e].phase # "left",
         side'[e].applied \cup side'[e].awaiting \subseteq 1 .. Len(log),
         side'[e].seen <= Len(log), side'[e].order <= Len(log),
         side'[e].mine \cup side'[e].known \cup side'[e].heads \subseteq 1 .. Len(versions),
         side'[e].told.heads \cup side'[e].told.covered \subseteq 1 .. Len(versions),
         side'[e].opened <= Len(versions),
         \/ side'[e].outbox \in {side[e].outbox, Tail(side[e].outbox)} /\ side[e].outbox # <<>>
         \/ side'[e].outbox = side[e].outbox,
         side'[e].nextSeq = side[e].nextSeq, side[e].session => side'[e].session
  PROVE  Base'
<1>1. Types /\ Held(e)
  BY HeldFacts
<1>2. side[e].outbox \in Seq(UpdateItem \cup VersionItem)
  BY <1>1, EditorFacts
<1>3. Resolves(side'[e].outbox, Len(versions))
  BY <1>1, <1>2, ResolvesTail DEF Held, Names
<1>4. Ids(e)' /\ Names(e)' /\ Closing(e)'
  BY <1>1, <1>3 DEF Held, Ids, Names, Closing
<1>5. \A i \in Updates(side'[e].outbox) : \E j \in Updates(side[e].outbox) : side'[e].outbox[i] = side[e].outbox[j]
  <2>1. CASE side'[e].outbox = side[e].outbox
    BY <2>1
  <2>2. CASE side'[e].outbox = Tail(side[e].outbox) /\ side[e].outbox # <<>>
    BY <1>2, <2>2, TailMembers DEF Updates
  <2> QED BY <2>1, <2>2
<1>6. Pipes(e)'
  <2>1. Pipes(e)
    BY <1>1 DEF Held
  <2>2. \A i \in Updates(side'[e].outbox) :
           side'[e].outbox[i].edit = <<e, side'[e].outbox[i].seq>> /\ side'[e].outbox[i].seq < side[e].nextSeq
    BY <1>5, <2>1 DEF Pipes
  <2> QED BY <2>1, <2>2 DEF Pipes, NextEdit
<1> QED BY <1>4, <1>6, QuietStep DEF Held

(* Queueing an update for the store keeps types, numbering and pipes in    *)
(* order.                                                                  *)
LEMMA GotUpdateBase ==
  ASSUME Base, Types', NEW e \in Editors, Others(e), UNCHANGED <<log, versions, shell, asked, refused>>,
         toSide[e] # <<>>, toSide'[e] = Tail(toSide[e]), shell[e].phase # "left",
         NEW m \in SideMsg, m = toSide[e][1], m.t = "update", GotUpdate(e, m)
  PROVE  Base'
<1>1. Types /\ Held(e) /\ Pipes(e)
  BY HeldFacts DEF Held
<1>2. /\ toSide[e] \in Seq(SideMsg) /\ side[e].outbox \in Seq(UpdateItem \cup VersionItem)
      /\ side[e].nextSeq \in Nat /\ NextEdit(e) \in Nat /\ Len(versions) \in Nat
  BY <1>1, EditorFacts
<1>3. /\ m.edit = <<e, side[e].nextSeq>> /\ side[e].nextSeq < NextEdit(e)
      /\ InOrder(toSide'[e], e, side[e].nextSeq + 1, NextEdit(e)) /\ Updates(toSide[e]) # {}
  <2>1. InOrder(toSide[e], e, side[e].nextSeq, NextEdit(e)) /\ toSide[e][1].t = "update"
    BY <1>1 DEF Pipes
  <2>2. /\ toSide[e][1].edit = <<e, side[e].nextSeq>> /\ side[e].nextSeq < NextEdit(e)
        /\ InOrder(Tail(toSide[e]), e, side[e].nextSeq + 1, NextEdit(e)) /\ Updates(toSide[e]) # {}
    BY <1>2, <2>1, InOrderTake
  <2> QED BY <2>2
<1>4. PICK x : x = [t |-> "update", seq |-> side[e].nextSeq, edit |-> m.edit]
  OBVIOUS
<1>5. /\ SideBut(e, {"nextSeq", "outbox"}) /\ side'[e].nextSeq = side[e].nextSeq + 1
      /\ side'[e].outbox = Append(side[e].outbox, x) /\ UNCHANGED toShell
  BY <1>4 DEF GotUpdate
<1>6. x.t = "update" /\ x.seq = side[e].nextSeq /\ x.edit = <<e, x.seq>>
  BY <1>3, <1>4
<1>7. x \in UpdateItem \cup VersionItem
  <2>1. side[e].nextSeq \in 0 .. MaxEdits
    <3>1. shell[e].edits \in 0 .. MaxEdits /\ MaxEdits \in Nat
      BY <1>1, EditorFacts, LiveBoundAssumption DEF ShellT
    <3>2. shell[e].phase = "live"
      BY <1>1, <1>3 DEF Pipes
    <3>3. m.edit \in AllEdits
      BY CommandTypes
    <3>4. side[e].nextSeq = m.edit[2] /\ m.edit[2] \in 0 .. MaxEdits
      BY <1>3, <3>3 DEF AllEdits
    <3> QED BY <3>4
  <2>2. m.edit \in AllEdits
    BY CommandTypes
  <2> QED BY <1>4, <2>1, <2>2 DEF UpdateItem
<1>8. \A i \in DOMAIN Append(side[e].outbox, x) :
         \/ i \in DOMAIN side[e].outbox /\ Append(side[e].outbox, x)[i] = side[e].outbox[i]
         \/ Append(side[e].outbox, x)[i] = x
  BY <1>2, <1>7, AppendFacts
<1>9. Resolves(side'[e].outbox, Len(versions))
  <2>1. Resolves(side[e].outbox, Len(versions))
    BY <1>1 DEF Held, Names
  <2> QED BY <1>5, <1>6, <1>8, <2>1 DEF Resolves
<1>10. \A i \in Updates(side'[e].outbox) :
         side'[e].outbox[i].edit = <<e, side'[e].outbox[i].seq>>
           /\ side'[e].outbox[i].seq < side[e].nextSeq + 1
  <2> SUFFICES ASSUME NEW i \in Updates(Append(side[e].outbox, x)), NEW y, y = Append(side[e].outbox, x)[i]
               PROVE  y.edit = <<e, y.seq>> /\ y.seq < side[e].nextSeq + 1
    BY <1>5
  <2>1. CASE y = x
    BY <1>2, <1>6, <2>1
  <2>2. CASE i \in DOMAIN side[e].outbox /\ y = side[e].outbox[i]
    <3>1. i \in Updates(side[e].outbox)
      BY <2>2 DEF Updates
    <3>2. y.edit = <<e, y.seq>> /\ y.seq < side[e].nextSeq
      BY <1>1, <2>2, <3>1 DEF Pipes
    <3>3. y \in UpdateItem
      <4>1. y \in UpdateItem \cup VersionItem /\ y.t = "update"
        BY <1>2, <2>2 DEF Updates
      <4> QED BY <4>1 DEF VersionItem
    <3>4. y.seq \in Nat
      <4>1. MaxEdits \in Nat
        BY LiveBoundAssumption
      <4>2. y.seq \in 0 .. MaxEdits
        BY <3>3 DEF UpdateItem
      <4>3. 0 .. MaxEdits \subseteq Nat
        BY <4>1
      <4> QED BY <4>2, <4>3
    <3>5. y.seq < side[e].nextSeq + 1
      <4>1. PICK a, b : a = y.seq /\ b = side[e].nextSeq
        OBVIOUS
      <4>2. a \in Nat /\ b \in Nat /\ a < b
        BY <1>2, <3>2, <3>4, <4>1
      <4>3. a < b + 1
        BY <4>2
      <4> QED BY <4>1, <4>3
    <3> QED BY <3>2, <3>5
  <2> QED BY <1>8, <2>1, <2>2 DEF Updates
<1>11. SideIds(toSide'[e], Len(log)) /\ Resolves(toSide'[e], Len(versions))
         /\ (Has(toSide'[e], "fetch") => Has(toSide[e], "fetch"))
  <2>1. SideIds(toSide[e], Len(log)) /\ Resolves(toSide[e], Len(versions))
    BY <1>1 DEF Held, Ids, Names
  <2> QED BY <1>2, <2>1, SideIdsTail, ResolvesTail, HasTail
<1>12. /\ side'[e].applied = side[e].applied /\ side'[e].awaiting = side[e].awaiting
       /\ side'[e].mine = side[e].mine /\ side'[e].known = side[e].known /\ side'[e].session = side[e].session
       /\ side'[e].heads = side[e].heads /\ side'[e].told = side[e].told /\ side'[e].opened = side[e].opened
       /\ side'[e].seen = side[e].seen /\ side'[e].order = side[e].order
  BY <1>5 DEF SideBut
<1>13. Ids(e)' /\ Names(e)' /\ Closing(e)'
  BY <1>1, <1>5, <1>9, <1>11, <1>12 DEF Held, Ids, Names, Closing
<1>14. Pipes(e)'
  <2>1. side[e].nextSeq + 1 <= NextEdit(e)
    BY <1>2, <1>3
  <2>2. shell[e].phase = "live"
    BY <1>1, <1>3 DEF Pipes
  <2> QED BY <1>1, <1>3, <1>5, <1>10, <1>11, <1>12, <2>1, <2>2 DEF Pipes, NextEdit
<1> QED BY <1>13, <1>14, QuietStep DEF Held

(* Any other message leaves the outbox, but for a version, and the numbers    *)
(* as they are.                                                              *)
LEMMA GotOtherBase ==
  ASSUME Base, Types', NEW e \in Editors, Others(e), UNCHANGED <<log, versions, shell, asked, refused>>,
         toSide[e] # <<>>, toSide'[e] = Tail(toSide[e]), shell[e].phase # "left", toSide[e][1].t # "update",
         side'[e].applied \cup side'[e].awaiting \subseteq 1 .. Len(log),
         side'[e].told.heads \cup side'[e].told.covered \subseteq 1 .. Len(versions),
         side'[e].nextSeq = side[e].nextSeq, side'[e].session = side[e].session,
         side'[e].mine = side[e].mine, side'[e].known = side[e].known, side'[e].heads = side[e].heads,
         side'[e].opened = side[e].opened, side'[e].seen = side[e].seen, side'[e].order = side[e].order,
         side'[e].outbox = side[e].outbox \/ (toSide[e][1].t = "version" /\ side'[e].outbox = Append(side[e].outbox, toSide[e][1])),
         UNCHANGED toShell \/ (toSide[e][1].t = "fetch" /\ Sent(e, <<[t |-> "file"]>>))
  PROVE  Base'
<1>1. Types /\ Held(e) /\ Pipes(e)
  BY HeldFacts DEF Held
<1>2. /\ toSide[e] \in Seq(SideMsg) /\ side[e].outbox \in Seq(UpdateItem \cup VersionItem)
      /\ side[e].nextSeq \in Nat /\ NextEdit(e) \in Nat /\ toShell[e] \in Seq(ShellMsg)
  BY <1>1, EditorFacts
<1>3. 1 \in DOMAIN toSide[e] /\ toSide[e][1] \in SideMsg
  BY <1>2
<1>4. SideIds(toSide'[e], Len(log)) /\ Resolves(toSide'[e], Len(versions))
        /\ (Has(toSide'[e], "fetch") => Has(toSide[e], "fetch"))
  <2>1. SideIds(toSide[e], Len(log)) /\ Resolves(toSide[e], Len(versions))
    BY <1>1 DEF Held, Ids, Names
  <2> QED BY <1>2, <2>1, SideIdsTail, ResolvesTail, HasTail
<1>5. /\ InOrder(toSide'[e], e, side[e].nextSeq, NextEdit(e))
          /\ (Updates(toSide'[e]) # {} => Updates(toSide[e]) # {})
  <2>1. InOrder(toSide[e], e, side[e].nextSeq, NextEdit(e))
    BY <1>1 DEF Pipes
  <2> QED BY <1>2, <2>1, InOrderTail
<1>6. /\ Resolves(side'[e].outbox, Len(versions))
      /\ \A i \in Updates(side'[e].outbox) : i \in Updates(side[e].outbox)
          /\ side'[e].outbox[i] = side[e].outbox[i]
  <2>1. Resolves(side[e].outbox, Len(versions))
    BY <1>1 DEF Held, Names
  <2>2. CASE side'[e].outbox = side[e].outbox
    BY <2>1, <2>2
  <2>3. CASE toSide[e][1].t = "version" /\ side'[e].outbox = Append(side[e].outbox, toSide[e][1])
    <3>1. PICK m : m = toSide[e][1]
      OBVIOUS
    <3>2. m \in VersionItem /\ m.resolve \subseteq 1 .. Len(versions)
      <4>1. m \in VersionItem
        BY <1>3, <2>3, <3>1, CommandTypes
      <4>2. Resolves(toSide[e], Len(versions))
        BY <1>1 DEF Held, Names
      <4> QED BY <1>3, <2>3, <3>1, <4>1, <4>2 DEF Resolves
    <3>3. \A i \in DOMAIN Append(side[e].outbox, m) :
             \/ i \in DOMAIN side[e].outbox /\ Append(side[e].outbox, m)[i] = side[e].outbox[i]
             \/ Append(side[e].outbox, m)[i] = m
      BY <1>2, <3>2, AppendFacts
    <3>4. m.t = "version"
      BY <2>3, <3>1
    <3>5. side'[e].outbox = Append(side[e].outbox, m)
      BY <2>3, <3>1
    <3> QED BY <2>1, <3>2, <3>3, <3>4, <3>5 DEF Resolves, Updates
  <2> QED BY <2>2, <2>3
<1>7. /\ ShellIds(toShell'[e], Len(log))
      /\ Has(toShell'[e], "file") => shell[e].phase # "awaiting"
      /\ toShell'[e] # <<>> => side[e].session
  <2>1. ShellIds(toShell[e], Len(log))
    BY <1>1 DEF Held, Ids
  <2>2. CASE UNCHANGED toShell
    BY <1>1, <2>1, <2>2 DEF Pipes
  <2>3. CASE toSide[e][1].t = "fetch" /\ Sent(e, <<[t |-> "file"]>>)
    <3>1. PICK f : f = [t |-> "file"]
      OBVIOUS
    <3>2. f \in ShellMsg /\ f.t = "file"
      BY <3>1 DEF ShellMsg, FileMsg
    <3>3. <<f>> \in Seq(ShellMsg) /\ DOMAIN <<f>> = {1} /\ <<f>>[1] = f
      BY <3>2, OneFacts
    <3>4. ShellIds(<<f>>, Len(log))
      BY <3>2, <3>3 DEF ShellIds
    <3>5. ShellIds(toShell[e] \o <<f>>, Len(log))
      BY <1>2, <2>1, <3>3, <3>4, ShellIdsConcat
    <3>6. toShell'[e] = toShell[e] \o <<f>>
      BY <2>3, <3>1 DEF Sent
    <3>7. shell[e].phase # "awaiting" /\ shell[e].phase # "left"
      BY <1>1, <1>3, <2>3 DEF Pipes, Has
    <3>8. side[e].session
      BY <1>1, <3>7, EditorFacts DEF Pipes, ShellT
    <3> QED BY <3>5, <3>6, <3>7, <3>8
  <2> QED BY <2>2, <2>3
<1>8. Ids(e)' /\ Names(e)' /\ Closing(e)'
  BY <1>1, <1>4, <1>6, <1>7 DEF Held, Ids, Names, Closing
<1>9. Pipes(e)'
  BY <1>1, <1>4, <1>5, <1>6, <1>7 DEF Pipes, NextEdit
<1> QED BY <1>8, <1>9, QuietStep DEF Held

(* Taking a command from the pipe keeps types, numbering and pipes in      *)
(* order.                                                                  *)
LEMMA OnMsgBase ==
  ASSUME Base, NEW e \in Editors, OnMsg(e)
  PROVE  Base'
<1>1. /\ Types' /\ Others(e) /\ UNCHANGED <<log, versions, shell, asked, refused>>
      /\ toSide[e] # <<>> /\ toSide'[e] = Tail(toSide[e]) /\ shell[e].phase # "left"
  BY OnMsgDoes
<1>2. PICK m \in SideMsg :
         /\ m = toSide[e][1] /\ 1 \in DOMAIN toSide[e]
         /\ \/ m.t = "update" /\ GotUpdate(e, m)
            \/ m.t = "version" /\ GotVersion(e, m)
            \/ m.t \in {"applied", "rejected"} /\ GotAnswer(e, m)
            \/ m.t = "fetch" /\ GotFetch(e)
            \/ m.t = "resync" /\ GotResync(e)
  BY OnMsgDoes
<1>3. Types /\ Held(e)
  BY HeldFacts
<1>4. /\ side[e].applied \cup side[e].awaiting \subseteq 1 .. Len(log)
      /\ side[e].told.heads \cup side[e].told.covered \subseteq 1 .. Len(versions)
      /\ side[e].heads \subseteq 1 .. Len(versions)
  BY <1>3 DEF Held, Ids, Names
<1>5. CASE m.t = "update" /\ GotUpdate(e, m)
  BY <1>1, <1>2, <1>5, GotUpdateBase
<1>6. CASE m.t = "version" /\ GotVersion(e, m)
  <2>1. side'[e].outbox = Append(side[e].outbox, toSide[e][1]) /\ UNCHANGED toShell
          /\ toSide[e][1].t = "version"
    BY <1>2, <1>6 DEF GotVersion
  <2>2. /\ side'[e].applied = side[e].applied /\ side'[e].awaiting = side[e].awaiting
        /\ side'[e].mine = side[e].mine /\ side'[e].known = side[e].known
            /\ side'[e].session = side[e].session
        /\ side'[e].heads = side[e].heads /\ side'[e].told = side[e].told /\ side'[e].opened = side[e].opened
        /\ side'[e].seen = side[e].seen /\ side'[e].order = side[e].order
            /\ side'[e].nextSeq = side[e].nextSeq
    BY <1>6 DEF GotVersion, SideBut
  <2> QED BY <1>1, <1>4, <2>1, <2>2, GotOtherBase
<1>7. CASE m.t \in {"applied", "rejected"} /\ GotAnswer(e, m)
  <2>1. CASE m.id \in side[e].awaiting
    <3>1. /\ SideBut(e, {"awaiting", "applied", "told"}) /\ Emitted(e, versions)
          /\ side'[e].awaiting = side[e].awaiting \ {m.id} /\ side'[e].applied = side[e].applied \cup {m.id}
          /\ UNCHANGED toShell
      BY <1>7, <2>1 DEF GotAnswer
    <3>2. /\ side'[e].mine = side[e].mine /\ side'[e].known = side[e].known
              /\ side'[e].session = side[e].session
          /\ side'[e].heads = side[e].heads /\ side'[e].opened = side[e].opened
              /\ side'[e].outbox = side[e].outbox
          /\ side'[e].seen = side[e].seen /\ side'[e].order = side[e].order
              /\ side'[e].nextSeq = side[e].nextSeq
      BY <3>1 DEF SideBut
    <3>3. side'[e].told.heads \cup side'[e].told.covered \subseteq 1 .. Len(versions)
      BY <1>4, <3>1, <3>2, EmittedNames
    <3>4. side'[e].applied \cup side'[e].awaiting \subseteq 1 .. Len(log)
      BY <1>4, <2>1, <3>1
    <3>5. toSide[e][1].t # "update"
      BY <1>2, <1>7
    <3> QED BY <1>1, <3>1, <3>2, <3>3, <3>4, <3>5, GotOtherBase
  <2>2. CASE m.id \notin side[e].awaiting
    <3>1. UNCHANGED <<side, toShell>>
      BY <1>7, <2>2 DEF GotAnswer
    <3>2. toSide[e][1].t # "update"
      BY <1>2, <1>7
    <3> QED BY <1>1, <1>4, <3>1, <3>2, GotOtherBase
  <2> QED BY <2>1, <2>2
<1>8. CASE m.t = "fetch" /\ GotFetch(e)
  <2>1. UNCHANGED side /\ Sent(e, <<[t |-> "file"]>>) /\ toSide[e][1].t = "fetch"
    BY <1>2, <1>8 DEF GotFetch
  <2> QED BY <1>1, <1>4, <2>1, GotOtherBase
<1>9. CASE m.t = "resync" /\ GotResync(e)
  <2>1. /\ UNCHANGED toShell /\ toSide[e][1].t = "resync"
        /\ side'[e].awaiting = {} /\ side'[e].applied = {}
    BY <1>2, <1>9 DEF GotResync
  <2>2. /\ side'[e].mine = side[e].mine /\ side'[e].known = side[e].known
            /\ side'[e].session = side[e].session
        /\ side'[e].heads = side[e].heads /\ side'[e].opened = side[e].opened
            /\ side'[e].outbox = side[e].outbox
        /\ side'[e].seen = side[e].seen /\ side'[e].order = side[e].order
            /\ side'[e].nextSeq = side[e].nextSeq
        /\ side'[e].told = side[e].told
    BY <1>9 DEF GotResync, SideBut
  <2> QED BY <1>1, <1>4, <2>1, <2>2, GotOtherBase
<1> QED BY <1>2, <1>5, <1>6, <1>7, <1>8, <1>9

(* What the sidecar has of one thing after another, named once.               *)
LEMMA HeldSide ==
  ASSUME Base, NEW e \in Editors
  PROVE  /\ side[e].applied \cup side[e].awaiting \subseteq 1 .. Len(log)
         /\ side[e].seen <= Len(log) /\ side[e].order <= Len(log)
         /\ side[e].mine \cup side[e].known \cup side[e].heads \subseteq 1 .. Len(versions)
         /\ side[e].told.heads \cup side[e].told.covered \subseteq 1 .. Len(versions)
         /\ side[e].opened <= Len(versions)
         /\ Len(log) \in Nat /\ Len(versions) \in Nat /\ 0 <= Len(log)
         /\ side[e] \in SideT /\ side[e].outbox \in Seq(UpdateItem \cup VersionItem)
BY HeldFacts, EditorFacts DEF Held, Ids, Names

(* An update the store refuses keeps types, numbering and pipes in order.  *)
LEMMA UpdateRefusedBase ==
  ASSUME Base, NEW e \in Editors, UpdateRefused(e)
  PROVE  Base'
<1>1. Types /\ Sends(e, "update")
  BY DEF Base, UpdateRefused
<1>2. /\ Types' /\ Others(e) /\ UNCHANGED <<log, versions, shell, toSide, toShell, asked>>
      /\ SideBut(e, {"outbox", "at", "order"}) /\ PoppedOff(e)
  BY <1>1, UpdateRefusedDoes
<1>3. shell[e].phase # "left" /\ side[e].outbox # <<>>
  BY <1>1, SendsDoes
<1> QED BY <1>2, <1>3, HeldSide, SidecarStep DEF SideBut, PoppedOff

(* A version the store refuses keeps types, numbering and pipes in order.  *)
LEMMA VersionRefusedBase ==
  ASSUME Base, NEW e \in Editors, VersionRefused(e)
  PROVE  Base'
<1>1. Types /\ Sends(e, "version")
  BY DEF Base, VersionRefused
<1>2. /\ Types' /\ Others(e) /\ UNCHANGED <<log, versions, shell, toSide, toShell, asked, refused>>
      /\ SideBut(e, {"outbox", "at", "order"}) /\ PoppedOff(e)
  BY <1>1, VersionRefusedDoes
<1>3. shell[e].phase # "left" /\ side[e].outbox # <<>>
  BY <1>1, SendsDoes
<1> QED BY <1>2, <1>3, HeldSide, SidecarStep DEF SideBut, PoppedOff

(* Reading the log for a save keeps types, numbering and pipes in order.   *)
LEMMA ReadOrderBase ==
  ASSUME Base, NEW e \in Editors, ReadOrder(e)
  PROVE  Base'
<1>1. Types /\ Sends(e, "version")
  BY DEF Base, ReadOrder
<1>2. /\ Types' /\ Others(e) /\ UNCHANGED <<log, versions, shell, toSide, toShell, asked, refused>>
      /\ SideBut(e, {"at", "order"}) /\ side'[e].order = Len(log)
  BY <1>1, ReadOrderDoes
<1>3. shell[e].phase # "left"
  BY <1>1, SendsDoes
<1>4. side'[e].order <= Len(log)
  BY <1>2, HeldSide
<1> QED BY <1>2, <1>3, <1>4, HeldSide, SidecarStep DEF SideBut

(* A save that fails half way keeps types, numbering and pipes in order.   *)
LEMMA VersionFailedBase ==
  ASSUME Base, NEW e \in Editors, VersionFailed(e)
  PROVE  Base'
<1>1. Types
  BY DEF Base
<1>2. /\ Types' /\ Others(e) /\ UNCHANGED <<log, versions, shell, toSide, toShell, asked, refused>>
      /\ SideBut(e, {"at", "order"}) /\ BackOff(e) /\ shell[e].phase # "left"
  BY <1>1, VersionFailedDoes
<1> QED BY <1>2, HeldSide, SidecarStep DEF SideBut, BackOff

(* Reading the versions keeps types, numbering and pipes in order.         *)
LEMMA PollVersionsBase ==
  ASSUME Base, NEW e \in Editors, PollVersions(e)
  PROVE  Base'
<1>1. /\ Types' /\ Others(e) /\ UNCHANGED <<log, versions, shell, toSide, toShell, asked, refused>>
      /\ shell[e].phase # "left" /\ SideBut(e, {"known", "heads", "opened", "at"})
      /\ side'[e].known = 1 .. Len(versions) /\ side'[e].heads = HeadsOf(1 .. Len(versions))
      /\ side'[e].opened = IF side[e].opened = 0 THEN Max(HeadsOf(1 .. Len(versions))) ELSE side[e].opened
  BY PollVersionsDoes
<1>2. PICK hs : hs = HeadsOf(1 .. Len(versions))
  OBVIOUS
<1>3. hs \subseteq 1 .. Len(versions) /\ Max(hs) \in hs
  BY <1>2, HeadsFacts
<1>4. side'[e].opened <= Len(versions)
  <2>1. Max(hs) <= Len(versions)
    <3>1. Max(hs) \in 1 .. Len(versions)
      BY <1>3
    <3> QED BY <3>1, HeldSide
  <2> QED BY <1>1, <1>2, <2>1, HeldSide
<1>5. side'[e].mine \cup side'[e].known \cup side'[e].heads \subseteq 1 .. Len(versions)
  BY <1>1, <1>2, <1>3, HeldSide DEF SideBut
<1> QED BY <1>1, <1>4, <1>5, HeldSide, SidecarStep DEF SideBut

(* A read that fails keeps types, numbering and pipes in order.            *)
LEMMA PollFailedBase ==
  ASSUME Base, NEW e \in Editors, PollFailed(e)
  PROVE  Base'
<1>1. /\ Types' /\ Others(e) /\ UNCHANGED <<log, versions, shell, toSide, toShell, asked, refused>>
      /\ shell[e].phase # "left" /\ SideBut(e, {"session", "seen", "at", "told"})
      /\ \/ SideBut(e, {"at", "told"})
         \/ side'[e].session = TRUE /\ side'[e].seen = Len(log)
      /\ Emitted(e, versions)
  BY PollFailedDoes
<1>2. side'[e].heads = side[e].heads
  BY <1>1 DEF SideBut
<1>3. side'[e].told.heads \cup side'[e].told.covered \subseteq 1 .. Len(versions)
  BY <1>1, <1>2, HeldSide, EmittedNames
<1>4. side'[e].seen <= Len(log) /\ (side[e].session => side'[e].session)
  BY <1>1, HeldSide DEF SideBut
<1> QED BY <1>1, <1>3, <1>4, HeldSide, SidecarStep DEF SideBut

(* Reading the updates keeps types, numbering and pipes in order.          *)
LEMMA PollUpdatesBase ==
  ASSUME Base, NEW e \in Editors, PollUpdates(e)
  PROVE  Base'
<1>1. /\ Types' /\ Others(e) /\ UNCHANGED <<log, versions, shell, toSide, asked, refused>>
      /\ shell[e].phase # "left"
      /\ SideBut(e, {"session", "seen", "pos", "stopped", "applied", "awaiting", "at", "told"})
      /\ side'[e].session = TRUE /\ side'[e].seen = Len(log)
      /\ side'[e].applied = side[e].applied \cup Own(e) \cup Duplicates(side[e], Len(log))
      /\ side'[e].awaiting = side[e].awaiting \cup Taken(e)
      /\ Emitted(e, versions) /\ Sent(e, UpdateEvents(Taken(e)))
  BY PollUpdatesDoes
<1>2. Types /\ Held(e) /\ Pipes(e)
  BY <1>1, HeldFacts DEF Held
<1>3. /\ Taken(e) \in SUBSET (1 .. Len(log)) /\ Own(e) \in SUBSET (1 .. Len(log))
      /\ Duplicates(side[e], Len(log)) \in SUBSET (1 .. Len(log))
      /\ \A i, j \in Taken(e) : log[i].by = log[j].by /\ log[i].seq = log[j].seq => i = j
  BY TakenFacts
<1>4. PICK q : q = UpdateEvents(Taken(e))
  OBVIOUS
<1>5. /\ q \in Seq(ShellMsg) /\ DOMAIN q = 1 .. Len(q)
      /\ \A p \in 1 .. Len(q) : q[p].id \in Taken(e) /\ q[p].t = IF q[p].id = GenesisId THEN "genesis"
          ELSE "update"
  BY <1>3, <1>4, EventsFacts
<1>6. ShellIds(q, Len(log)) /\ ~Has(q, "file")
  BY <1>3, <1>5 DEF ShellIds, Has
<1>7. toShell[e] \in Seq(ShellMsg) /\ toShell'[e] = toShell[e] \o q
  BY <1>1, <1>2, <1>4, EditorFacts DEF Sent
<1>8. ShellIds(toShell'[e], Len(log)) /\ (Has(toShell'[e], "file") => Has(toShell[e], "file"))
  <2>1. ShellIds(toShell[e], Len(log))
    BY <1>2 DEF Held, Ids
  <2> QED BY <1>5, <1>6, <1>7, <2>1, ShellIdsConcat, HasConcat
<1>9. side'[e].applied \cup side'[e].awaiting \subseteq 1 .. Len(log)
  BY <1>1, <1>3, HeldSide
<1>10. /\ side'[e].mine = side[e].mine /\ side'[e].known = side[e].known /\ side'[e].heads = side[e].heads
       /\ side'[e].opened = side[e].opened /\ side'[e].outbox = side[e].outbox
       /\ side'[e].order = side[e].order /\ side'[e].nextSeq = side[e].nextSeq
  BY <1>1 DEF SideBut
<1>11. side'[e].told.heads \cup side'[e].told.covered \subseteq 1 .. Len(versions)
  BY <1>1, <1>10, HeldSide, EmittedNames
<1>12. Ids(e)'
  BY <1>1, <1>2, <1>8, <1>9, <1>10, HeldSide DEF Held, Ids
<1>13. Names(e)' /\ Closing(e)'
  BY <1>1, <1>2, <1>10, <1>11 DEF Held, Names, Closing
<1>14. Pipes(e)'
  BY <1>1, <1>2, <1>8, <1>10 DEF Pipes, NextEdit
<1> QED BY <1>1, <1>12, <1>13, <1>14, QuietStep DEF Held

(* What is left of an outbox was in it.                                    *)
LEMMA OutboxShrinks ==
  ASSUME NEW S, NEW q \in Seq(S), q # <<>>, NEW p \in {q, Tail(q)}
  PROVE  \A i \in Updates(p) : \E j \in Updates(q) : p[i] = q[j]
<1>1. CASE p = q
  BY <1>1
<1>2. CASE p = Tail(q)
  BY <1>2, TailMembers DEF Updates
<1> QED BY <1>1, <1>2

(* The log grows by the head of an outbox.                                   *)
LEMMA LogStepBase ==
  ASSUME Base, Types', NEW e \in Editors, Sends(e, "update"), LogGets(e), Others(e),
         UNCHANGED <<versions, shell, toSide, toShell, asked, refused>>,
         SideBut(e, {"outbox", "at", "order", "applied"}),
         side'[e].outbox \in {side[e].outbox, Tail(side[e].outbox)}, side'[e].order = 0,
         side'[e].applied \subseteq side[e].applied \cup {Len(log) + 1}
  PROVE  /\ Base' /\ Len(log) \in Nat /\ Len(log') = Len(log) + 1
         /\ \A i \in 1 .. Len(log) : log'[i] = log[i]
         /\ log'[Len(log) + 1] = [by |-> e, seq |-> First1(e).seq, edit |-> <<e, First1(e).seq>>]
         /\ First1(e).edit = <<e, First1(e).seq>> /\ First1(e).seq < side[e].nextSeq
<1>1. Types /\ Held(e)
  BY HeldFacts
<1>2. /\ shell[e].phase # "left" /\ First1(e) \in UpdateItem /\ side[e].outbox # <<>>
      /\ 1 \in DOMAIN side[e].outbox
  BY <1>1, SendsDoes
<1>3. Pipes(e)
  BY <1>1, <1>2 DEF Held
<1>4. First1(e).edit = <<e, First1(e).seq>> /\ First1(e).seq < side[e].nextSeq
  <2>1. 1 \in Updates(side[e].outbox)
    BY <1>2 DEF Updates, First1, UpdateItem
  <2> QED BY <1>3, <2>1 DEF Pipes, First1
<1>5. PICK x : x = [by |-> e, seq |-> First1(e).seq, edit |-> First1(e).edit]
  OBVIOUS
<1>6. x \in LogT
  BY <1>2, <1>5 DEF LogT, UpdateItem
<1>7. log \in Seq(LogT) /\ log' = Append(log, x)
  BY <1>1, <1>5 DEF Types, LogGets
<1>8. /\ Len(log) \in Nat /\ Len(log') = Len(log) + 1 /\ log'[Len(log) + 1] = x
      /\ \A i \in 1 .. Len(log) : log'[i] = log[i]
  BY <1>6, <1>7, AppendFacts
<1>9. 1 .. Len(log) \subseteq 1 .. Len(log') /\ Len(log) <= Len(log') /\ Len(log) + 1 \in 1 .. Len(log')
      /\ \A i \in 1 .. Len(log') : i \in 1 .. Len(log) \/ i = Len(log) + 1
  BY <1>8
<1>10. \A f \in Editors \ {e} : Held(f)'
  BY <1>9, HeldSide, OthersHold
<1>11. VersionsOK'
  <2>1. ASSUME NEW v \in 1 .. Len(versions) PROVE versions[v].through <= Len(log')
    <3>1. versions[v].through \in Nat /\ versions[v].through <= Len(log)
      <4>1. versions[v] \in VersionT
        BY <1>1, SeqFacts DEF Types
      <4>2. versions[v].through <= Len(log)
        BY DEF Base, VersionsOK
      <4> QED BY <4>1, <4>2 DEF VersionT
    <3> QED BY <1>8, <3>1
  <2> QED BY <2>1 DEF Base, VersionsOK
<1>12. LogOK'
  <2>1. 1 \in 1 .. Len(log)
    BY LogFacts
  <2>2. x.edit = <<x.by, x.seq>>
    BY <1>4, <1>5
  <2> QED BY <1>8, <1>9, <2>1, <2>2 DEF Base, LogOK
<1>13. Resolves(side'[e].outbox, Len(versions))
  BY <1>1, <1>2, HeldSide, ResolvesTail DEF Held, Names
<1>14. /\ side'[e].awaiting = side[e].awaiting /\ side'[e].seen = side[e].seen
       /\ side'[e].mine = side[e].mine /\ side'[e].known = side[e].known /\ side'[e].heads = side[e].heads
       /\ side'[e].opened = side[e].opened /\ side'[e].told = side[e].told
       /\ side'[e].nextSeq = side[e].nextSeq /\ side'[e].session = side[e].session
  BY DEF SideBut
<1>15. Ids(e)'
  <2>1. ShellIds(toShell[e], Len(log)) /\ SideIds(toSide[e], Len(log))
    BY <1>1 DEF Held, Ids
  <2>2. ShellIds(toShell[e], Len(log')) /\ SideIds(toSide[e], Len(log'))
    BY <1>8, <1>9, <2>1, StillThere
  <2>3. side[e].seen \in Nat /\ side[e].seen <= Len(log') /\ 0 <= Len(log')
    <3>1. side[e].seen \in Nat /\ side[e].seen <= Len(log)
      BY HeldSide DEF SideT
    <3> QED BY <1>8, <3>1
  <2>4. side'[e].applied \cup side'[e].awaiting \subseteq 1 .. Len(log')
    BY <1>9, <1>14, HeldSide
  <2>5. \A i \in DOMAIN shell[e].queued : shell[e].queued[i] \in 1 .. Len(log')
    BY <1>1, <1>9 DEF Held, Ids
  <2> QED BY <1>14, <2>2, <2>3, <2>4, <2>5 DEF Ids
<1>16. Names(e)' /\ Closing(e)'
  BY <1>1, <1>2, <1>13, <1>14 DEF Held, Names, Closing
<1>17. Pipes(e)'
  <2>1. \A i \in Updates(side'[e].outbox) : \E j \in Updates(side[e].outbox) : side'[e].outbox[i] = side[e].outbox[j]
    <3>1. PICK p, q : p = side'[e].outbox /\ q = side[e].outbox
      OBVIOUS
    <3>2. q \in Seq(UpdateItem \cup VersionItem) /\ q # <<>> /\ p \in {q, Tail(q)}
      BY <1>2, <3>1, HeldSide
    <3>3. \A i \in Updates(p) : \E j \in Updates(q) : p[i] = q[j]
      BY <3>2, OutboxShrinks
    <3> QED BY <3>1, <3>3
  <2>2. \A i \in Updates(side'[e].outbox) :
           side'[e].outbox[i].edit = <<e, side'[e].outbox[i].seq>> /\ side'[e].outbox[i].seq < side[e].nextSeq
    BY <1>3, <2>1 DEF Pipes
  <2> QED BY <1>3, <1>14, <2>2 DEF Pipes, NextEdit
<1>18. Base'
  BY <1>10, <1>11, <1>12, <1>15, <1>16, <1>17 DEF Base, Held
<1> QED BY <1>4, <1>5, <1>8, <1>18

(* An update the store accepts keeps types, numbering and pipes in order.  *)
LEMMA UpdateAcceptedBase ==
  ASSUME Base, NEW e \in Editors, UpdateAccepted(e)
  PROVE  Base'
<1>1. Types /\ Sends(e, "update")
  BY DEF Base, UpdateAccepted
<1>2. /\ Types' /\ Others(e) /\ UNCHANGED <<versions, shell, toSide, toShell, asked, refused>>
      /\ LogGets(e) /\ SideBut(e, {"outbox", "at", "order", "applied"}) /\ PoppedOff(e)
      /\ side'[e].applied = side[e].applied \cup {Len(log) + 1}
  BY <1>1, UpdateAcceptedDoes
<1> QED BY <1>1, <1>2, LogStepBase DEF PoppedOff

(* An update whose answer is lost keeps types, numbering and pipes in      *)
(* order.                                                                  *)
LEMMA UpdateAnswerLostBase ==
  ASSUME Base, NEW e \in Editors, UpdateAnswerLost(e)
  PROVE  Base'
<1>1. Types /\ Sends(e, "update")
  BY DEF Base, UpdateAnswerLost
<1>2. /\ Types' /\ Others(e) /\ UNCHANGED <<versions, shell, toSide, toShell, asked, refused>>
      /\ LogGets(e) /\ SideBut(e, {"at", "order"}) /\ BackOff(e)
  BY <1>1, UpdateAnswerLostDoes
<1>3. /\ SideBut(e, {"outbox", "at", "order", "applied"}) /\ side'[e].outbox = side[e].outbox
      /\ side'[e].applied = side[e].applied /\ side'[e].order = 0
  BY <1>2 DEF SideBut, BackOff
<1> QED BY <1>1, <1>2, <1>3, LogStepBase

(* What the parents of a new version are.                                    *)
LEMMA ParentFacts ==
  ASSUME Base, NEW e \in Editors, Sends(e, "version"), StoreVersion(e)
  PROVE  /\ NewVersion(e).parents \subseteq 1 .. Len(versions)
         /\ NewVersion(e).through \in 0 .. side[e].order /\ NewVersion(e).through <= Len(log)
         /\ NewVersion(e).from <= Len(versions)
<1>1. Types /\ Held(e)
  BY HeldFacts
<1>2. 1 \in DOMAIN side[e].outbox /\ First1(e) \in VersionItem /\ First1(e).t = "version"
  BY <1>1, SendsDoes
<1>3. First1(e).resolve \subseteq 1 .. Len(versions)
  BY <1>1, <1>2 DEF Held, Names, Resolves, First1
<1>4. First1(e).resolve = {} => side[e].opened # 0
  BY <1>1, StoreVersionDoes
<1>5. First1(e).resolve = {} => side[e].opened \in 1 .. Len(versions)
  BY <1>4, HeldSide DEF SideT
<1>6. ParentsOf(side[e], First1(e)) \subseteq 1 .. Len(versions)
  <2>1. CASE First1(e).resolve # {}
    BY <1>3, <2>1 DEF ParentsOf
  <2>2. CASE First1(e).resolve = {}
    <3>1. PICK ms : ms = {side[e].opened}
            \cup {h \in side[e].heads : Covered(versions, side[e], h, Through(side[e]))}
      OBVIOUS
    <3>2. ms \subseteq 1 .. Len(versions)
      BY <1>5, <2>2, <3>1, HeldSide
    <3>3. ParentsOf(side[e], First1(e)) = Antichain(side[e].known, ms)
      BY <2>2, <3>1 DEF ParentsOf
    <3> QED BY <3>2, <3>3 DEF Antichain
  <2> QED BY <2>1, <2>2
<1>7. Through(side[e]) \in 0 .. side[e].order /\ side[e].order \in Nat
  BY HeldSide, PrefixFacts DEF Through, SideT
<1>8. Through(side[e]) <= Len(log)
  <2>1. PICK t, o : t = Through(side[e]) /\ o = side[e].order
    OBVIOUS
  <2>2. t \in 0 .. o /\ o \in Nat /\ o <= Len(log) /\ Len(log) \in Nat
    BY <1>7, <2>1, HeldSide
  <2>3. t <= Len(log)
    BY <2>2
  <2> QED BY <2>1, <2>3
<1>9. NewVersion(e).from <= Len(versions)
  <2>1. NewVersion(e).from = IF First1(e).resolve = {} THEN side[e].opened ELSE 0
    BY DEF NewVersion
  <2> QED BY <2>1, HeldSide DEF SideT
<1> QED BY <1>6, <1>7, <1>8, <1>9 DEF NewVersion

(* The list of versions grows by the head of an outbox.                      *)
LEMMA VersionStepBase ==
  ASSUME Base, Types', NEW e \in Editors, Sends(e, "version"), StoreVersion(e), Others(e),
         UNCHANGED <<log, shell, toSide, toShell, refused>>,
         SideBut(e, {"outbox", "at", "order", "mine", "opened", "known", "heads", "told"}),
         side'[e].outbox \in {side[e].outbox, Tail(side[e].outbox)}, side'[e].order = 0,
         side'[e].mine \cup side'[e].known \cup side'[e].heads
            \subseteq side[e].mine \cup side[e].known \cup side[e].heads \cup {Len(versions) + 1},
         side'[e].opened \in {side[e].opened, Len(versions) + 1},
         side'[e].told = side[e].told \/ Emitted(e, versions')
  PROVE  Base'
<1>1. Types /\ Held(e)
  BY HeldFacts
<1>2. /\ shell[e].phase # "left" /\ side[e].outbox # <<>>
  BY <1>1, SendsDoes
<1>3. Pipes(e)
  BY <1>1, <1>2 DEF Held
<1>4. /\ versions' = Append(versions, NewVersion(e)) /\ NewVersion(e) \in VersionT
      /\ Len(versions') = Len(versions) + 1 /\ versions'[Len(versions) + 1] = NewVersion(e)
          /\ Len(versions) \in Nat
  BY <1>1, StoreVersionDoes
<1>5. \A v \in 1 .. Len(versions) : versions'[v] = versions[v]
  BY <1>1, <1>4, AppendFacts DEF Types
<1>6. 1 .. Len(versions) \subseteq 1 .. Len(versions') /\ Len(versions) <= Len(versions')
      /\ Len(versions) + 1 \in 1 .. Len(versions')
      /\ \A v \in 1 .. Len(versions') : v \in 1 .. Len(versions) \/ v = Len(versions) + 1
  BY <1>4
<1>7. \A f \in Editors \ {e} : Held(f)'
  BY <1>6, HeldSide, OthersHold
<1>8. VersionsOK'
  <2>1. ASSUME NEW v \in 1 .. Len(versions')
        PROVE  versions'[v].parents \subseteq 1 .. v - 1 /\ versions'[v].from <= v - 1
                 /\ versions'[v].through <= Len(log)
    <3>1. CASE v \in 1 .. Len(versions)
      BY <1>5, <3>1 DEF Base, VersionsOK
    <3>2. CASE v = Len(versions) + 1
      <4>1. v - 1 = Len(versions)
        BY <1>4, <3>2
      <4> QED BY <1>4, <3>2, <4>1, ParentFacts
    <3> QED BY <1>6, <3>1, <3>2
  <2> QED BY <2>1 DEF VersionsOK
<1>9. Resolves(side'[e].outbox, Len(versions'))
  <2>1. Resolves(side'[e].outbox, Len(versions))
    BY <1>1, <1>2, HeldSide, ResolvesTail DEF Held, Names
  <2> QED BY <1>4, <1>6, <2>1, StillThere
<1>10. /\ side'[e].awaiting = side[e].awaiting /\ side'[e].applied = side[e].applied
           /\ side'[e].seen = side[e].seen
       /\ side'[e].nextSeq = side[e].nextSeq /\ side'[e].session = side[e].session
  BY DEF SideBut
<1>11. Ids(e)'
  BY <1>1, <1>10, HeldSide DEF Held, Ids
<1>12. Names(e)'
  <2>1. Resolves(toSide'[e], Len(versions'))
    <3>1. Resolves(toSide[e], Len(versions))
      BY <1>1 DEF Held, Names
    <3> QED BY <1>4, <1>6, <3>1, StillThere
  <2>2. side'[e].mine \cup side'[e].known \cup side'[e].heads \subseteq 1 .. Len(versions')
    BY <1>6, HeldSide
  <2>3. side'[e].opened <= Len(versions')
    <3>1. PICK o : o = side[e].opened
      OBVIOUS
    <3>2. o \in Nat /\ o <= Len(versions)
      BY <3>1, HeldSide DEF SideT
    <3>3. o <= Len(versions') /\ Len(versions) + 1 <= Len(versions')
      BY <1>4, <3>2
    <3> QED BY <3>1, <3>3
  <2>4. side'[e].told.heads \cup side'[e].told.covered \subseteq 1 .. Len(versions')
    <3>1. side[e].told.heads \cup side[e].told.covered \subseteq 1 .. Len(versions')
      BY <1>6, HeldSide
    <3>2. side'[e].heads \subseteq 1 .. Len(versions')
      BY <2>2
    <3>3. CASE side'[e].told = side[e].told
      BY <3>1, <3>3
    <3>4. CASE Emitted(e, versions')
      BY <3>1, <3>2, <3>4, EmittedNames
    <3> QED BY <3>3, <3>4
  <2>5. shell[e].shown.heads \cup shell[e].shown.covered \subseteq 1 .. Len(versions')
    BY <1>1, <1>6 DEF Held, Names
  <2> QED BY <1>9, <2>1, <2>2, <2>3, <2>4, <2>5 DEF Names
<1>13. Closing(e)'
  BY <1>2 DEF Closing
<1>14. Pipes(e)'
  <2>1. \A i \in Updates(side'[e].outbox) : \E j \in Updates(side[e].outbox) : side'[e].outbox[i] = side[e].outbox[j]
    BY <1>2, HeldSide, OutboxShrinks
  <2>2. \A i \in Updates(side'[e].outbox) :
           side'[e].outbox[i].edit = <<e, side'[e].outbox[i].seq>> /\ side'[e].outbox[i].seq < side[e].nextSeq
    BY <1>3, <2>1 DEF Pipes
  <2> QED BY <1>3, <1>10, <2>2 DEF Pipes, NextEdit
<1>15. LogOK'
  BY DEF Base, LogOK
<1> QED BY <1>7, <1>8, <1>11, <1>12, <1>13, <1>14, <1>15 DEF Base, Held

(* A version the store accepts keeps types, numbering and pipes in order.  *)
LEMMA VersionAcceptedBase ==
  ASSUME Base, NEW e \in Editors, VersionAccepted(e)
  PROVE  Base'
<1>1. Types
  BY DEF Base
<1>2. /\ Types' /\ Others(e) /\ UNCHANGED <<log, shell, toSide, toShell, asked, refused>>
      /\ Sends(e, "version") /\ StoreVersion(e)
      /\ SideBut(e, {"outbox", "at", "order", "mine", "opened", "known", "heads", "told"}) /\ PoppedOff(e)
      /\ side'[e].mine = side[e].mine \cup {Len(versions) + 1} /\ side'[e].opened = Len(versions) + 1
      /\ side'[e].known = side[e].known \cup {Len(versions) + 1}
      /\ side'[e].heads = IF side[e].heads = {} THEN {}
                          ELSE (side[e].heads \ NewVersion(e).parents) \cup {Len(versions) + 1}
      /\ Emitted(e, versions')
  BY <1>1, VersionAcceptedDoes
<1>3. side'[e].heads \subseteq side[e].heads \cup {Len(versions) + 1}
  BY <1>2
<1> QED BY <1>2, <1>3, VersionStepBase DEF PoppedOff

(* A version whose answer is lost keeps types, numbering and pipes in      *)
(* order.                                                                  *)
LEMMA VersionAnswerLostBase ==
  ASSUME Base, NEW e \in Editors, VersionAnswerLost(e)
  PROVE  Base'
<1>1. Types
  BY DEF Base
<1>2. /\ Types' /\ Others(e) /\ UNCHANGED <<log, shell, toSide, toShell, refused>>
      /\ Sends(e, "version") /\ StoreVersion(e)
      /\ SideBut(e, {"at", "order"}) /\ BackOff(e)
  BY <1>1, VersionAnswerLostDoes
<1>3. /\ SideBut(e, {"outbox", "at", "order", "mine", "opened", "known", "heads", "told"})
      /\ side'[e].outbox = side[e].outbox /\ side'[e].mine = side[e].mine /\ side'[e].known = side[e].known
      /\ side'[e].heads = side[e].heads /\ side'[e].opened = side[e].opened /\ side'[e].told = side[e].told
      /\ side'[e].order = 0
  BY <1>2 DEF SideBut, BackOff
<1> QED BY <1>2, <1>3, VersionStepBase

(* Base holds initially.                                                   *)
LEMMA InitBase == Init => Base
<1> SUFFICES ASSUME Init PROVE Base
  OBVIOUS
<1>1. Types
  BY InitTypes
<1>2. Len(log) = 1 /\ log[1] = [by |-> Sharer, seq |-> 0, edit |-> Genesis]
  BY DEF Init
<1>3. /\ Len(versions) = 1
      /\ versions[1] = [by |-> Sharer, parents |-> {}, through |-> 0, file |-> {Genesis}, from |-> 0]
  BY DEF Init
<1>4. VersionsOK
  <2>1. \A v \in 1 .. Len(versions) : v = 1
    BY <1>3
  <2> QED BY <1>2, <1>3, <2>1 DEF VersionsOK
<1>5. LogOK
  <2>1. \A i \in 1 .. Len(log) : i = 1
    BY <1>2
  <2> QED BY <1>2, <2>1 DEF LogOK, Genesis
<1>6. ASSUME NEW e \in Editors PROVE Held(e)
  <2>1. shell[e] = NewShell(e) /\ side[e] = NewSide(e) /\ toSide[e] = <<>> /\ toShell[e] = <<>>
    BY DEF Init
  <2>2. /\ shell[e].phase = (IF e = Sharer THEN "live" ELSE "awaiting") /\ shell[e].queued = <<>>
            /\ shell[e].edits = 0
        /\ shell[e].shown = [heads |-> {}, covered |-> {}]
    BY <2>1 DEF NewShell
  <2>3. /\ side[e].session = (e = Sharer) /\ side[e].applied = (IF e = Sharer THEN {GenesisId} ELSE {})
        /\ side[e].awaiting = {} /\ side[e].mine = (IF e = Sharer THEN {Root} ELSE {})
        /\ side[e].opened = (IF e = Sharer THEN Root ELSE 0) /\ side[e].known = {} /\ side[e].heads = {}
        /\ side[e].told = [heads |-> {}, covered |-> {}] /\ side[e].nextSeq = (IF e = Sharer THEN 1 ELSE 0)
        /\ side[e].seen = 0 /\ side[e].outbox = <<>> /\ side[e].order = 0
    BY <2>1 DEF NewSide
  <2>4. DOMAIN <<>> = {}
    OBVIOUS
  <2>5. Ids(e)
    BY <1>2, <2>1, <2>2, <2>3, <2>4 DEF Ids, SideIds, ShellIds, GenesisId
  <2>6. Names(e)
    BY <1>3, <2>1, <2>2, <2>3, <2>4 DEF Names, Resolves, Root
  <2>7. InOrder(<<>>, e, side[e].nextSeq, NextEdit(e)) /\ side[e].nextSeq = NextEdit(e)
    <3>1. NextEdit(e) = (IF e = Sharer THEN 1 ELSE 0) /\ Updates(<<>>) = {}
      BY <2>2, <2>4 DEF NextEdit, Updates
    <3>2. side[e].nextSeq = NextEdit(e) /\ NextEdit(e) \in Nat
      BY <2>3, <3>1
    <3>3. side[e].nextSeq .. NextEdit(e) - 1 = {}
      BY <3>2
    <3> QED BY <3>1, <3>2, <3>3 DEF InOrder
  <2>8. Pipes(e)
    <3>1. NextEdit(e) \in Nat
      BY <1>1, EditorFacts
    <3>2. shell[e].phase \in {"verifying", "live"} => side[e].session
      BY <2>2, <2>3
    <3>3. Updates(<<>>) = {}
      BY <2>4 DEF Updates
    <3> QED BY <2>1, <2>2, <2>3, <2>4, <2>7, <3>1, <3>2, <3>3 DEF Pipes, Has
  <2>9. Closing(e)
    BY <2>2 DEF Closing
  <2> QED BY <2>5, <2>6, <2>8, <2>9 DEF Held
<1> QED BY <1>1, <1>4, <1>5, <1>6 DEF Base, Held

(* Every step keeps Base.                                                  *)
LEMMA NextBase == Base /\ [Next]_vars => Base'
<1> SUFFICES ASSUME Base, [Next]_vars PROVE Base'
  OBVIOUS
<1>1. CASE UNCHANGED vars
  BY <1>1 DEF vars, Base, Types, VersionsOK, LogOK, Ids, Names, Pipes, Closing, NextEdit
<1>2. ASSUME NEW e \in Editors, ShellStep(e) PROVE Base'
  BY <1>2, EditBase, SaveBase, KeepMineBase, AskResyncBase, LeaveBase, HearBase, HearHeadsBase DEF ShellStep
<1>3. ASSUME NEW e \in Editors, OnMsg(e) PROVE Base'
  BY <1>3, OnMsgBase
<1>4. ASSUME NEW e \in Editors, FlushStep(e) PROVE Base'
  BY <1>4, UpdateAcceptedBase, UpdateAnswerLostBase, UpdateRefusedBase, ReadOrderBase, VersionAcceptedBase,
     VersionAnswerLostBase, VersionRefusedBase, VersionFailedBase DEF FlushStep
<1>5. ASSUME NEW e \in Editors, PollStep(e) PROVE Base'
  BY <1>5, PollVersionsBase, PollUpdatesBase, PollFailedBase DEF PollStep
<1> QED BY <1>1, <1>2, <1>3, <1>4, <1>5 DEF Next

(* Base is an invariant.                                                   *)
LEMMA BaseHolds == Spec => []Base
  BY InitBase, NextBase, PTL DEF Spec

(* Every variable stays in its type and every name that is stored, queued  *)
(* or held names something that is there: the ids of Held and of the pipes *)
(* are places in the log, parents come earlier than their version.         *)
THEOREM TypesHold == Spec => []TypeOK
<1>1. Base => TypeOK
  <2> SUFFICES ASSUME Base PROVE TypeOK
    OBVIOUS
  <2>1. Types /\ Len(log) \in Nat /\ Len(versions) \in Nat
    BY HeldFacts, LogFacts, HeadsFacts
  <2>2. \A i \in DOMAIN log : log[i] \in LogT
    BY <2>1, SeqFacts DEF Types
  <2>3. ASSUME NEW v \in DOMAIN versions
        PROVE  /\ versions[v].by \in Editors /\ versions[v].parents \subseteq 1 .. v - 1
               /\ versions[v].through \in 0 .. Len(log) /\ versions[v].file \subseteq AllEdits
               /\ versions[v].from \in 0 .. v - 1
    <3>1. versions[v] \in VersionT /\ v \in 1 .. Len(versions)
      BY <2>1, SeqFacts DEF Types
    <3>2. versions[v].parents \subseteq 1 .. v - 1 /\ versions[v].from <= v - 1
            /\ versions[v].through <= Len(log)
      BY <3>1 DEF Base, VersionsOK
    <3>3. versions[v].through \in 0 .. Len(log) /\ versions[v].from \in 0 .. v - 1
      BY <2>1, <3>1, <3>2 DEF VersionT
    <3> QED BY <3>1, <3>2, <3>3 DEF VersionT
  <2>4. ASSUME NEW e \in Editors
        PROVE  /\ shell[e].phase \in {"awaiting", "verifying", "live", "left"}
               /\ shell[e].replica \subseteq AllEdits /\ shell[e].shown \in Reports
               /\ shell[e].resynced \in BOOLEAN /\ side[e].session \in BOOLEAN
               /\ side[e].applied \subseteq 1 .. Len(log) /\ side[e].awaiting \subseteq 1 .. Len(log)
               /\ side[e].mine \cup side[e].known \cup side[e].heads \subseteq 1 .. Len(versions)
               /\ side[e].opened \in 0 .. Len(versions) /\ side[e].told \in Reports
               /\ side[e].stopped \subseteq Editors
               /\ side[e].seen \in 0 .. Len(log) /\ side[e].order \in 0 .. Len(log)
               /\ side[e].at \in {"loop", "polling", "saving"}
    <3>1. Held(e) /\ shell[e] \in ShellT /\ side[e] \in SideT
      BY <2>1, HeldFacts, EditorFacts
    <3>2. /\ shell[e].phase \in {"awaiting", "verifying", "live", "left"}
          /\ shell[e].replica \subseteq AllEdits /\ shell[e].shown \in ReportT
              /\ shell[e].resynced \in BOOLEAN
      BY <3>1 DEF ShellT
    <3>3. /\ side[e].session \in BOOLEAN /\ side[e].opened \in Nat /\ side[e].told \in ReportT
          /\ side[e].stopped \subseteq Editors /\ side[e].seen \in Nat /\ side[e].order \in Nat
          /\ side[e].at \in {"loop", "polling", "saving"}
      BY <3>1 DEF SideT
    <3>4. side[e].opened \in 0 .. Len(versions) /\ side[e].seen \in 0 .. Len(log)
            /\ side[e].order \in 0 .. Len(log)
      BY <2>1, <3>3, HeldSide
    <3>5. \A r \in ReportT : r.heads \cup r.covered \subseteq 1 .. Len(versions) => r \in Reports
      BY DEF ReportT, Reports
    <3>6. shell[e].shown \in Reports /\ side[e].told \in Reports
      BY <3>1, <3>2, <3>3, <3>5 DEF Held, Names
    <3> QED BY <3>2, <3>3, <3>4, <3>6, HeldSide
  <2> QED BY <2>1, <2>2, <2>3, <2>4 DEF TypeOK, Types, LogT
<1> QED BY <1>1, BaseHolds, PTL

-----------------------------------------------------------------------------
(* 2. Replicas                                                             *)
(* What is answered, applied and claimed is in the replica.                *)

(* What an editor has of its own, and that its document starts with the       *)
(* genesis.                                                                  *)
HoldsOwn(e) ==
  /\ shell[e].phase = "awaiting" => shell[e].replica = {} /\ NextEdit(e) = 0
  /\ shell[e].phase \notin {"awaiting", "left"} => Genesis \in shell[e].replica
  /\ \A k \in 0 .. NextEdit(e) - 1 : <<e, k>> \in shell[e].replica
  /\ \A i \in 1 .. Len(log) : log[i].by = e => log[i].edit \in shell[e].replica

(* What is answered, and what is taken for applied, is in the replica.        *)
HasEdit(e, i) == log[i].edit \in shell[e].replica \cup BadEdits

Answered(e) ==
  /\ \A p \in DOMAIN toShell[e] : toShell[e][p].t = "genesis" => toShell[e][p].id = GenesisId
  /\ \A p \in DOMAIN toSide[e] : toSide[e][p].t \in {"applied", "rejected"} => HasEdit(e, toSide[e][p].id)
  /\ \A i \in side[e].applied : HasEdit(e, i) \/ \E j \in 1 .. i - 1 : log[j].edit = log[i].edit

Claims == \A v \in 1 .. Len(versions) : \A i \in 1 .. versions[v].through : HasEdit(versions[v].by, i)

Replicas == Claims /\ \A e \in Editors : HoldsOwn(e) /\ Answered(e)

(* What a step of e does to the store, as far as the replicas go.             *)
LogKept(e) ==
  /\ Len(log) <= Len(log') /\ \A i \in 1 .. Len(log) : log'[i] = log[i]
  /\ \A i \in 1 .. Len(log') : i \in 1 .. Len(log) \/ log'[i].by = e

VersionsKept(e) ==
  \A v \in 1 .. Len(versions') :
     \/ v \in 1 .. Len(versions) /\ versions'[v] = versions[v]
     \/ versions'[v].by = e /\ \A i \in 1 .. versions'[v].through : i \in 1 .. Len(log) /\ HasEdit(e, i)

(* HasEdit in the next state.                                                *)
WillHave(e, i) == log'[i].edit \in shell'[e].replica \cup BadEdits

(* A step that stores nothing.                                             *)
LEMMA UnchangedStore ==
  ASSUME Base, NEW e \in Editors
  PROVE  /\ UNCHANGED log => LogKept(e)
         /\ UNCHANGED versions => VersionsKept(e)
<1>1. Len(log) \in Nat
  BY LogFacts
<1> QED BY <1>1 DEF LogKept, VersionsKept

(* Only e's part changes, and its replica only grows.                      *)
LEMMA ReplicasStep ==
  ASSUME Base, Base', Replicas, NEW e \in Editors, Others(e), LogKept(e), VersionsKept(e),
         shell[e].replica \subseteq shell'[e].replica, HoldsOwn(e)', Answered(e)'
  PROVE  Replicas'
<1>1. Len(log) \in Nat /\ Len(log') \in Nat
  BY LogFacts DEF Base, Types
<1>2. \A i \in 1 .. Len(log) : log'[i] = log[i] /\ i \in 1 .. Len(log')
  BY <1>1 DEF LogKept
<1>3. \A f \in Editors : shell[f].replica \subseteq shell'[f].replica
  BY DEF Others
<1>4. \A f \in Editors : \A i \in 1 .. Len(log) : HasEdit(f, i) => WillHave(f, i)
  BY <1>2, <1>3 DEF HasEdit, WillHave
<1>5. Claims'
  <2> SUFFICES ASSUME NEW v \in 1 .. Len(versions'), NEW i \in 1 .. versions'[v].through
               PROVE  HasEdit(versions[v].by, i)'
    BY DEF Claims
  <2>1. CASE v \in 1 .. Len(versions) /\ versions'[v] = versions[v]
    <3>1. versions[v] \in VersionT
      BY <2>1, SeqFacts DEF Base, Types
    <3>2. versions[v].by \in Editors /\ versions[v].through \in Nat /\ versions[v].through <= Len(log)
      BY <2>1, <3>1 DEF VersionT, Base, VersionsOK
    <3>3. PICK t : t = versions[v].through
      OBVIOUS
    <3>4. t \in Nat /\ t <= Len(log) /\ i \in 1 .. t
      BY <2>1, <3>2, <3>3
    <3>5. i \in 1 .. Len(log)
      BY <1>1, <3>4
    <3>6. HasEdit(versions[v].by, i)
      BY <2>1, <3>3, <3>4 DEF Replicas, Claims
    <3>7. WillHave(versions[v].by, i)
      BY <1>4, <3>2, <3>5, <3>6
    <3> QED BY <2>1, <3>7 DEF HasEdit, WillHave
  <2>2. CASE versions'[v].by = e /\ \A j \in 1 .. versions'[v].through : j \in 1 .. Len(log) /\ HasEdit(e, j)
    <3>1. i \in 1 .. Len(log) /\ HasEdit(e, i)
      BY <2>2
    <3>2. WillHave(e, i)
      BY <1>4, <3>1
    <3> QED BY <2>2, <3>2 DEF HasEdit, WillHave
  <2> QED BY <2>1, <2>2 DEF VersionsKept
<1>6. ASSUME NEW f \in Editors \ {e} PROVE HoldsOwn(f)' /\ Answered(f)'
  <2>1. HoldsOwn(f) /\ Answered(f) /\ Ids(f)
    BY HeldFacts DEF Replicas, Held
  <2>2. shell'[f] = shell[f] /\ side'[f] = side[f] /\ toSide'[f] = toSide[f] /\ toShell'[f] = toShell[f]
    BY DEF Others
  <2>3. HoldsOwn(f)'
    <3>1. \A i \in 1 .. Len(log') : log'[i].by = f => i \in 1 .. Len(log) /\ log'[i] = log[i]
      BY <1>2 DEF LogKept
    <3> QED BY <2>1, <2>2, <3>1 DEF HoldsOwn, NextEdit
  <2>4. Answered(f)'
    <3>1. \A p \in DOMAIN toSide[f] : toSide[f][p].t \in {"applied", "rejected"}
            => WillHave(f, toSide[f][p].id)
      BY <1>4, <2>1 DEF Answered, Ids, SideIds
    <3>2. ASSUME NEW i \in side[f].applied PROVE WillHave(f, i) \/ \E j \in 1 .. i - 1 : log'[j].edit = log'[i].edit
      <4>1. i \in 1 .. Len(log)
        BY <2>1 DEF Ids
      <4>2. CASE HasEdit(f, i)
        BY <1>4, <4>1, <4>2
      <4>3. CASE \E j \in 1 .. i - 1 : log[j].edit = log[i].edit
        <5>1. PICK j \in 1 .. i - 1 : log[j].edit = log[i].edit
          BY <4>3
        <5>2. j \in 1 .. Len(log)
          BY <1>1, <4>1
        <5> QED BY <1>2, <4>1, <5>1, <5>2
      <4> QED BY <2>1, <4>2, <4>3 DEF Answered
    <3>3. \A p \in DOMAIN toShell[f] : toShell[f][p].t = "genesis" => toShell[f][p].id = GenesisId
      BY <2>1 DEF Answered
    <3> QED BY <2>2, <3>1, <3>2, <3>3 DEF Answered, HasEdit, WillHave
  <2> QED BY <2>3, <2>4
<1> QED BY <1>5, <1>6 DEF Replicas

(* ... and what is in the pipes and applied was there or is in the         *)
(* replica.                                                                *)
LEMMA ReplicasFrom ==
  ASSUME Base, Base', Replicas, NEW e \in Editors, Others(e), LogKept(e), VersionsKept(e),
         shell[e].replica \subseteq shell'[e].replica, HoldsOwn(e)',
         \A p \in DOMAIN toShell'[e] : toShell'[e][p].t = "genesis" =>
            (\E q \in DOMAIN toShell[e] : toShell'[e][p] = toShell[e][q]) \/ toShell'[e][p].id = GenesisId,
         \A p \in DOMAIN toSide'[e] : toSide'[e][p].t \in {"applied", "rejected"} =>
            (\E q \in DOMAIN toSide[e] : toSide'[e][p] = toSide[e][q]) \/ WillHave(e, toSide'[e][p].id),
         \A i \in side'[e].applied : \/ i \in side[e].applied \/ WillHave(e, i)
                                     \/ \E j \in 1 .. i - 1 : log'[j].edit = log'[i].edit
  PROVE  Replicas'
<1>1. Len(log) \in Nat /\ Answered(e) /\ Ids(e)
  BY LogFacts, HeldFacts DEF Replicas, Held
<1>2. \A i \in 1 .. Len(log) : HasEdit(e, i) => WillHave(e, i)
  BY DEF LogKept, HasEdit, WillHave
<1>3. \A p \in DOMAIN toShell'[e] : toShell'[e][p].t = "genesis" => toShell'[e][p].id = GenesisId
  BY <1>1 DEF Answered
<1>4. ASSUME NEW p \in DOMAIN toSide'[e], toSide'[e][p].t \in {"applied", "rejected"}
      PROVE  WillHave(e, toSide'[e][p].id)
  <2>1. CASE \E q \in DOMAIN toSide[e] : toSide'[e][p] = toSide[e][q]
    <3>1. PICK q \in DOMAIN toSide[e] : toSide'[e][p] = toSide[e][q]
      BY <2>1
    <3>2. toSide[e][q].id \in 1 .. Len(log) /\ HasEdit(e, toSide[e][q].id)
      BY <1>1, <1>4, <3>1 DEF Answered, Ids, SideIds
    <3> QED BY <1>2, <3>1, <3>2
  <2> QED BY <1>4, <2>1
<1>5. ASSUME NEW i \in side'[e].applied PROVE WillHave(e, i) \/ \E j \in 1 .. i - 1 : log'[j].edit = log'[i].edit
  <2>1. CASE i \in side[e].applied
    <3>1. i \in 1 .. Len(log)
      BY <1>1, <2>1 DEF Ids
    <3>2. CASE HasEdit(e, i)
      BY <1>2, <3>1, <3>2
    <3>3. CASE \E j \in 1 .. i - 1 : log[j].edit = log[i].edit
      <4>1. PICK j \in 1 .. i - 1 : log[j].edit = log[i].edit
        BY <3>3
      <4>2. j \in 1 .. Len(log)
        BY <1>1, <3>1
      <4> QED BY <3>1, <4>1, <4>2 DEF LogKept
    <3> QED BY <1>1, <2>1, <3>2, <3>3 DEF Answered
  <2> QED BY <1>5, <2>1
<1>6. Answered(e)'
  BY <1>3, <1>4, <1>5 DEF Answered, HasEdit, WillHave
<1> QED BY <1>6, ReplicasStep

(* The own edits of a shell that goes on as before.                           *)
LEMMA OwnKept ==
  ASSUME Base, Replicas, NEW e \in Editors, UNCHANGED log,
         shell'[e].phase \in {shell[e].phase, "left"}, shell'[e].edits = shell[e].edits,
         shell[e].replica \subseteq shell'[e].replica,
         shell[e].phase = "awaiting" => shell'[e].replica = shell[e].replica
  PROVE  HoldsOwn(e)'
<1>1. HoldsOwn(e)
  BY DEF Replicas
<1> QED BY <1>1 DEF HoldsOwn, NextEdit

(* A step that changes neither the log nor a shell.                          *)
LEMMA SidecarReplicas ==
  ASSUME Base, Base', Replicas, NEW e \in Editors, Others(e), UNCHANGED <<log, shell>>, VersionsKept(e),
         \A p \in DOMAIN toShell'[e] : toShell'[e][p].t = "genesis" =>
            (\E q \in DOMAIN toShell[e] : toShell'[e][p] = toShell[e][q]) \/ toShell'[e][p].id = GenesisId,
         \A p \in DOMAIN toSide'[e] : \E q \in DOMAIN toSide[e] : toSide'[e][p] = toSide[e][q],
         \A i \in side'[e].applied : \/ i \in side[e].applied \/ HasEdit(e, i)
                                     \/ \E j \in 1 .. i - 1 : log[j].edit = log[i].edit
  PROVE  Replicas'
<1>1. LogKept(e)
  BY UnchangedStore
<1>2. HoldsOwn(e)'
  BY OwnKept
<1>3. \A i : HasEdit(e, i) <=> WillHave(e, i)
  BY DEF HasEdit, WillHave
<1>4. \A i \in side'[e].applied : \/ i \in side[e].applied \/ WillHave(e, i)
                                  \/ \E j \in 1 .. i - 1 : log'[j].edit = log'[i].edit
  BY <1>3
<1> QED BY <1>1, <1>2, <1>4, ReplicasFrom

(* A step of the shell that answers nothing.                                 *)
LEMMA ShellReplicas ==
  ASSUME Base, Base', Replicas, NEW e \in Editors, Others(e), UNCHANGED <<log, versions>>,
         side'[e].applied = side[e].applied, toShell'[e] = toShell[e] \/ toShell'[e] = <<>>,
         shell[e].replica \subseteq shell'[e].replica, HoldsOwn(e)',
         \A p \in DOMAIN toSide'[e] : toSide'[e][p].t \in {"applied", "rejected"} =>
            \E q \in DOMAIN toSide[e] : toSide'[e][p] = toSide[e][q]
  PROVE  Replicas'
<1>1. LogKept(e) /\ VersionsKept(e)
  BY UnchangedStore
<1>2. DOMAIN <<>> = {}
  OBVIOUS
<1> QED BY <1>1, <1>2, ReplicasFrom

(* One more message, not an answer.                                          *)
LEMMA OneMore ==
  ASSUME Types, NEW e \in Editors, NEW m \in SideMsg, Told(e, <<m>>), m.t \notin {"applied", "rejected"}
  PROVE  \A p \in DOMAIN toSide'[e] : toSide'[e][p].t \in {"applied", "rejected"} =>
            \E q \in DOMAIN toSide[e] : toSide'[e][p] = toSide[e][q]
<1>1. toSide[e] \in Seq(SideMsg)
  BY EditorFacts
<1>2. <<m>> \in Seq(SideMsg) /\ DOMAIN <<m>> = {1} /\ <<m>>[1] = m
  BY OneFacts
<1>3. toSide'[e] = toSide[e] \o <<m>>
  BY DEF Told
<1> QED BY <1>1, <1>2, <1>3, ConcatMembers

(* A local edit keeps what is claimed in the replica.                      *)
LEMMA EditReplicas ==
  ASSUME Base, Base', Replicas, NEW e \in Editors, Edit(e)
  PROVE  Replicas'
<1>1. Types /\ shell[e].edits \in Nat /\ NextEdit(e) \in Nat
  BY EditorFacts DEF Base
<1>2. /\ Others(e) /\ UNCHANGED <<log, versions, side, toShell, asked, refused>>
      /\ shell[e].phase = "live" /\ EditOf(e) \in AllEdits /\ ShellBut(e, {"replica", "edits"})
      /\ shell'[e].replica = shell[e].replica \cup {EditOf(e)} /\ shell'[e].edits = shell[e].edits + 1
      /\ Told(e, <<[t |-> "update", edit |-> EditOf(e)]>>)
  BY <1>1, EditDoes
<1>3. PICK m : m = [t |-> "update", edit |-> EditOf(e)]
  OBVIOUS
<1>4. EditOf(e) = <<e, NextEdit(e)>> /\ m \in SideMsg /\ m.t = "update"
  BY <1>2, <1>3 DEF EditOf, NextEdit, SideMsg, UpdateMsg
<1>5. HoldsOwn(e) /\ NextEdit(e)' = NextEdit(e) + 1 /\ shell'[e].phase = "live"
  BY <1>1, <1>2 DEF Replicas, NextEdit, ShellBut
<1>6. HoldsOwn(e)'
  <2>1. \A k \in 0 .. NextEdit(e)' - 1 : <<e, k>> \in shell'[e].replica
    <3> SUFFICES ASSUME NEW k \in 0 .. NextEdit(e)' - 1 PROVE <<e, k>> \in shell'[e].replica
      OBVIOUS
    <3>1. k = NextEdit(e) \/ k \in 0 .. NextEdit(e) - 1
      BY <1>1, <1>5
    <3> QED BY <1>2, <1>4, <1>5, <3>1 DEF HoldsOwn
  <2> QED BY <1>2, <1>5, <2>1 DEF HoldsOwn
<1>7. \A p \in DOMAIN toSide'[e] : toSide'[e][p].t \in {"applied", "rejected"} =>
         \E q \in DOMAIN toSide[e] : toSide'[e][p] = toSide[e][q]
  BY <1>1, <1>2, <1>3, <1>4, OneMore
<1> QED BY <1>2, <1>6, <1>7, ShellReplicas

(* A save keeps what is claimed in the replica.                            *)
LEMMA SaveReplicas ==
  ASSUME Base, Base', Replicas, NEW e \in Editors, Save(e)
  PROVE  Replicas'
<1>1. Types
  BY DEF Base
<1>2. PICK m : m = [t |-> "version", file |-> shell[e].replica, resolve |-> {}]
  OBVIOUS
<1>3. /\ Others(e) /\ UNCHANGED <<log, versions, shell, side, toShell, refused>>
      /\ m \in SideMsg /\ Told(e, <<m>>) /\ m.t = "version"
  BY <1>1, <1>2, SaveDoes
<1> QED BY <1>1, <1>3, OneMore, OwnKept, ShellReplicas

(* Publishing a merge keeps what is claimed in the replica.                *)
LEMMA KeepMineReplicas ==
  ASSUME Base, Base', Replicas, NEW e \in Editors, KeepMine(e)
  PROVE  Replicas'
<1>1. Types
  BY DEF Base
<1>2. PICK m : m = [t |-> "version", file |-> shell[e].replica, resolve |-> shell[e].shown.heads]
  OBVIOUS
<1>3. /\ Others(e) /\ UNCHANGED <<log, versions, shell, side, toShell, refused>>
      /\ m \in SideMsg /\ Told(e, <<m>>) /\ m.t = "version"
  BY <1>1, <1>2, KeepMineDoes
<1> QED BY <1>1, <1>3, OneMore, OwnKept, ShellReplicas

(* Asking for a resync keeps what is claimed in the replica.               *)
LEMMA AskResyncReplicas ==
  ASSUME Base, Base', Replicas, NEW e \in Editors, AskResync(e)
  PROVE  Replicas'
<1>1. Types
  BY DEF Base
<1>2. PICK m : m = [t |-> "resync"]
  OBVIOUS
<1>3. /\ Others(e) /\ UNCHANGED <<log, versions, side, toShell, asked, refused>>
      /\ m \in SideMsg /\ Told(e, <<m>>) /\ m.t = "resync" /\ ShellBut(e, {"resynced"})
  BY <1>1, <1>2, AskResyncDoes
<1>4. shell'[e].phase = shell[e].phase /\ shell'[e].edits = shell[e].edits
        /\ shell'[e].replica = shell[e].replica
  BY <1>3 DEF ShellBut
<1> QED BY <1>1, <1>3, <1>4, OneMore, OwnKept, ShellReplicas

(* Leaving the session keeps what is claimed in the replica.               *)
LEMMA LeaveReplicas ==
  ASSUME Base, Base', Replicas, NEW e \in Editors, Leave(e)
  PROVE  Replicas'
<1>1. Types
  BY DEF Base
<1>2. /\ Others(e) /\ UNCHANGED <<log, versions, asked, refused>>
      /\ ShellBut(e, {"phase", "queued"}) /\ shell'[e].phase = "left"
      /\ SideBut(e, {"outbox", "awaiting", "at", "order"})
      /\ toSide'[e] = <<>> /\ toShell'[e] = <<>>
  BY <1>1, LeaveDoes
<1>3. shell'[e].edits = shell[e].edits /\ shell'[e].replica = shell[e].replica
        /\ side'[e].applied = side[e].applied
  BY <1>2 DEF ShellBut, SideBut
<1>4. HoldsOwn(e)'
  BY <1>2, <1>3, OwnKept
<1>5. DOMAIN <<>> = {}
  OBVIOUS
<1> QED BY <1>2, <1>3, <1>4, <1>5, ShellReplicas

(* Taking the heads event keeps what is claimed in the replica.            *)
LEMMA HearHeadsReplicas ==
  ASSUME Base, Base', Replicas, NEW e \in Editors, HearHeads(e)
  PROVE  Replicas'
<1>1. Types
  BY DEF Base
<1>2. /\ Others(e) /\ UNCHANGED <<log, versions, side, toSide, toShell, asked, refused>>
          /\ ShellBut(e, {"shown"})
  BY <1>1, HearHeadsDoes
<1>3. shell'[e].phase = shell[e].phase /\ shell'[e].edits = shell[e].edits
        /\ shell'[e].replica = shell[e].replica
  BY <1>2 DEF ShellBut
<1> QED BY <1>2, <1>3, OwnKept, ShellReplicas

(* What the imports bring, and the answers say.                              *)
LEMMA HeardReplicas ==
  ASSUME Base, Base', Replicas,
         NEW e \in Editors, Others(e), UNCHANGED <<log, versions, side, asked, refused>>,
         toShell[e] # <<>>, toShell'[e] = Tail(toShell[e]),
         shell[e].replica \subseteq shell'[e].replica, HoldsOwn(e)',
         NEW ms \in Seq(SideMsg), Told(e, ms) \/ (ms = <<>> /\ toSide'[e] = toSide[e]),
         \A p \in DOMAIN ms : ms[p].t \in {"applied", "rejected"} => WillHave(e, ms[p].id)
  PROVE  Replicas'
<1>1. toSide[e] \in Seq(SideMsg) /\ toShell[e] \in Seq(ShellMsg)
  BY HeldFacts, EditorFacts
<1>2. LogKept(e) /\ VersionsKept(e)
  BY UnchangedStore
<1>3. \A p \in DOMAIN toShell'[e] : \E q \in DOMAIN toShell[e] : toShell'[e][p] = toShell[e][q]
  BY <1>1, TailMembers
<1>4. \A p \in DOMAIN toSide'[e] : toSide'[e][p].t \in {"applied", "rejected"} =>
            (\E q \in DOMAIN toSide[e] : toSide'[e][p] = toSide[e][q]) \/ WillHave(e, toSide'[e][p].id)
  <2>1. CASE Told(e, ms)
    <3>1. toSide'[e] = toSide[e] \o ms
      BY <2>1 DEF Told
    <3>2. \A p \in DOMAIN (toSide[e] \o ms) :
             \/ p \in DOMAIN toSide[e] /\ (toSide[e] \o ms)[p] = toSide[e][p]
             \/ \E j \in DOMAIN ms : (toSide[e] \o ms)[p] = ms[j]
      BY <1>1, ConcatMembers
    <3> QED BY <3>1, <3>2
  <2>2. CASE toSide'[e] = toSide[e]
    BY <2>2
  <2> QED BY <2>1, <2>2
<1>5. \A i \in side'[e].applied : i \in side[e].applied
  OBVIOUS
<1> QED BY <1>2, <1>3, <1>4, <1>5, ReplicasFrom

(* Taking an event from the pipe keeps what is claimed in the replica.     *)
LEMMA HearReplicas ==
  ASSUME Base, Base', Replicas, NEW e \in Editors, Hear(e)
  PROVE  Replicas'
<1>1. Types /\ Ids(e) /\ Held(e)
  BY HeldFacts DEF Held
<1>2. PICK m \in ShellMsg :
         /\ m = toShell[e][1] /\ (m.t # "file" => m.id \in 1 .. Len(log))
         /\ \/ m.t = "genesis" /\ HeardGenesis(e, m)
            \/ m.t = "update" /\ HeardUpdate(e, m)
            \/ /\ m.t = "file" /\ HeardFile(e)
               /\ AnswersToQueue(e) \in Seq(SideMsg) /\ DOMAIN shell[e].queued = 1 .. Len(shell[e].queued)
               /\ Len(AnswersToQueue(e)) = Len(shell[e].queued) /\ Len(shell[e].queued) \in Nat
  BY <1>1, HearDoes
<1>3. /\ Others(e) /\ UNCHANGED <<log, versions, side, asked, refused>>
      /\ toShell[e] # <<>> /\ toShell'[e] = Tail(toShell[e])
  BY <1>1, HearDoes
<1>4. 1 \in DOMAIN toShell[e] /\ shell[e].phase # "left" /\ HoldsOwn(e) /\ Answered(e)
  BY <1>1, <1>3, EditorFacts, TailMembers DEF Held, Closing, Replicas
<1>5. \A i \in 1 .. Len(log) : log[i].edit \in Imported({i}) \cup BadEdits
  BY DEF Imported
<1>6. CASE m.t = "genesis" /\ HeardGenesis(e, m)
  <2>1. m.id = GenesisId /\ m.id \in 1 .. Len(log) /\ m.id \in Nat
    <3>1. m.t # "file"
      BY <1>6
    <3> QED BY <1>2, <1>4, <1>6, <3>1, EventTypes DEF Answered
  <2>2. log[m.id].edit = Genesis
    BY <2>1, LogFacts
  <2>3. PICK a, f : a = [t |-> "applied", id |-> m.id] /\ f = [t |-> "fetch"]
    OBVIOUS
  <2>4. a \in SideMsg /\ f \in SideMsg /\ a.t = "applied" /\ a.id = m.id /\ f.t = "fetch"
    BY <2>1, <2>3, AnswerTypes DEF SideMsg, PlainMsg
  <2>5. CASE shell[e].phase = "awaiting"
    <3>1. /\ shell'[e].phase = "verifying" /\ ShellBut(e, {"phase", "replica"})
              /\ shell'[e].replica = {Genesis}
          /\ Told(e, <<a, f>>)
      BY <1>6, <2>3, <2>5 DEF HeardGenesis
    <3>2. <<a, f>> \in Seq(SideMsg) /\ DOMAIN <<a, f>> = {1, 2} /\ <<a, f>>[1] = a /\ <<a, f>>[2] = f
      BY <2>4, TwoFacts
    <3>3. shell[e].replica = {} /\ NextEdit(e) = 0 /\ shell'[e].edits = shell[e].edits
      BY <1>4, <2>5, <3>1 DEF HoldsOwn, ShellBut
    <3>4. HoldsOwn(e)'
      <4>1. NextEdit(e)' = 0
        BY <3>3 DEF NextEdit
      <4>2. \A i \in 1 .. Len(log) : log[i].by # e
        BY <1>4, <3>3 DEF HoldsOwn
      <4> QED BY <1>3, <3>1, <4>1, <4>2 DEF HoldsOwn
    <3>5. WillHave(e, m.id)
      BY <1>3, <2>2, <3>1 DEF WillHave
    <3>6. \A p \in DOMAIN <<a, f>> : <<a, f>>[p].t \in {"applied", "rejected"} => WillHave(e, <<a, f>>[p].id)
      BY <2>4, <3>2, <3>5
    <3>7. shell[e].replica \subseteq shell'[e].replica
      BY <3>3
    <3> QED BY <1>3, <3>1, <3>2, <3>4, <3>6, <3>7, HeardReplicas
  <2>6. CASE shell[e].phase # "awaiting"
    <3>1. ShellBut(e, {}) /\ Told(e, <<a>>)
      BY <1>6, <2>3, <2>6 DEF HeardGenesis
    <3>2. shell'[e].phase = shell[e].phase /\ shell'[e].edits = shell[e].edits
            /\ shell'[e].replica = shell[e].replica
      BY <3>1 DEF ShellBut
    <3>3. <<a>> \in Seq(SideMsg) /\ DOMAIN <<a>> = {1} /\ <<a>>[1] = a
      BY <2>4, OneFacts
    <3>4. WillHave(e, m.id)
      BY <1>3, <1>4, <2>2, <2>6, <3>2 DEF HoldsOwn, WillHave
    <3>5. \A p \in DOMAIN <<a>> : <<a>>[p].t \in {"applied", "rejected"} => WillHave(e, <<a>>[p].id)
      BY <2>4, <3>3, <3>4
    <3>6. HoldsOwn(e)'
      BY <1>3, <3>2, OwnKept
    <3> QED BY <1>3, <3>1, <3>2, <3>3, <3>5, <3>6, HeardReplicas
  <2> QED BY <2>5, <2>6
<1>7. CASE m.t = "update" /\ HeardUpdate(e, m)
  <2>1. m.id \in 1 .. Len(log) /\ m.id \in Nat
    <3>1. m.t # "file"
      BY <1>7
    <3> QED BY <1>2, <3>1, EventTypes
  <2>2. CASE shell[e].phase = "live"
    <3>1. PICK a : a = Answer(m.id)
      OBVIOUS
    <3>2. /\ ShellBut(e, {"replica"}) /\ shell'[e].replica = shell[e].replica \cup Imported({m.id})
          /\ Told(e, <<a>>)
      BY <1>7, <2>2, <3>1 DEF HeardUpdate
    <3>3. shell'[e].phase = shell[e].phase /\ shell'[e].edits = shell[e].edits
      BY <3>2 DEF ShellBut
    <3>4. a \in SideMsg /\ a.id = m.id
      BY <2>1, <3>1, AnswerTypes
    <3>5. <<a>> \in Seq(SideMsg) /\ DOMAIN <<a>> = {1} /\ <<a>>[1] = a
      BY <3>4, OneFacts
    <3>6. WillHave(e, m.id)
      BY <1>3, <1>5, <2>1, <3>2 DEF WillHave
    <3>7. \A p \in DOMAIN <<a>> : <<a>>[p].t \in {"applied", "rejected"} => WillHave(e, <<a>>[p].id)
      BY <3>4, <3>5, <3>6
    <3>8. HoldsOwn(e)' /\ shell[e].replica \subseteq shell'[e].replica
      BY <1>3, <2>2, <3>2, <3>3, OwnKept
    <3> QED BY <1>3, <3>2, <3>5, <3>7, <3>8, HeardReplicas
  <2>3. CASE shell[e].phase # "live"
    <3>1. ShellBut(e, {"queued"}) /\ toSide'[e] = toSide[e]
      BY <1>7, <2>3 DEF HeardUpdate
    <3>2. shell'[e].phase = shell[e].phase /\ shell'[e].edits = shell[e].edits
            /\ shell'[e].replica = shell[e].replica
      BY <3>1 DEF ShellBut
    <3>3. HoldsOwn(e)' /\ <<>> \in Seq(SideMsg) /\ DOMAIN <<>> = {}
      BY <1>3, <3>2, OwnKept
    <3> QED BY <1>3, <3>1, <3>2, <3>3, HeardReplicas
  <2> QED BY <2>2, <2>3
<1>8. CASE m.t = "file" /\ HeardFile(e)
  <2>1. PICK ms : ms = AnswersToQueue(e)
    OBVIOUS
  <2>2. /\ Told(e, ms) /\ ms \in Seq(SideMsg) /\ DOMAIN ms = DOMAIN shell[e].queued
        /\ \A i \in DOMAIN ms : ms[i] = Answer(shell[e].queued[i])
        /\ shell'[e].phase = "live" /\ ShellBut(e, {"phase", "queued", "replica"})
        /\ shell'[e].replica = shell[e].replica \cup Imported(Range(shell[e].queued))
    BY <1>2, <1>8, <2>1 DEF HeardFile, AnswersToQueue
  <2>3. \A p \in DOMAIN ms : ms[p].t \in {"applied", "rejected"} => WillHave(e, ms[p].id)
    <3> SUFFICES ASSUME NEW p \in DOMAIN ms PROVE WillHave(e, ms[p].id)
      OBVIOUS
    <3>1. PICK k : k = shell[e].queued[p]
      OBVIOUS
    <3>2. k \in 1 .. Len(log) /\ k \in Range(shell[e].queued)
      BY <1>1, <2>2, <3>1 DEF Ids, Range
    <3>3. k \in Nat
      BY <3>2
    <3>4. ms[p].id = k
      BY <2>2, <3>1, <3>3, AnswerTypes
    <3>5. log[k].edit \in Imported(Range(shell[e].queued)) \cup BadEdits
      BY <3>2 DEF Imported
    <3> QED BY <1>3, <2>2, <3>4, <3>5 DEF WillHave
  <2>4. shell'[e].edits = shell[e].edits
    BY <2>2 DEF ShellBut
  <2>5. HoldsOwn(e)'
    <3>1. shell[e].phase # "awaiting"
      BY <1>1, <1>2, <1>4, <1>8 DEF Held, Pipes, Has
    <3>2. NextEdit(e)' = NextEdit(e)
      BY <2>4 DEF NextEdit
    <3> QED BY <1>3, <1>4, <2>2, <3>1, <3>2 DEF HoldsOwn
  <2> QED BY <1>3, <2>2, <2>3, <2>5, HeardReplicas
<1> QED BY <1>2, <1>6, <1>7, <1>8

(* Taking a command from the pipe keeps what is claimed in the replica.    *)
LEMMA OnMsgReplicas ==
  ASSUME Base, Base', Replicas, NEW e \in Editors, OnMsg(e)
  PROVE  Replicas'
<1>1. /\ Others(e) /\ UNCHANGED <<log, versions, shell, asked, refused>>
      /\ toSide[e] # <<>> /\ toSide'[e] = Tail(toSide[e])
  BY OnMsgDoes
<1>2. PICK m \in SideMsg :
         /\ m = toSide[e][1] /\ 1 \in DOMAIN toSide[e]
         /\ \/ m.t = "update" /\ GotUpdate(e, m)
            \/ m.t = "version" /\ GotVersion(e, m)
            \/ m.t \in {"applied", "rejected"} /\ GotAnswer(e, m)
            \/ m.t = "fetch" /\ GotFetch(e)
            \/ m.t = "resync" /\ GotResync(e)
  BY OnMsgDoes
<1>3. Types /\ toSide[e] \in Seq(SideMsg) /\ toShell[e] \in Seq(ShellMsg) /\ VersionsKept(e) /\ Answered(e)
  BY <1>1, HeldFacts, EditorFacts, UnchangedStore DEF Replicas
<1>4. \A p \in DOMAIN toSide'[e] : \E q \in DOMAIN toSide[e] : toSide'[e][p] = toSide[e][q]
  BY <1>1, <1>3, TailMembers
<1>5. \A i \in side'[e].applied : i \in side[e].applied \/ HasEdit(e, i)
  <2>1. CASE m.t = "update" /\ GotUpdate(e, m)
    BY <2>1 DEF GotUpdate, SideBut
  <2>2. CASE m.t = "version" /\ GotVersion(e, m)
    BY <2>2 DEF GotVersion, SideBut
  <2>3. CASE m.t \in {"applied", "rejected"} /\ GotAnswer(e, m)
    <3>1. HasEdit(e, m.id)
      BY <1>2, <1>3, <2>3 DEF Answered
    <3> QED BY <2>3, <3>1 DEF GotAnswer
  <2>4. CASE m.t = "fetch" /\ GotFetch(e)
    BY <2>4 DEF GotFetch
  <2>5. CASE m.t = "resync" /\ GotResync(e)
    BY <2>5 DEF GotResync
  <2> QED BY <1>2, <2>1, <2>2, <2>3, <2>4, <2>5
<1>6. \A p \in DOMAIN toShell'[e] : toShell'[e][p].t = "genesis" =>
         \E q \in DOMAIN toShell[e] : toShell'[e][p] = toShell[e][q]
  <2>1. CASE UNCHANGED toShell
    BY <2>1
  <2>2. CASE GotFetch(e)
    <3>1. PICK f : f = [t |-> "file"]
      OBVIOUS
    <3>2. f \in ShellMsg /\ f.t = "file"
      BY <3>1 DEF ShellMsg, FileMsg
    <3>3. <<f>> \in Seq(ShellMsg) /\ DOMAIN <<f>> = {1} /\ <<f>>[1] = f
      BY <3>2, OneFacts
    <3>4. toShell'[e] = toShell[e] \o <<f>>
      BY <2>2, <3>1 DEF GotFetch, Sent
    <3>5. \A p \in DOMAIN (toShell[e] \o <<f>>) :
             \/ p \in DOMAIN toShell[e] /\ (toShell[e] \o <<f>>)[p] = toShell[e][p]
             \/ \E j \in DOMAIN <<f>> : (toShell[e] \o <<f>>)[p] = <<f>>[j]
      BY <1>3, <3>3, ConcatMembers
    <3> QED BY <3>2, <3>3, <3>4, <3>5
  <2> QED BY <1>2, <2>1, <2>2 DEF GotUpdate, GotVersion, GotAnswer, GotResync
<1> QED BY <1>1, <1>3, <1>4, <1>5, <1>6, SidecarReplicas

(* One more update in the log, e's own.                                      *)
LEMMA LogStepReplicas ==
  ASSUME Base, Base', Replicas, NEW e \in Editors, Sends(e, "update"), LogGets(e), Others(e),
         UNCHANGED <<versions, shell, toSide, toShell, asked, refused>>,
         SideBut(e, {"outbox", "at", "order", "applied"}),
         side'[e].outbox \in {side[e].outbox, Tail(side[e].outbox)}, side'[e].order = 0,
         side'[e].applied \subseteq side[e].applied \cup {Len(log) + 1}
  PROVE  Replicas'
<1>1. PICK n, k : n = Len(log) /\ k = First1(e).seq
  OBVIOUS
<1>2. /\ n \in Nat /\ Len(log') = n + 1 /\ \A i \in 1 .. n : log'[i] = log[i]
      /\ log'[n + 1] = [by |-> e, seq |-> k, edit |-> <<e, k>>] /\ k < side[e].nextSeq
  BY <1>1, LogStepBase DEF Base
<1>3. /\ HoldsOwn(e) /\ First1(e) \in UpdateItem /\ side[e].nextSeq \in Nat /\ NextEdit(e) \in Nat
      /\ shell[e].phase # "left" /\ Pipes(e)
  BY SendsDoes, HeldFacts, EditorFacts DEF Replicas, Held
<1>4. k \in 0 .. NextEdit(e) - 1
  <2>1. k \in Nat /\ side[e].nextSeq <= NextEdit(e)
    BY <1>1, <1>3, LogFacts DEF UpdateItem, Pipes
  <2> QED BY <1>2, <1>3, <2>1
<1>5. <<e, k>> \in shell[e].replica
  BY <1>3, <1>4 DEF HoldsOwn
<1>6. LogKept(e) /\ VersionsKept(e)
  <2>1. \A i \in 1 .. n + 1 : i \in 1 .. n \/ i = n + 1
    BY <1>2
  <2>2. n <= n + 1
    BY <1>2
  <2> QED BY <1>1, <1>2, <2>1, <2>2, UnchangedStore DEF LogKept
<1>7. HoldsOwn(e)'
  <2>1. \A i \in 1 .. n + 1 : i \in 1 .. n \/ i = n + 1
    BY <1>2
  <2>2. \A i \in 1 .. Len(log') : log'[i].by = e => log'[i].edit \in shell[e].replica
    BY <1>1, <1>2, <1>3, <1>5, <2>1 DEF HoldsOwn
  <2> QED BY <1>3, <2>2 DEF HoldsOwn, NextEdit
<1>8. \A i \in side'[e].applied : i \in side[e].applied \/ WillHave(e, i)
  BY <1>1, <1>2, <1>5 DEF WillHave
<1> QED BY <1>6, <1>7, <1>8, ReplicasFrom

(* An update the store accepts keeps what is claimed in the replica.       *)
LEMMA UpdateAcceptedReplicas ==
  ASSUME Base, Base', Replicas, NEW e \in Editors, UpdateAccepted(e)
  PROVE  Replicas'
<1>1. Types
  BY DEF Base
<1>2. /\ Others(e) /\ UNCHANGED <<versions, shell, toSide, toShell, asked, refused>>
      /\ LogGets(e) /\ SideBut(e, {"outbox", "at", "order", "applied"}) /\ PoppedOff(e)
      /\ side'[e].applied = side[e].applied \cup {Len(log) + 1}
  BY <1>1, UpdateAcceptedDoes
<1>3. Sends(e, "update")
  BY DEF UpdateAccepted
<1> QED BY <1>2, <1>3, LogStepReplicas DEF PoppedOff

(* An update whose answer is lost keeps what is claimed in the replica.    *)
LEMMA UpdateAnswerLostReplicas ==
  ASSUME Base, Base', Replicas, NEW e \in Editors, UpdateAnswerLost(e)
  PROVE  Replicas'
<1>1. Types
  BY DEF Base
<1>2. /\ Others(e) /\ UNCHANGED <<versions, shell, toSide, toShell, asked, refused>>
      /\ LogGets(e) /\ SideBut(e, {"at", "order"}) /\ BackOff(e)
  BY <1>1, UpdateAnswerLostDoes
<1>3. Sends(e, "update")
  BY DEF UpdateAnswerLost
<1>4. SideBut(e, {"outbox", "at", "order", "applied"}) /\ side'[e].outbox = side[e].outbox
      /\ side'[e].applied = side[e].applied
  BY <1>2 DEF SideBut
<1> QED BY <1>2, <1>3, <1>4, LogStepReplicas DEF BackOff

(* A step that reads and answers nothing.                                    *)
LEMMA StillReplicas ==
  ASSUME Base, Base', Replicas, NEW e \in Editors, Others(e),
         UNCHANGED <<log, shell, toSide, toShell>>, VersionsKept(e), side'[e].applied = side[e].applied
  PROVE  Replicas'
BY SidecarReplicas

(* An update the store refuses keeps what is claimed in the replica.       *)
LEMMA UpdateRefusedReplicas ==
  ASSUME Base, Base', Replicas, NEW e \in Editors, UpdateRefused(e)
  PROVE  Replicas'
<1>1. Types
  BY DEF Base
<1> QED BY <1>1, UpdateRefusedDoes, UnchangedStore, StillReplicas DEF SideBut

(* A version the store refuses keeps what is claimed in the replica.       *)
LEMMA VersionRefusedReplicas ==
  ASSUME Base, Base', Replicas, NEW e \in Editors, VersionRefused(e)
  PROVE  Replicas'
<1>1. Types
  BY DEF Base
<1> QED BY <1>1, VersionRefusedDoes, UnchangedStore, StillReplicas DEF SideBut

(* Reading the log for a save keeps what is claimed in the replica.        *)
LEMMA ReadOrderReplicas ==
  ASSUME Base, Base', Replicas, NEW e \in Editors, ReadOrder(e)
  PROVE  Replicas'
<1>1. Types
  BY DEF Base
<1> QED BY <1>1, ReadOrderDoes, UnchangedStore, StillReplicas DEF SideBut

(* A save that fails half way keeps what is claimed in the replica.        *)
LEMMA VersionFailedReplicas ==
  ASSUME Base, Base', Replicas, NEW e \in Editors, VersionFailed(e)
  PROVE  Replicas'
<1>1. Types
  BY DEF Base
<1> QED BY <1>1, VersionFailedDoes, UnchangedStore, StillReplicas DEF SideBut

(* Reading the versions keeps what is claimed in the replica.              *)
LEMMA PollVersionsReplicas ==
  ASSUME Base, Base', Replicas, NEW e \in Editors, PollVersions(e)
  PROVE  Replicas'
BY PollVersionsDoes, UnchangedStore, StillReplicas DEF SideBut

(* A read that fails keeps what is claimed in the replica.                 *)
LEMMA PollFailedReplicas ==
  ASSUME Base, Base', Replicas, NEW e \in Editors, PollFailed(e)
  PROVE  Replicas'
BY PollFailedDoes, UnchangedStore, StillReplicas DEF SideBut

(* Reading the updates keeps what is claimed in the replica.               *)
LEMMA PollUpdatesReplicas ==
  ASSUME Base, Base', Replicas, NEW e \in Editors, PollUpdates(e)
  PROVE  Replicas'
<1>1. /\ Others(e) /\ UNCHANGED <<log, versions, shell, toSide, asked, refused>>
      /\ side'[e].applied = side[e].applied \cup Own(e) \cup Duplicates(side[e], Len(log))
      /\ Sent(e, UpdateEvents(Taken(e)))
  BY PollUpdatesDoes
<1>2. PICK q : q = UpdateEvents(Taken(e))
  OBVIOUS
<1>3. /\ Taken(e) \in SUBSET (1 .. Len(log)) /\ Own(e) \in SUBSET (1 .. Len(log))
      /\ Duplicates(side[e], Len(log)) \in SUBSET (1 .. Len(log))
      /\ \A i, j \in Taken(e) : log[i].by = log[j].by /\ log[i].seq = log[j].seq => i = j
  BY TakenFacts
<1>4. /\ q \in Seq(ShellMsg) /\ DOMAIN q = 1 .. Len(q)
      /\ \A p \in 1 .. Len(q) : q[p].t = IF q[p].id = GenesisId THEN "genesis" ELSE "update"
  BY <1>2, <1>3, EventsFacts
<1>5. toShell[e] \in Seq(ShellMsg) /\ VersionsKept(e) /\ HoldsOwn(e)
  BY <1>1, HeldFacts, EditorFacts, UnchangedStore DEF Replicas
<1>6. \A p \in DOMAIN toShell'[e] : toShell'[e][p].t = "genesis" =>
            (\E r \in DOMAIN toShell[e] : toShell'[e][p] = toShell[e][r]) \/ toShell'[e][p].id = GenesisId
  <2>1. toShell'[e] = toShell[e] \o q
    BY <1>1, <1>2 DEF Sent
  <2>2. \A p \in DOMAIN (toShell[e] \o q) :
             \/ p \in DOMAIN toShell[e] /\ (toShell[e] \o q)[p] = toShell[e][p]
             \/ \E j \in DOMAIN q : (toShell[e] \o q)[p] = q[j]
    BY <1>4, <1>5, ConcatMembers
  <2>3. \A j \in DOMAIN q : q[j].t = "genesis" => q[j].id = GenesisId
    BY <1>4
  <2> QED BY <2>1, <2>2, <2>3
<1>7. \A i \in side'[e].applied : \/ i \in side[e].applied \/ HasEdit(e, i)
                                  \/ \E j \in 1 .. i - 1 : log[j].edit = log[i].edit
  <2>1. \A i \in Own(e) : HasEdit(e, i)
    BY <1>3, <1>5 DEF Own, HoldsOwn, HasEdit
  <2>2. \A i \in Duplicates(side[e], Len(log)) : \E j \in 1 .. i - 1 : log[j].edit = log[i].edit
    BY DuplicatesFacts
  <2> QED BY <1>1, <2>1, <2>2
<1> QED BY <1>1, <1>5, <1>6, <1>7, SidecarReplicas

(* A prefix without holes is in the replica, the second copies in it too.     *)
LEMMA PrefixIsHeld ==
  ASSUME Base, NEW e \in Editors, Answered(e), NEW k \in Nat, 1 .. k \subseteq side[e].applied
  PROVE  \A i \in 1 .. k : i \in 1 .. Len(log) /\ HasEdit(e, i)
<1>1. side[e].applied \subseteq 1 .. Len(log)
  BY HeldSide
<1>2. \A i \in 1 .. k : HasEdit(e, i)
  <2> DEFINE Miss == {i \in 1 .. k : ~HasEdit(e, i)}
  <2> SUFFICES ASSUME Miss # {} PROVE FALSE
    OBVIOUS
  <2>1. Miss \subseteq Nat
    OBVIOUS
  <2>2. PICK i \in Miss : \A j \in Miss : i <= j
    <3> HIDE DEF Miss
    <3> QED BY <2>1, LeastNatural
  <2>3. PICK j \in 1 .. i - 1 : log[j].edit = log[i].edit
    BY <2>2 DEF Answered
  <2>4. j \in 1 .. k /\ ~(i <= j)
    BY <2>2, <2>3
  <2>5. HasEdit(e, j)
    BY <2>2, <2>4
  <2> QED BY <2>2, <2>3, <2>5 DEF HasEdit
<1> QED BY <1>1, <1>2

(* A stored version claims what its writer has.                            *)
LEMMA VersionStepReplicas ==
  ASSUME Base, Base', Replicas, NEW e \in Editors, Sends(e, "version"), StoreVersion(e), Others(e),
         UNCHANGED <<log, shell, toSide, toShell, refused>>, side'[e].applied = side[e].applied
  PROVE  Replicas'
<1>1. Types
  BY DEF Base
<1>2. PICK n, t : n = Len(versions) /\ t = NewVersion(e).through
  OBVIOUS
<1>3. /\ versions' = Append(versions, NewVersion(e)) /\ Len(versions') = n + 1
          /\ versions'[n + 1] = NewVersion(e)
      /\ n \in Nat /\ NewVersion(e) \in VersionT /\ versions \in Seq(VersionT)
  BY <1>1, <1>2, StoreVersionDoes DEF Types
<1>4. t = Prefix(side[e].applied, side[e].order) /\ NewVersion(e).by = e /\ side[e].order \in Nat
  BY <1>1, <1>2, EditorFacts DEF NewVersion, Through, SideT
<1>5. t \in Nat /\ 1 .. t \subseteq side[e].applied
  BY <1>4, PrefixFacts
<1>6. \A i \in 1 .. t : i \in 1 .. Len(log) /\ HasEdit(e, i)
  BY <1>5, PrefixIsHeld DEF Replicas
<1>7. VersionsKept(e)
  <2>1. \A v \in 1 .. n : versions'[v] = versions[v]
    BY <1>2, <1>3, AppendFacts
  <2>2. \A v \in 1 .. n + 1 : v \in 1 .. n \/ v = n + 1
    BY <1>3
  <2> QED BY <1>2, <1>3, <1>4, <1>6, <2>1, <2>2 DEF VersionsKept
<1> QED BY <1>7, StillReplicas

(* A version the store accepts keeps what is claimed in the replica.       *)
LEMMA VersionAcceptedReplicas ==
  ASSUME Base, Base', Replicas, NEW e \in Editors, VersionAccepted(e)
  PROVE  Replicas'
<1>1. Types
  BY DEF Base
<1> QED BY <1>1, VersionAcceptedDoes, VersionStepReplicas DEF SideBut

(* A version whose answer is lost keeps what is claimed in the replica.    *)
LEMMA VersionAnswerLostReplicas ==
  ASSUME Base, Base', Replicas, NEW e \in Editors, VersionAnswerLost(e)
  PROVE  Replicas'
<1>1. Types
  BY DEF Base
<1> QED BY <1>1, VersionAnswerLostDoes, VersionStepReplicas DEF SideBut

(* An editor initially.                                                    *)
LEMMA InitEditor ==
  ASSUME Init, NEW e \in Editors
  PROVE  /\ shell[e].phase = (IF e = Sharer THEN "live" ELSE "awaiting") /\ shell[e].queued = <<>>
         /\ shell[e].replica = (IF e = Sharer THEN {Genesis} ELSE {}) /\ shell[e].edits = 0
         /\ shell[e].shown = [heads |-> {}, covered |-> {}] /\ shell[e].resynced = FALSE
         /\ side[e].session = (e = Sharer) /\ side[e].applied = (IF e = Sharer THEN {GenesisId} ELSE {})
         /\ side[e].awaiting = {} /\ side[e].mine = (IF e = Sharer THEN {Root} ELSE {})
         /\ side[e].opened = (IF e = Sharer THEN Root ELSE 0) /\ side[e].known = {} /\ side[e].heads = {}
         /\ side[e].told = [heads |-> {}, covered |-> {}] /\ side[e].nextSeq = (IF e = Sharer THEN 1 ELSE 0)
         /\ side[e].pos = [s \in Editors |-> -1] /\ side[e].stopped = {}
         /\ side[e].seen = 0 /\ side[e].outbox = <<>> /\ side[e].order = 0 /\ side[e].at = "loop"
         /\ toSide[e] = <<>> /\ toShell[e] = <<>>
<1>1. shell[e] = NewShell(e) /\ side[e] = NewSide(e) /\ toSide[e] = <<>> /\ toShell[e] = <<>>
  BY DEF Init
<1>2. /\ shell[e].phase = (IF e = Sharer THEN "live" ELSE "awaiting") /\ shell[e].queued = <<>>
      /\ shell[e].replica = (IF e = Sharer THEN {Genesis} ELSE {}) /\ shell[e].edits = 0
      /\ shell[e].shown = [heads |-> {}, covered |-> {}] /\ shell[e].resynced = FALSE
  BY <1>1 DEF NewShell
<1>3. /\ side[e].session = (e = Sharer) /\ side[e].applied = (IF e = Sharer THEN {GenesisId} ELSE {})
      /\ side[e].awaiting = {} /\ side[e].mine = (IF e = Sharer THEN {Root} ELSE {})
      /\ side[e].opened = (IF e = Sharer THEN Root ELSE 0) /\ side[e].known = {} /\ side[e].heads = {}
      /\ side[e].told = [heads |-> {}, covered |-> {}] /\ side[e].nextSeq = (IF e = Sharer THEN 1 ELSE 0)
      /\ side[e].pos = [s \in Editors |-> -1] /\ side[e].stopped = {}
      /\ side[e].seen = 0 /\ side[e].outbox = <<>> /\ side[e].order = 0 /\ side[e].at = "loop"
  BY <1>1 DEF NewSide
<1> QED BY <1>1, <1>2, <1>3

(* Replicas holds initially.                                               *)
LEMMA InitReplicas == Init => Replicas
<1> SUFFICES ASSUME Init PROVE Replicas
  OBVIOUS
<1>1. Len(log) = 1 /\ log[1] = [by |-> Sharer, seq |-> 0, edit |-> Genesis]
  BY DEF Init
<1>2. Claims
  <2>1. Len(versions) = 1 /\ versions[1].through = 0
    BY DEF Init
  <2> QED BY <2>1 DEF Claims
<1>3. \A e \in Editors : shell[e] = NewShell(e) /\ side[e] = NewSide(e) /\ toSide[e] = <<>>
        /\ toShell[e] = <<>>
  BY DEF Init
<1>4. ASSUME NEW e \in Editors PROVE HoldsOwn(e)
  <2>1. /\ shell[e].edits = 0 /\ shell[e].phase = (IF e = Sharer THEN "live" ELSE "awaiting")
        /\ shell[e].replica = (IF e = Sharer THEN {Genesis} ELSE {})
    BY InitEditor
  <2>2. CASE e = Sharer
    <3>1. NextEdit(e) = 1
      BY <2>1, <2>2 DEF NextEdit
    <3>2. \A k \in 0 .. 1 - 1 : k = 0
      OBVIOUS
    <3> QED BY <1>1, <2>1, <2>2, <3>1, <3>2 DEF HoldsOwn, Genesis
  <2>3. CASE e # Sharer
    <3>1. NextEdit(e) = 0
      BY <2>1, <2>3 DEF NextEdit
    <3> QED BY <1>1, <2>1, <2>3, <3>1 DEF HoldsOwn
  <2> QED BY <2>2, <2>3
<1>5. ASSUME NEW e \in Editors PROVE Answered(e)
  <2>1. DOMAIN <<>> = {}
    OBVIOUS
  <2>2. \A i \in side[e].applied : HasEdit(e, i)
    <3>1. /\ side[e].applied = (IF e = Sharer THEN {GenesisId} ELSE {})
          /\ shell[e].replica = (IF e = Sharer THEN {Genesis} ELSE {})
      BY InitEditor
    <3>2. log[GenesisId].edit = Genesis
      BY <1>1 DEF GenesisId
    <3> QED BY <3>1, <3>2 DEF HasEdit
  <2> QED BY <1>3, <2>1, <2>2 DEF Answered
<1> QED BY <1>2, <1>4, <1>5 DEF Replicas

(* Every step keeps Replicas.                                              *)
LEMMA NextReplicas == Base /\ Base' /\ Replicas /\ [Next]_vars => Replicas'
<1> SUFFICES ASSUME Base, Base', Replicas, [Next]_vars PROVE Replicas'
  OBVIOUS
<1>1. CASE UNCHANGED vars
  BY <1>1 DEF vars, Replicas, Claims, HoldsOwn, Answered, HasEdit, NextEdit
<1>2. ASSUME NEW e \in Editors, ShellStep(e) PROVE Replicas'
  BY <1>2, EditReplicas, SaveReplicas, KeepMineReplicas, AskResyncReplicas, LeaveReplicas, HearReplicas,
     HearHeadsReplicas DEF ShellStep
<1>3. ASSUME NEW e \in Editors, FlushStep(e) PROVE Replicas'
  BY <1>3, UpdateAcceptedReplicas, UpdateAnswerLostReplicas, UpdateRefusedReplicas, ReadOrderReplicas,
     VersionAcceptedReplicas, VersionAnswerLostReplicas, VersionRefusedReplicas,
     VersionFailedReplicas DEF FlushStep
<1>4. ASSUME NEW e \in Editors, PollStep(e) PROVE Replicas'
  BY <1>4, PollVersionsReplicas, PollUpdatesReplicas, PollFailedReplicas DEF PollStep
<1> QED BY <1>1, <1>2, <1>3, <1>4, OnMsgReplicas DEF Next

(* Base and Replicas are invariants.                                       *)
LEMMA ReplicasHold == Spec => [](Base /\ Replicas)
<1>1. Init => Base /\ Replicas
  BY InitBase, InitReplicas
<1>2. Base /\ Replicas /\ [Next]_vars => Base' /\ Replicas'
  BY NextBase, NextReplicas
<1> QED BY <1>1, <1>2, PTL DEF Spec

(* What a sidecar counts as applied (Held::applied) is in its shell's      *)
(* replica, is rejected by it, or is a second copy: the sidecar's          *)
(* bookkeeping never runs ahead of the document.                           *)
THEOREM AppliedIsInTheReplica == Spec => []AppliedIsHeld
<1>1. Base /\ Replicas => AppliedIsHeld
  BY DEF Replicas, Answered, HasEdit, AppliedIsHeld
<1> QED BY <1>1, ReplicasHold, PTL

(* What a version claims to cover (through) was in its writer's replica:   *)
(* send_one never claims an update the writer has not got.                 *)
THEOREM ClaimsAreTrue == Spec => []WriterHoldsItsClaim
<1>1. Base /\ Replicas => WriterHoldsItsClaim
  <2> SUFFICES ASSUME Base, Replicas PROVE WriterHoldsItsClaim
    OBVIOUS
  <2>1. DOMAIN versions = 1 .. Len(versions)
    BY SeqFacts DEF Base, Types
  <2> QED BY <2>1 DEF Replicas, Claims, HasEdit, WriterHoldsItsClaim
<1> QED BY <1>1, ReplicasHold, PTL

-----------------------------------------------------------------------------
(* 3. The heads that are told                                              *)

HeadsTold(e) ==
  shell[e].phase # "left" /\ side[e].at # "polling" /\ side[e].pos[Sharer] # -1 =>
     side[e].told = HeadsReport(versions, side[e])

VersionsStay ==
  Len(versions) <= Len(versions') /\ \A v \in 1 .. Len(versions) : versions'[v] = versions[v]

(* The versions that are stored stay.                                      *)
LEMMA StayFacts ==
  ASSUME Base
  PROVE  /\ UNCHANGED versions => VersionsStay
         /\ \A e \in Editors : Sends(e, "version") /\ StoreVersion(e) => VersionsStay
<1>1. Types /\ Len(versions) \in Nat
  BY SeqFacts DEF Base, Types
<1>2. ASSUME NEW e \in Editors, Sends(e, "version"), StoreVersion(e) PROVE VersionsStay
  <2>1. /\ versions' = Append(versions, NewVersion(e)) /\ NewVersion(e) \in VersionT
        /\ Len(versions') = Len(versions) + 1 /\ versions \in Seq(VersionT)
    BY <1>1, <1>2, StoreVersionDoes DEF Types
  <2>2. \A v \in 1 .. Len(versions) : versions'[v] = versions[v]
    BY <2>1, AppendFacts
  <2> QED BY <1>1, <2>1, <2>2 DEF VersionsStay
<1> QED BY <1>1, <1>2 DEF VersionsStay

(* The report depends on what the sidecar read, not on what is stored since. *)
LEMMA PrefixKept ==
  ASSUME NEW n \in Nat, NEW a, NEW b, a \cap (1 .. n) = b \cap (1 .. n)
  PROVE  Prefix(a, n) = Prefix(b, n)
<1>1. \A k \in 0 .. n : 1 .. k \subseteq 1 .. n
  OBVIOUS
<1>2. \A k \in 0 .. n : 1 .. k \subseteq a <=> 1 .. k \subseteq b
  BY <1>1
<1>3. {k \in 0 .. n : 1 .. k \subseteq a} = {k \in 0 .. n : 1 .. k \subseteq b}
  BY <1>2
<1> QED BY <1>3 DEF Prefix

(* The report depends on the heads, the own versions and the prefix only.  *)
LEMMA ReportKept ==
  ASSUME NEW vs, NEW ws, NEW s, NEW t, \A h \in s.heads : vs[h].through = ws[h].through,
         t.heads = s.heads, t.told = s.told, t.mine = s.mine,
         Prefix(t.applied, t.seen) = Prefix(s.applied, s.seen)
  PROVE  HeadsReport(ws, t) = HeadsReport(vs, s)
BY DEF HeadsReport, Covered

(* A report stays current while what it depends on does not change.        *)
LEMMA ToldKept ==
  ASSUME Base, NEW e \in Editors, HeadsTold(e), VersionsStay,
         side'[e].heads = side[e].heads, side'[e].told = side[e].told, side'[e].mine = side[e].mine,
         side'[e].seen = side[e].seen,
         side'[e].applied = side[e].applied \/ side'[e].applied = side[e].applied \cup {Len(log) + 1},
         shell'[e].phase # "left" => shell[e].phase # "left", side'[e].pos = side[e].pos,
         side'[e].at # "polling" => side[e].at # "polling"
  PROVE  HeadsTold(e)'
<1>1. PICK n : n = side[e].seen
  OBVIOUS
<1>2. n \in Nat /\ n <= Len(log) /\ Len(log) \in Nat /\ side[e].heads \subseteq 1 .. Len(versions)
  BY <1>1, HeldSide DEF SideT
<1>3. side'[e].applied \cap (1 .. n) = side[e].applied \cap (1 .. n)
  BY <1>2
<1>4. Prefix(side'[e].applied, n) = Prefix(side[e].applied, n)
  BY <1>2, <1>3, PrefixKept
<1>5. \A h \in side[e].heads : versions[h].through = versions'[h].through
  BY <1>2 DEF VersionsStay
<1>6. HeadsReport(versions', side'[e]) = HeadsReport(versions, side[e])
  BY <1>1, <1>4, <1>5, ReportKept
<1> QED BY <1>6 DEF HeadsTold

(* A report just sent is current.                                          *)
LEMMA ToldNow ==
  ASSUME NEW e \in Editors, Emitted(e, versions')
  PROVE  HeadsTold(e)'
BY DEF Emitted, HeadsTold

(* Another editor's report stays current.                                  *)
LEMMA ToldOthers ==
  ASSUME Base, NEW e \in Editors, Others(e), VersionsStay, HeadsToldAreCurrent
  PROVE  \A f \in Editors \ {e} : HeadsTold(f)'
<1> SUFFICES ASSUME NEW f \in Editors \ {e} PROVE HeadsTold(f)'
  OBVIOUS
<1>1. HeadsTold(f)
  BY DEF HeadsToldAreCurrent, HeadsTold, Running
<1> QED BY <1>1, ToldKept DEF Others

(* What keeps e's report current.                                          *)
LEMMA ToldStep ==
  ASSUME Base, NEW e \in Editors, Others(e), VersionsStay, HeadsToldAreCurrent,
         Emitted(e, versions')
         \/ /\ side'[e].heads = side[e].heads /\ side'[e].told = side[e].told /\ side'[e].mine = side[e].mine
            /\ side'[e].seen = side[e].seen /\ side'[e].pos = side[e].pos
            /\ side'[e].applied = side[e].applied \/ side'[e].applied = side[e].applied \cup {Len(log) + 1}
            /\ shell'[e].phase # "left" => shell[e].phase # "left"
            /\ side'[e].at # "polling" => side[e].at # "polling"
         \/ side'[e].pos[Sharer] = -1
         \/ side'[e].at = "polling"
  PROVE  HeadsToldAreCurrent'
<1>1. HeadsTold(e)
  BY DEF HeadsToldAreCurrent, HeadsTold, Running
<1>2. HeadsTold(e)'
  <2>1. CASE side'[e].pos[Sharer] = -1 \/ side'[e].at = "polling"
    BY <2>1 DEF HeadsTold
  <2> QED BY <1>1, <2>1, ToldKept, ToldNow
<1> QED BY <1>2, ToldOthers DEF HeadsToldAreCurrent, HeadsTold, Running

(* Any step of a shell leaves the heads told up to date.                   *)
LEMMA ShellTold ==
  ASSUME Base, NEW e \in Editors, ShellStep(e), HeadsToldAreCurrent
  PROVE  HeadsToldAreCurrent'
<1>1. Types /\ Ids(e)
  BY HeldFacts DEF Held
<1>2. CASE Edit(e)
  BY <1>1, <1>2, EditDoes, StayFacts, ToldStep DEF ShellBut
<1>3. CASE Save(e)
  BY <1>1, <1>3, SaveDoes, StayFacts, ToldStep DEF ShellBut
<1>4. CASE KeepMine(e)
  BY <1>1, <1>4, KeepMineDoes, StayFacts, ToldStep DEF ShellBut
<1>5. CASE AskResync(e)
  BY <1>1, <1>5, AskResyncDoes, StayFacts, ToldStep DEF ShellBut
<1>6. CASE Leave(e)
  <2>1. /\ Others(e) /\ UNCHANGED versions /\ shell'[e].phase = "left" /\ shell[e].phase # "left"
        /\ SideBut(e, {"outbox", "awaiting", "at", "order"})
    BY <1>1, <1>6, LeaveDoes
  <2>2. HeadsTold(e)'
    BY <2>1 DEF HeadsTold
  <2> QED BY <2>1, <2>2, StayFacts, ToldOthers DEF HeadsToldAreCurrent, HeadsTold, Running
<1>7. CASE Hear(e)
  <2>1. Others(e) /\ UNCHANGED <<log, versions, side, asked, refused>> /\ toShell[e] # <<>>
    BY <1>1, <1>7, HearDoes
  <2>2. shell[e].phase # "left"
    BY <2>1, HeldFacts DEF Held, Closing
  <2> QED BY <2>1, <2>2, StayFacts, ToldStep
<1>8. CASE HearHeads(e)
  BY <1>1, <1>8, HearHeadsDoes, StayFacts, ToldStep DEF ShellBut
<1> QED BY <1>2, <1>3, <1>4, <1>5, <1>6, <1>7, <1>8 DEF ShellStep

(* Taking a command from the pipe leaves the heads told up to date.        *)
LEMMA OnMsgTold ==
  ASSUME Base, NEW e \in Editors, OnMsg(e), HeadsToldAreCurrent
  PROVE  HeadsToldAreCurrent'
<1>1. Others(e) /\ UNCHANGED <<log, versions, shell, asked, refused>>
  BY OnMsgDoes
<1>2. PICK m \in SideMsg :
               \/ m.t = "update" /\ GotUpdate(e, m)
               \/ m.t = "version" /\ GotVersion(e, m)
               \/ m.t \in {"applied", "rejected"} /\ GotAnswer(e, m)
               \/ m.t = "fetch" /\ GotFetch(e)
               \/ m.t = "resync" /\ GotResync(e)
  BY OnMsgDoes
<1>3. VersionsStay
  BY <1>1, StayFacts
<1>4. CASE GotUpdate(e, m)
  BY <1>1, <1>3, <1>4, ToldStep DEF GotUpdate, SideBut
<1>5. CASE GotVersion(e, m)
  BY <1>1, <1>3, <1>5, ToldStep DEF GotVersion, SideBut
<1>6. CASE GotAnswer(e, m)
  BY <1>1, <1>3, <1>6, ToldStep DEF GotAnswer
<1>7. CASE GotFetch(e)
  BY <1>1, <1>3, <1>7, ToldStep DEF GotFetch
<1>8. CASE GotResync(e)
  <2>1. side'[e].pos[Sharer] = -1
    BY <1>8, EditorsAssumption DEF GotResync
  <2> QED BY <1>1, <1>3, <2>1, ToldStep
<1> QED BY <1>2, <1>4, <1>5, <1>6, <1>7, <1>8

(* Any step of flush leaves the heads told up to date.                     *)
LEMMA FlushTold ==
  ASSUME Base, NEW e \in Editors, FlushStep(e), HeadsToldAreCurrent
  PROVE  HeadsToldAreCurrent'
<1>1. Types
  BY DEF Base
<1>2. CASE UpdateAccepted(e)
  <2>1. Sends(e, "update") /\ side[e].at # "polling"
    BY <1>1, <1>2, SendsDoes DEF UpdateAccepted
  <2>2. /\ Others(e) /\ UNCHANGED <<versions, shell>>
        /\ SideBut(e, {"outbox", "at", "order", "applied"}) /\ side'[e].applied = side[e].applied
            \cup {Len(log) + 1}
    BY <1>1, <1>2, UpdateAcceptedDoes
  <2> QED BY <2>1, <2>2, StayFacts, ToldStep DEF SideBut
<1>3. CASE UpdateAnswerLost(e)
  <2>1. Sends(e, "update") /\ side[e].at # "polling"
    BY <1>1, <1>3, SendsDoes DEF UpdateAnswerLost
  <2> QED BY <1>1, <1>3, <2>1, UpdateAnswerLostDoes, StayFacts, ToldStep DEF SideBut
<1>4. CASE UpdateRefused(e)
  <2>1. Sends(e, "update") /\ side[e].at # "polling"
    BY <1>1, <1>4, SendsDoes DEF UpdateRefused
  <2> QED BY <1>1, <1>4, <2>1, UpdateRefusedDoes, StayFacts, ToldStep DEF SideBut
<1>5. CASE ReadOrder(e)
  <2>1. Sends(e, "version") /\ side[e].at # "polling"
    BY <1>1, <1>5, SendsDoes DEF ReadOrder
  <2> QED BY <1>1, <1>5, <2>1, ReadOrderDoes, StayFacts, ToldStep DEF SideBut
<1>6. CASE VersionAccepted(e)
  BY <1>1, <1>6, VersionAcceptedDoes, StayFacts, ToldStep
<1>7. CASE VersionAnswerLost(e)
  <2>1. Sends(e, "version") /\ side[e].at # "polling"
    BY <1>1, <1>7, SendsDoes DEF VersionAnswerLost
  <2> QED BY <1>1, <1>7, <2>1, VersionAnswerLostDoes, StayFacts, ToldStep DEF SideBut
<1>8. CASE VersionRefused(e)
  <2>1. Sends(e, "version") /\ side[e].at # "polling"
    BY <1>1, <1>8, SendsDoes DEF VersionRefused
  <2> QED BY <1>1, <1>8, <2>1, VersionRefusedDoes, StayFacts, ToldStep DEF SideBut
<1>9. CASE VersionFailed(e)
  <2>1. side[e].at # "polling"
    BY <1>9 DEF VersionFailed
  <2> QED BY <1>1, <1>9, <2>1, VersionFailedDoes, StayFacts, ToldStep DEF SideBut
<1> QED BY <1>2, <1>3, <1>4, <1>5, <1>6, <1>7, <1>8, <1>9 DEF FlushStep

(* Any step of a read leaves the heads told up to date.                    *)
LEMMA PollTold ==
  ASSUME Base, NEW e \in Editors, PollStep(e), HeadsToldAreCurrent
  PROVE  HeadsToldAreCurrent'
<1>1. CASE PollVersions(e)
  BY <1>1, PollVersionsDoes, StayFacts, ToldStep
<1>2. CASE PollUpdates(e)
  BY <1>2, PollUpdatesDoes, StayFacts, ToldStep
<1>3. CASE PollFailed(e)
  BY <1>3, PollFailedDoes, StayFacts, ToldStep
<1> QED BY <1>1, <1>2, <1>3 DEF PollStep

(* Outside a read the heads told last are the current ones (loro-1.md 8.3  *)
(* point 3): no step changes heads, covered or conflict without            *)
(* emit_heads.                                                             *)
THEOREM HeadsAreToldInTime == Spec => []HeadsToldAreCurrent
<1>1. Init => HeadsToldAreCurrent
  <2> SUFFICES ASSUME Init, NEW e \in Editors PROVE side[e].told = HeadsReport(versions, side[e])
    BY DEF HeadsToldAreCurrent
  <2>1. side[e].heads = {}
    BY InitEditor
  <2> QED BY <2>1 DEF HeadsReport
<1>2. Base /\ HeadsToldAreCurrent /\ [Next]_vars => HeadsToldAreCurrent'
  <2> SUFFICES ASSUME Base, HeadsToldAreCurrent, [Next]_vars PROVE HeadsToldAreCurrent'
    OBVIOUS
  <2>1. CASE UNCHANGED vars
    BY <2>1 DEF vars, HeadsToldAreCurrent, Running
  <2> QED BY <2>1, ShellTold, OnMsgTold, FlushTold, PollTold DEF Next
<1> QED BY <1>1, <1>2, BaseHolds, PTL DEF Spec

-----------------------------------------------------------------------------
(* 4. Files                                                                *)
(* A version comes behind the updates its file holds, in the pipe, in the  *)
(* outbox and in the store.                                                *)

Logged == {log[i].edit : i \in 1 .. Len(log)} \cup refused

Edits(q) == {q[i].edit : i \in Updates(q)}

Before(q, n) == {q[i].edit : i \in {j \in Updates(q) : j < n}}

Behind(q, before) ==
  \A p \in DOMAIN q : q[p].t = "version" => q[p].file \subseteq before \cup Before(q, p)

Filed(e) ==
  /\ shell[e].phase # "left" =>
        shell[e].replica \subseteq Logged \cup Edits(side[e].outbox) \cup Edits(toSide[e])
  /\ Behind(side[e].outbox, Logged)
  /\ Behind(toSide[e], Logged \cup Edits(side[e].outbox))

AllFiled == \A v \in 1 .. Len(versions) : versions[v].file \subseteq Logged

Files == AllFiled /\ \A e \in Editors : Filed(e)

(* Behind less is behind more.                                             *)
LEMMA BehindMore ==
  ASSUME NEW q, NEW a, NEW b, Behind(q, a), a \subseteq b
  PROVE  Behind(q, b)
BY DEF Behind

(* The edits in two queues joined.                                         *)
LEMMA EditsConcat ==
  ASSUME NEW S, NEW q \in Seq(S), NEW r \in Seq(S)
  PROVE  Edits(q \o r) = Edits(q) \cup Edits(r)
<1>1. PICK c : c = q \o r
  OBVIOUS
<1>2. \A i \in DOMAIN c : \/ i \in DOMAIN q /\ c[i] = q[i]
                          \/ \E j \in DOMAIN r : c[i] = r[j]
  BY <1>1, ConcatMembers
<1>3. \A i \in DOMAIN q : i \in DOMAIN c /\ c[i] = q[i]
  BY <1>1, ConcatMembers
<1>4. \A j \in DOMAIN r : \E i \in DOMAIN c : c[i] = r[j]
  <2>1. \A j \in DOMAIN r : Len(q) + j \in DOMAIN (q \o r) /\ (q \o r)[Len(q) + j] = r[j]
    BY ConcatMembers
  <2> QED BY <1>1, <2>1
<1>5. Edits(c) \subseteq Edits(q) \cup Edits(r)
  BY <1>2 DEF Edits, Updates
<1>6. Edits(q) \subseteq Edits(c)
  BY <1>3 DEF Edits, Updates
<1>7. Edits(r) \subseteq Edits(c)
  BY <1>4 DEF Edits, Updates
<1> QED BY <1>1, <1>5, <1>6, <1>7

(* Files behind the updates before them, in two queues joined.             *)
LEMMA BehindConcat ==
  ASSUME NEW S, NEW q \in Seq(S), NEW r \in Seq(S), NEW b, Behind(q, b), Behind(r, b \cup Edits(q))
  PROVE  Behind(q \o r, b)
<1>1. PICK c, n : c = q \o r /\ n = Len(q)
  OBVIOUS
<1>2. /\ n \in Nat /\ DOMAIN q = 1 .. n /\ DOMAIN r = 1 .. Len(r) /\ Len(r) \in Nat
          /\ DOMAIN c = 1 .. n + Len(r)
      /\ \A i \in DOMAIN c : \/ i \in DOMAIN q /\ c[i] = q[i]
                             \/ \E j \in DOMAIN r : i = n + j /\ c[i] = r[j]
      /\ \A i \in DOMAIN q : i \in DOMAIN c /\ c[i] = q[i]
      /\ \A j \in DOMAIN r : n + j \in DOMAIN c /\ c[n + j] = r[j]
  <2>1. /\ Len(q) \in Nat /\ DOMAIN q = 1 .. Len(q) /\ DOMAIN r = 1 .. Len(r) /\ Len(r) \in Nat
        /\ DOMAIN (q \o r) = 1 .. Len(q) + Len(r)
        /\ \A i \in DOMAIN (q \o r) : \/ i \in DOMAIN q /\ (q \o r)[i] = q[i]
                                      \/ \E j \in DOMAIN r : i = Len(q) + j /\ (q \o r)[i] = r[j]
        /\ \A i \in DOMAIN q : i \in DOMAIN (q \o r) /\ (q \o r)[i] = q[i]
        /\ \A j \in DOMAIN r : Len(q) + j \in DOMAIN (q \o r) /\ (q \o r)[Len(q) + j] = r[j]
    BY ConcatMembers
  <2> QED BY <1>1, <2>1
<1>3. ASSUME NEW p \in DOMAIN c, c[p].t = "version" PROVE c[p].file \subseteq b \cup Before(c, p)
  <2>1. CASE p \in DOMAIN q /\ c[p] = q[p]
    <3>1. Before(q, p) \subseteq Before(c, p)
      BY <1>2 DEF Before, Updates
    <3> QED BY <1>3, <2>1, <3>1 DEF Behind
  <2>2. ASSUME NEW j \in DOMAIN r, p = n + j, c[p] = r[j] PROVE c[p].file \subseteq b \cup Before(c, p)
    <3>1. r[j].file \subseteq b \cup Edits(q) \cup Before(r, j)
      BY <1>3, <2>2 DEF Behind
    <3>2. Edits(q) \subseteq Before(c, p)
      <4>1. \A i \in DOMAIN q : i < p
        BY <1>2, <2>2
      <4> QED BY <1>2, <4>1 DEF Edits, Before, Updates
    <3>3. Before(r, j) \subseteq Before(c, p)
      <4>1. \A i \in DOMAIN r : i < j => n + i < p
        BY <1>2, <2>2
      <4> QED BY <1>2, <4>1 DEF Before, Updates
    <3> QED BY <2>2, <3>1, <3>2, <3>3
  <2> QED BY <1>2, <2>1, <2>2
<1> QED BY <1>1, <1>3 DEF Behind

(* The edit of the first item, if it is an update.                           *)
HeadEdit(q) == IF q[1].t = "update" THEN {q[1].edit} ELSE {}

(* The edits in a queue without its head, and the files behind them.       *)
LEMMA EditsTail ==
  ASSUME NEW S, NEW q \in Seq(S), q # <<>>
  PROVE  /\ Edits(q) = Edits(Tail(q)) \cup HeadEdit(q)
         /\ \A b : Behind(q, b) => Behind(Tail(q), b \cup HeadEdit(q))
         /\ \A b : Behind(q, b) /\ q[1].t = "version" => q[1].file \subseteq b
<1>1. PICK c, n : c = Tail(q) /\ n = Len(q)
  OBVIOUS
<1>2. /\ n \in Nat \ {0} /\ DOMAIN q = 1 .. n /\ DOMAIN c = 1 .. n - 1 /\ 1 \in DOMAIN q
      /\ \A i \in DOMAIN c : i + 1 \in DOMAIN q /\ c[i] = q[i + 1]
      /\ \A i \in DOMAIN q \ {1} : i - 1 \in DOMAIN c /\ c[i - 1] = q[i]
  BY <1>1, TailMembers
<1>3. Edits(q) = Edits(c) \cup HeadEdit(q)
  <2>1. Edits(c) \subseteq Edits(q)
    BY <1>2 DEF Edits, Updates
  <2>2. HeadEdit(q) \subseteq Edits(q)
    BY <1>2 DEF Edits, Updates, HeadEdit
  <2>3. \A i \in Updates(q) : q[i].edit \in Edits(c) \cup HeadEdit(q)
    BY <1>2 DEF Edits, Updates, HeadEdit
  <2>4. Edits(q) \subseteq Edits(c) \cup HeadEdit(q)
    BY <2>3 DEF Edits
  <2> QED BY <2>1, <2>2, <2>4
<1>4. ASSUME NEW b, Behind(q, b) PROVE Behind(c, b \cup HeadEdit(q))
  <2> SUFFICES ASSUME NEW p \in DOMAIN c, c[p].t = "version"
               PROVE  c[p].file \subseteq b \cup HeadEdit(q) \cup Before(c, p)
    BY DEF Behind
  <2>1. c[p].file \subseteq b \cup Before(q, p + 1)
    BY <1>2, <1>4 DEF Behind
  <2>2. ASSUME NEW i \in Updates(q), i < p + 1 PROVE q[i].edit \in HeadEdit(q) \cup Before(c, p)
    <3>1. CASE i = 1
      BY <2>2, <3>1 DEF HeadEdit, Updates
    <3>2. CASE i # 1
      <4>1. i - 1 \in DOMAIN c /\ c[i - 1] = q[i] /\ q[i].t = "update" /\ i \in DOMAIN q
        BY <1>2, <3>2 DEF Updates
      <4>2. i - 1 < p
        BY <1>2, <2>2, <4>1
      <4> QED BY <4>1, <4>2 DEF Before, Updates
    <3> QED BY <3>1, <3>2
  <2>3. Before(q, p + 1) \subseteq HeadEdit(q) \cup Before(c, p)
    BY <2>2 DEF Before
  <2> QED BY <2>1, <2>3
<1>5. ASSUME NEW b, Behind(q, b), q[1].t = "version" PROVE q[1].file \subseteq b
  <2>1. \A i \in DOMAIN q : ~(i < 1)
    BY <1>2
  <2>2. Before(q, 1) = {}
    BY <2>1 DEF Before, Updates
  <2> QED BY <1>2, <1>5, <2>2 DEF Behind
<1> QED BY <1>1, <1>3, <1>4, <1>5

(* A queue without versions.                                               *)
LEMMA NoUpdates ==
  ASSUME NEW q, ~Has(q, "version")
  PROVE  \A b : Behind(q, b)
BY DEF Has, Behind

(* An empty queue.                                                         *)
LEMMA Empty == Edits(<<>>) = {} /\ \A b : Behind(<<>>, b)
<1>1. DOMAIN <<>> = {}
  OBVIOUS
<1> QED BY <1>1 DEF Edits, Updates, Behind

(* Only e's pipes, outbox and replica change.                                *)
LEMMA FilesStep ==
  ASSUME Base, Files, NEW e \in Editors, Others(e), Logged \subseteq Logged', Filed(e)',
         \A v \in 1 .. Len(versions') : \/ v \in 1 .. Len(versions) /\ versions'[v] = versions[v]
                                        \/ versions'[v].file \subseteq Logged'
  PROVE  Files'
<1>1. AllFiled'
  BY DEF AllFiled, Files
<1>2. ASSUME NEW f \in Editors \ {e} PROVE Filed(f)'
  <2>1. /\ shell'[f] = shell[f] /\ side'[f] = side[f] /\ toSide'[f] = toSide[f] /\ Filed(f)
    BY DEF Others, Files
  <2>2. PICK a, b : a = Logged /\ b = Logged'
    OBVIOUS
  <2>3. /\ shell[f].phase # "left" => shell[f].replica \subseteq b \cup Edits(side[f].outbox)
            \cup Edits(toSide[f])
        /\ Behind(side[f].outbox, b) /\ Behind(toSide[f], b \cup Edits(side[f].outbox))
    <3>1. a \subseteq b /\ a \cup Edits(side[f].outbox) \subseteq b \cup Edits(side[f].outbox)
      BY <2>2
    <3>2. Behind(side[f].outbox, b)
      BY <2>1, <2>2, <3>1, BehindMore DEF Filed
    <3>3. Behind(toSide[f], b \cup Edits(side[f].outbox))
      BY <2>1, <2>2, <3>1, BehindMore DEF Filed
    <3> QED BY <2>1, <2>2, <3>1, <3>2, <3>3 DEF Filed
  <2> QED BY <2>1, <2>2, <2>3 DEF Filed
<1> QED BY <1>1, <1>2 DEF Files

(* The shell tells its sidecar something.                                    *)
LEMMA TellFiles ==
  ASSUME Base, Files, NEW e \in Editors, Others(e), UNCHANGED <<log, versions, side, refused>>,
         shell[e].phase # "left", NEW ms \in Seq(SideMsg), Told(e, ms),
         Behind(ms, Logged \cup Edits(side[e].outbox) \cup Edits(toSide[e])),
         shell'[e].replica \subseteq shell[e].replica \cup Logged \cup Edits(ms)
  PROVE  Files'
<1>1. PICK a, o, q : a = Logged /\ o = side[e].outbox /\ q = toSide[e]
  OBVIOUS
<1>2. q \in Seq(SideMsg) /\ toSide'[e] = q \o ms
  BY <1>1, HeldFacts, EditorFacts DEF Told
<1>3. /\ shell[e].replica \subseteq a \cup Edits(o) \cup Edits(q)
      /\ Behind(o, a) /\ Behind(q, a \cup Edits(o))
  BY <1>1 DEF Files, Filed
<1>4. Edits(q \o ms) = Edits(q) \cup Edits(ms)
  BY <1>2, EditsConcat
<1>5. Behind(q \o ms, a \cup Edits(o))
  BY <1>1, <1>2, <1>3, BehindConcat
<1>6. Logged' = a
  BY <1>1 DEF Logged
<1>7. Filed(e)'
  BY <1>1, <1>2, <1>3, <1>4, <1>5, <1>6 DEF Filed
<1> QED BY <1>1, <1>6, <1>7, FilesStep

(* A step that moves nothing.                                                *)
LEMMA StillFiles ==
  ASSUME Base, Files, NEW e \in Editors, Others(e), Logged \subseteq Logged',
         shell'[e].phase # "left" => shell[e].phase # "left",
         shell'[e].replica \subseteq shell[e].replica \cup Logged,
         side'[e].outbox = side[e].outbox, toSide'[e] = toSide[e],
         \A v \in 1 .. Len(versions') : \/ v \in 1 .. Len(versions) /\ versions'[v] = versions[v]
                                        \/ versions'[v].file \subseteq Logged'
  PROVE  Files'
<1>1. PICK a, b, o, q : a = Logged /\ b = Logged' /\ o = side[e].outbox /\ q = toSide[e]
  OBVIOUS
<1>2. /\ shell[e].phase # "left" => shell[e].replica \subseteq a \cup Edits(o) \cup Edits(q)
      /\ Behind(o, a) /\ Behind(q, a \cup Edits(o)) /\ a \subseteq b
  BY <1>1 DEF Files, Filed
<1>3. Behind(o, b) /\ Behind(q, b \cup Edits(o))
  <2>1. a \cup Edits(o) \subseteq b \cup Edits(o)
    BY <1>2
  <2> QED BY <1>2, <2>1, BehindMore
<1>4. Filed(e)'
  BY <1>1, <1>2, <1>3 DEF Filed
<1> QED BY <1>4, FilesStep

(* No new version.                                                         *)
LEMMA KeptVersions ==
  UNCHANGED versions => \A v \in 1 .. Len(versions') : v \in 1 .. Len(versions) /\ versions'[v] = versions[v]
OBVIOUS

(* A local edit keeps files behind the log.                                *)
LEMMA EditFiles ==
  ASSUME Base, Files, NEW e \in Editors, Edit(e)
  PROVE  Files'
<1>1. PICK m : m = [t |-> "update", edit |-> EditOf(e)]
  OBVIOUS
<1>2. /\ Others(e) /\ UNCHANGED <<log, versions, side, refused>> /\ shell[e].phase = "live"
      /\ EditOf(e) \in AllEdits /\ shell'[e].replica = shell[e].replica \cup {EditOf(e)} /\ Told(e, <<m>>)
  BY <1>1, EditDoes DEF Base
<1>3. m \in SideMsg /\ m.t = "update" /\ m.edit = EditOf(e)
  BY <1>1, <1>2 DEF SideMsg, UpdateMsg
<1>4. <<m>> \in Seq(SideMsg) /\ DOMAIN <<m>> = {1} /\ <<m>>[1] = m
  BY <1>3, OneFacts
<1>5. EditOf(e) \in Edits(<<m>>)
  BY <1>3, <1>4 DEF Edits, Updates
<1>6. \A b : Behind(<<m>>, b)
  BY <1>3, <1>4 DEF Behind
<1> QED BY <1>2, <1>4, <1>5, <1>6, TellFiles

(* The replica as it is, behind all that is on its way to the log.            *)
LEMMA FileFiles ==
  ASSUME Base, Files, NEW e \in Editors, Others(e), UNCHANGED <<log, versions, shell, side, refused>>,
         shell[e].phase = "live", NEW m \in SideMsg, Told(e, <<m>>), m.file = shell[e].replica
  PROVE  Files'
<1>1. <<m>> \in Seq(SideMsg) /\ DOMAIN <<m>> = {1} /\ <<m>>[1] = m
  BY OneFacts
<1>2. m.file \subseteq Logged \cup Edits(side[e].outbox) \cup Edits(toSide[e])
  BY DEF Files, Filed
<1>3. Behind(<<m>>, Logged \cup Edits(side[e].outbox) \cup Edits(toSide[e]))
  <2> HIDE DEF Behind
  <2>1. PICK b : b = Logged \cup Edits(side[e].outbox) \cup Edits(toSide[e])
    OBVIOUS
  <2>2. Behind(<<m>>, b)
    BY <1>1, <1>2, <2>1 DEF Behind
  <2> QED BY <2>1, <2>2
<1> QED BY <1>1, <1>3, TellFiles

(* A save keeps files behind the log.                                      *)
LEMMA SaveFiles ==
  ASSUME Base, Files, NEW e \in Editors, Save(e)
  PROVE  Files'
<1>1. PICK m : m = [t |-> "version", file |-> shell[e].replica, resolve |-> {}]
  OBVIOUS
<1>2. /\ Others(e) /\ UNCHANGED <<log, versions, shell, side, refused>> /\ shell[e].phase = "live"
      /\ m \in SideMsg /\ Told(e, <<m>>) /\ m.file = shell[e].replica
  BY <1>1, SaveDoes DEF Base
<1> QED BY <1>2, FileFiles

(* Publishing a merge keeps files behind the log.                          *)
LEMMA KeepMineFiles ==
  ASSUME Base, Files, NEW e \in Editors, KeepMine(e)
  PROVE  Files'
<1>1. PICK m : m = [t |-> "version", file |-> shell[e].replica, resolve |-> shell[e].shown.heads]
  OBVIOUS
<1>2. /\ Others(e) /\ UNCHANGED <<log, versions, shell, side, refused>> /\ shell[e].phase = "live"
      /\ m \in SideMsg /\ Told(e, <<m>>) /\ m.file = shell[e].replica
  BY <1>1, KeepMineDoes DEF Base
<1> QED BY <1>2, FileFiles

(* Asking for a resync keeps files behind the log.                         *)
LEMMA AskResyncFiles ==
  ASSUME Base, Files, NEW e \in Editors, AskResync(e)
  PROVE  Files'
<1>1. PICK m : m = [t |-> "resync"]
  OBVIOUS
<1>2. /\ Others(e) /\ UNCHANGED <<log, versions, side, refused>> /\ shell[e].phase = "live"
      /\ m \in SideMsg /\ Told(e, <<m>>) /\ m.t = "resync" /\ shell'[e].replica = shell[e].replica
  BY <1>1, AskResyncDoes DEF Base, ShellBut
<1>3. <<m>> \in Seq(SideMsg) /\ DOMAIN <<m>> = {1} /\ <<m>>[1] = m
  BY <1>2, OneFacts
<1>4. \A b : Behind(<<m>>, b)
  BY <1>2, <1>3 DEF Behind
<1> QED BY <1>2, <1>3, <1>4, TellFiles

(* Leaving the session keeps files behind the log.                         *)
LEMMA LeaveFiles ==
  ASSUME Base, Files, NEW e \in Editors, Leave(e)
  PROVE  Files'
<1>1. /\ Others(e) /\ UNCHANGED <<log, versions, asked, refused>> /\ shell'[e].phase = "left"
      /\ side'[e].outbox = <<>> /\ toSide'[e] = <<>>
  BY LeaveDoes DEF Base
<1>2. Filed(e)'
  BY <1>1, Empty DEF Filed
<1>3. Logged' = Logged
  BY <1>1 DEF Logged
<1> QED BY <1>1, <1>2, <1>3, FilesStep

(* Taking an event from the pipe keeps files behind the log.               *)
LEMMA HearFiles ==
  ASSUME Base, Files, NEW e \in Editors, Hear(e)
  PROVE  Files'
<1>1. Types /\ Ids(e) /\ Closing(e)
  BY HeldFacts DEF Held
<1>2. PICK m \in ShellMsg :
         /\ m = toShell[e][1] /\ (m.t # "file" => m.id \in 1 .. Len(log))
         /\ \/ m.t = "genesis" /\ HeardGenesis(e, m)
            \/ m.t = "update" /\ HeardUpdate(e, m)
            \/ /\ m.t = "file" /\ HeardFile(e)
               /\ AnswersToQueue(e) \in Seq(SideMsg) /\ DOMAIN shell[e].queued = 1 .. Len(shell[e].queued)
               /\ Len(AnswersToQueue(e)) = Len(shell[e].queued) /\ Len(shell[e].queued) \in Nat
  BY <1>1, HearDoes
<1>3. Others(e) /\ UNCHANGED <<log, versions, side, asked, refused>> /\ shell[e].phase # "left"
  BY <1>1, HearDoes DEF Closing
<1>4. \A ids : ids \subseteq 1 .. Len(log) => Imported(ids) \subseteq Logged
  BY DEF Imported, Logged
<1>5. Genesis \in Logged
  BY LogFacts DEF Logged
<1>6. \A i \in Nat : ~Has(<<Answer(i)>>, "version")
  <2> SUFFICES ASSUME NEW i \in Nat PROVE ~Has(<<Answer(i)>>, "version")
    OBVIOUS
  <2>1. PICK a : a = Answer(i)
    OBVIOUS
  <2>2. a \in SideMsg /\ a.t \in {"applied", "rejected"}
    BY <2>1, AnswerTypes
  <2>3. DOMAIN <<a>> = {1} /\ <<a>>[1] = a
    BY <2>2, OneFacts
  <2> QED BY <2>1, <2>2, <2>3 DEF Has
<1>7. CASE m.t = "genesis" /\ HeardGenesis(e, m)
  <2>1. m.id \in Nat
    BY <1>7, EventTypes
  <2>2. PICK a, f : a = [t |-> "applied", id |-> m.id] /\ f = [t |-> "fetch"]
    OBVIOUS
  <2>3. a \in SideMsg /\ f \in SideMsg /\ a.t = "applied" /\ f.t = "fetch"
    BY <2>1, <2>2, AnswerTypes DEF SideMsg, PlainMsg
  <2>4. <<a, f>> \in Seq(SideMsg) /\ ~Has(<<a, f>>, "version")
    <3>1. <<a, f>> \in Seq(SideMsg) /\ DOMAIN <<a, f>> = {1, 2} /\ <<a, f>>[1] = a /\ <<a, f>>[2] = f
      BY <2>3, TwoFacts
    <3> QED BY <2>3, <3>1 DEF Has
  <2>5. <<a>> \in Seq(SideMsg) /\ ~Has(<<a>>, "version")
    <3>1. <<a>> \in Seq(SideMsg) /\ DOMAIN <<a>> = {1} /\ <<a>>[1] = a
      BY <2>3, OneFacts
    <3> QED BY <2>3, <3>1 DEF Has
  <2>6. PICK ms \in {<<a, f>>, <<a>>} : Told(e, ms)
    BY <1>7, <2>2 DEF HeardGenesis
  <2>7. shell'[e].replica \subseteq shell[e].replica \cup Logged
    BY <1>5, <1>7 DEF HeardGenesis, ShellBut
  <2>8. ms \in Seq(SideMsg) /\ Behind(ms, Logged \cup Edits(side[e].outbox) \cup Edits(toSide[e]))
    BY <2>4, <2>5, <2>6, NoUpdates
  <2> QED BY <1>3, <2>6, <2>7, <2>8, TellFiles
<1>8. CASE m.t = "update" /\ HeardUpdate(e, m)
  <2>1. m.id \in Nat /\ m.id \in 1 .. Len(log)
    BY <1>2, <1>8, EventTypes
  <2>2. CASE shell[e].phase = "live"
    <3>1. shell'[e].replica \subseteq shell[e].replica \cup Logged /\ Told(e, <<Answer(m.id)>>)
      BY <1>4, <1>8, <2>1, <2>2 DEF HeardUpdate
    <3>2. <<Answer(m.id)>> \in Seq(SideMsg)
      BY <2>1, AnswerTypes, OneFacts
    <3>3. Behind(<<Answer(m.id)>>, Logged \cup Edits(side[e].outbox) \cup Edits(toSide[e]))
      BY <1>6, <2>1, NoUpdates
    <3> QED BY <1>3, <3>1, <3>2, <3>3, TellFiles
  <2>3. CASE shell[e].phase # "live"
    <3>1. shell'[e].replica = shell[e].replica /\ toSide'[e] = toSide[e] /\ Logged' = Logged
      BY <1>3, <1>8, <2>3 DEF HeardUpdate, ShellBut, Logged
    <3> QED BY <1>3, <3>1, StillFiles
  <2> QED BY <2>2, <2>3
<1>9. CASE m.t = "file" /\ HeardFile(e)
  <2>1. PICK ms : ms = AnswersToQueue(e)
    OBVIOUS
  <2>2. /\ Told(e, ms) /\ ms \in Seq(SideMsg) /\ DOMAIN ms = DOMAIN shell[e].queued
        /\ \A i \in DOMAIN ms : ms[i] = Answer(shell[e].queued[i])
        /\ shell'[e].replica = shell[e].replica \cup Imported(Range(shell[e].queued))
    BY <1>2, <1>9, <2>1 DEF HeardFile, AnswersToQueue
  <2>3. \A i \in DOMAIN ms : shell[e].queued[i] \in Nat /\ shell[e].queued[i] \in 1 .. Len(log)
    BY <1>1, <2>2 DEF Ids
  <2>4. ~Has(ms, "version")
    BY <2>2, <2>3, AnswerTypes DEF Has
  <2>5. Range(shell[e].queued) \subseteq 1 .. Len(log)
    BY <2>2, <2>3 DEF Range
  <2>6. shell'[e].replica \subseteq shell[e].replica \cup Logged
    BY <1>4, <2>2, <2>5
  <2>7. Behind(ms, Logged \cup Edits(side[e].outbox) \cup Edits(toSide[e]))
    BY <2>4, NoUpdates
  <2> QED BY <1>3, <2>2, <2>6, <2>7, TellFiles
<1> QED BY <1>2, <1>7, <1>8, <1>9

(* Taking the heads event keeps files behind the log.                      *)
LEMMA HearHeadsFiles ==
  ASSUME Base, Files, NEW e \in Editors, HearHeads(e)
  PROVE  Files'
<1>1. /\ Others(e) /\ UNCHANGED <<log, versions, side, toSide, toShell, asked, refused>>
          /\ shell[e].phase # "left"
      /\ shell'[e].replica = shell[e].replica
  BY HearHeadsDoes DEF Base, ShellBut
<1>2. Logged' = Logged
  BY <1>1 DEF Logged
<1> QED BY <1>1, <1>2, StillFiles

(* A command moves on from the pipe.                                         *)
LEMMA OnMsgFiles ==
  ASSUME Base, Files, NEW e \in Editors, OnMsg(e)
  PROVE  Files'
<1>1. /\ Others(e) /\ UNCHANGED <<log, versions, shell, asked, refused>>
      /\ toSide[e] # <<>> /\ toSide'[e] = Tail(toSide[e]) /\ shell[e].phase # "left"
  BY OnMsgDoes
<1>2. PICK m \in SideMsg :
         /\ m = toSide[e][1]
         /\ \/ m.t = "update" /\ GotUpdate(e, m)
            \/ m.t = "version" /\ GotVersion(e, m)
            \/ m.t \in {"applied", "rejected"} /\ GotAnswer(e, m)
            \/ m.t = "fetch" /\ GotFetch(e)
            \/ m.t = "resync" /\ GotResync(e)
  BY OnMsgDoes
<1>3. PICK a, o, q : a = Logged /\ o = side[e].outbox /\ q = toSide[e]
  OBVIOUS
<1>4. Types /\ q \in Seq(SideMsg) /\ o \in Seq(UpdateItem \cup VersionItem) /\ q # <<>>
  BY <1>1, <1>3, HeldFacts, EditorFacts
<1>5. /\ shell[e].replica \subseteq a \cup Edits(o) \cup Edits(q)
      /\ Behind(o, a) /\ Behind(q, a \cup Edits(o))
  BY <1>1, <1>3 DEF Files, Filed
<1>6. /\ Edits(q) = Edits(Tail(q)) \cup HeadEdit(q)
      /\ Behind(Tail(q), (a \cup Edits(o)) \cup HeadEdit(q))
      /\ m.t = "version" => m.file \subseteq a \cup Edits(o)
  BY <1>2, <1>3, <1>4, <1>5, EditsTail
<1>7. Logged' = a
  BY <1>1, <1>3 DEF Logged
<1>8. HeadEdit(q) = IF m.t = "update" THEN {m.edit} ELSE {}
  BY <1>2, <1>3 DEF HeadEdit
<1>9. Filed(e)'
  <2>1. CASE m.t = "update" /\ GotUpdate(e, m)
    <3>1. PICK i : i = [t |-> "update", seq |-> side[e].nextSeq, edit |-> m.edit]
      OBVIOUS
    <3>2. side'[e].outbox = Append(o, i) /\ side' \in [Editors -> SideT]
      BY <1>3, <2>1, <3>1, OnMsgDoes DEF GotUpdate, Types
    <3>3. i.t = "update" /\ i.edit = m.edit
      BY <3>1
    <3>4. PICK S : S = (UpdateItem \cup VersionItem) \cup {i}
      OBVIOUS
    <3>5. o \in Seq(S) /\ <<i>> \in Seq(S) /\ i \in S
      BY <1>4, <3>4
    <3>6. DOMAIN <<i>> = {1} /\ <<i>>[1] = i /\ Append(o, i) = o \o <<i>>
      BY <3>5
    <3>7. Edits(<<i>>) = {m.edit} /\ \A b : Behind(<<i>>, b)
      BY <3>3, <3>6 DEF Edits, Updates, Behind
    <3>8. Edits(o \o <<i>>) = Edits(o) \cup {m.edit}
      <4>1. Edits(o \o <<i>>) = Edits(o) \cup Edits(<<i>>)
        BY <3>5, EditsConcat
      <4> QED BY <3>7, <4>1
    <3>9. Behind(o \o <<i>>, a)
      BY <1>5, <3>5, <3>7, BehindConcat
    <3>10. HeadEdit(q) = {m.edit} /\ (a \cup Edits(o)) \cup {m.edit} = a \cup (Edits(o) \cup {m.edit})
      BY <1>8, <2>1
    <3>11. Behind(Tail(q), a \cup Edits(o \o <<i>>))
      BY <1>6, <3>8, <3>10
    <3>12. shell[e].replica \subseteq a \cup Edits(o \o <<i>>) \cup Edits(Tail(q))
      BY <1>5, <1>6, <3>8, <3>10
    <3> QED BY <1>1, <1>3, <1>7, <3>2, <3>6, <3>9, <3>11, <3>12 DEF Filed
  <2>2. CASE m.t = "version" /\ GotVersion(e, m)
    <3>1. side'[e].outbox = Append(o, m) /\ m \in VersionItem
      BY <1>3, <2>2, CommandTypes DEF GotVersion
    <3>2. PICK S : S = UpdateItem \cup VersionItem
      OBVIOUS
    <3>3. o \in Seq(S) /\ <<m>> \in Seq(S) /\ m \in S
      BY <1>4, <3>1, <3>2
    <3>4. DOMAIN <<m>> = {1} /\ <<m>>[1] = m /\ Append(o, m) = o \o <<m>>
      BY <3>3
    <3>5. Edits(<<m>>) = {}
      BY <2>2, <3>4 DEF Edits, Updates
    <3>6. Behind(<<m>>, a \cup Edits(o))
      BY <1>6, <2>2, <3>4 DEF Behind
    <3>7. Edits(o \o <<m>>) = Edits(o)
      <4>1. Edits(o \o <<m>>) = Edits(o) \cup Edits(<<m>>)
        BY <3>3, EditsConcat
      <4> QED BY <3>5, <4>1
    <3>8. Behind(o \o <<m>>, a)
      BY <1>5, <3>3, <3>6, BehindConcat
    <3>9. HeadEdit(q) = {}
      BY <1>8, <2>2
    <3> QED BY <1>1, <1>3, <1>5, <1>6, <1>7, <3>1, <3>4, <3>7, <3>8, <3>9 DEF Filed
  <2>3. CASE m.t \notin {"update", "version"}
    <3>1. side'[e].outbox = o
      BY <1>2, <1>3, <2>3 DEF GotAnswer, GotFetch, GotResync, SideBut
    <3>2. HeadEdit(q) = {}
      BY <1>8, <2>3
    <3> QED BY <1>1, <1>3, <1>5, <1>6, <1>7, <3>1, <3>2 DEF Filed
  <2> QED BY <1>2, <2>1, <2>2, <2>3
<1> QED BY <1>1, <1>3, <1>7, <1>9, FilesStep

(* The first item leaves the outbox.                                         *)
LEMMA PopFiles ==
  ASSUME Base, Files,
         NEW e \in Editors, Others(e), side[e].outbox # <<>>, side'[e].outbox = Tail(side[e].outbox),
         toSide'[e] = toSide[e], shell'[e] = shell[e], Logged \cup HeadEdit(side[e].outbox) \subseteq Logged',
         \A v \in 1 .. Len(versions') : \/ v \in 1 .. Len(versions) /\ versions'[v] = versions[v]
                                        \/ versions'[v].file \subseteq Logged'
  PROVE  Files'
<1>1. PICK a, b, o, q, h : a = Logged /\ b = Logged' /\ o = side[e].outbox /\ q = toSide[e]
        /\ h = HeadEdit(side[e].outbox)
  OBVIOUS
<1>2. o \in Seq(UpdateItem \cup VersionItem) /\ o # <<>>
  BY <1>1, HeldFacts, EditorFacts
<1>3. /\ shell[e].phase # "left" => shell[e].replica \subseteq a \cup Edits(o) \cup Edits(q)
      /\ Behind(o, a) /\ Behind(q, a \cup Edits(o)) /\ a \cup h \subseteq b
  BY <1>1 DEF Files, Filed
<1>4. Edits(o) = Edits(Tail(o)) \cup h /\ Behind(Tail(o), a \cup h)
  BY <1>1, <1>2, <1>3, EditsTail
<1>5. Behind(Tail(o), b)
  BY <1>3, <1>4, BehindMore
<1>6. Behind(q, b \cup Edits(Tail(o)))
  <2>1. a \cup Edits(o) \subseteq b \cup Edits(Tail(o))
    BY <1>3, <1>4
  <2> QED BY <1>3, <2>1, BehindMore
<1>7. Filed(e)'
  BY <1>1, <1>3, <1>4, <1>5, <1>6 DEF Filed
<1> QED BY <1>1, <1>3, <1>7, FilesStep

(* A stored update is in the log.                                          *)
LEMMA LogGrows ==
  ASSUME Base, NEW e \in Editors, Sends(e, "update"), LogGets(e), UNCHANGED refused
  PROVE  Logged \cup HeadEdit(side[e].outbox) \subseteq Logged'
<1>1. PICK x : x = [by |-> e, seq |-> First1(e).seq, edit |-> First1(e).edit]
  OBVIOUS
<1>2. log' = Append(log, x) /\ First1(e) \in UpdateItem /\ First1(e).t = "update" /\ log \in Seq(LogT)
  BY <1>1, SendsDoes DEF LogGets, Base, Types
<1>3. x \in LogT /\ x.edit = First1(e).edit
  BY <1>1, <1>2 DEF UpdateItem, LogT
<1>4. /\ Len(log') = Len(log) + 1 /\ Len(log) \in Nat /\ log'[Len(log) + 1] = x
      /\ \A i \in 1 .. Len(log) : log'[i] = log[i]
  BY <1>2, <1>3, AppendFacts
<1>5. \A i \in 1 .. Len(log) : i \in 1 .. Len(log')
  BY <1>4
<1>6. Len(log) + 1 \in 1 .. Len(log')
  BY <1>4
<1>7. First1(e).edit \in Logged'
  BY <1>3, <1>4, <1>6 DEF Logged
<1>8. HeadEdit(side[e].outbox) = {First1(e).edit}
  BY <1>2 DEF HeadEdit, First1
<1>9. Logged \subseteq Logged'
  BY <1>4, <1>5 DEF Logged
<1> QED BY <1>7, <1>8, <1>9

(* The file of a stored version is in the log by then.                     *)
LEMMA VersionFiles ==
  ASSUME Base, Files, NEW e \in Editors, Sends(e, "version"), StoreVersion(e), UNCHANGED <<log, refused>>
  PROVE  /\ Logged' = Logged /\ HeadEdit(side[e].outbox) = {}
         /\ \A v \in 1 .. Len(versions') : \/ v \in 1 .. Len(versions) /\ versions'[v] = versions[v]
                                           \/ versions'[v].file \subseteq Logged'
<1>1. Types
  BY DEF Base
<1>2. side[e].outbox # <<>> /\ side[e].outbox \in Seq(UpdateItem \cup VersionItem) /\ First1(e).t = "version"
  BY <1>1, SendsDoes
<1>3. First1(e).file \subseteq Logged
  BY <1>2, EditsTail DEF Files, Filed, First1
<1>4. /\ versions' = Append(versions, NewVersion(e)) /\ versions \in Seq(VersionT)
          /\ NewVersion(e) \in VersionT
      /\ Len(versions') = Len(versions) + 1 /\ versions'[Len(versions) + 1] = NewVersion(e)
          /\ Len(versions) \in Nat
  BY <1>1, StoreVersionDoes DEF Types
<1>5. NewVersion(e).file = First1(e).file
  BY DEF NewVersion
<1>6. Logged' = Logged
  BY DEF Logged
<1>7. HeadEdit(side[e].outbox) = {}
  BY <1>2 DEF HeadEdit, First1
<1>8. \A v \in 1 .. Len(versions') : v \in 1 .. Len(versions) \/ v = Len(versions) + 1
  BY <1>4
<1>9. \A v \in 1 .. Len(versions) : versions'[v] = versions[v]
  BY <1>4, AppendFacts
<1> QED BY <1>3, <1>4, <1>5, <1>6, <1>7, <1>8, <1>9

(* Any step of flush keeps files behind the log.                           *)
LEMMA FlushFiles ==
  ASSUME Base, Files, NEW e \in Editors, FlushStep(e)
  PROVE  Files'
<1>1. Types
  BY DEF Base
<1>2. CASE UpdateAccepted(e)
  <2>1. Sends(e, "update")
    BY <1>2 DEF UpdateAccepted
  <2> QED BY <1>1, <1>2, <2>1, UpdateAcceptedDoes, SendsDoes, LogGrows, KeptVersions, PopFiles DEF PoppedOff
<1>3. CASE UpdateAnswerLost(e)
  <2>1. Sends(e, "update")
    BY <1>3 DEF UpdateAnswerLost
  <2> QED BY <1>1, <1>3, <2>1, UpdateAnswerLostDoes, LogGrows, KeptVersions, StillFiles DEF SideBut
<1>4. CASE UpdateRefused(e)
  <2>1. Sends(e, "update")
    BY <1>4 DEF UpdateRefused
  <2>2. First1(e).t = "update" /\ side[e].outbox # <<>>
    BY <1>1, <2>1, SendsDoes
  <2>3. UNCHANGED log /\ refused' = refused \cup {First1(e).edit}
    BY <1>1, <1>4, UpdateRefusedDoes
  <2>4. Logged \cup HeadEdit(side[e].outbox) \subseteq Logged'
    BY <2>2, <2>3 DEF Logged, HeadEdit, First1
  <2> QED BY <1>1, <1>4, <2>2, <2>4, UpdateRefusedDoes, KeptVersions, PopFiles DEF PoppedOff
<1>5. CASE ReadOrder(e)
  <2>1. /\ Others(e) /\ UNCHANGED <<log, versions, shell, toSide, toShell, asked, refused>>
        /\ side'[e].outbox = side[e].outbox
    BY <1>1, <1>5, ReadOrderDoes DEF SideBut
  <2>2. Logged' = Logged
    BY <2>1 DEF Logged
  <2> QED BY <2>1, <2>2, KeptVersions, StillFiles
<1>6. CASE VersionAccepted(e)
  <2>1. /\ Others(e) /\ UNCHANGED <<log, shell, toSide, toShell, asked, refused>>
        /\ Sends(e, "version") /\ StoreVersion(e) /\ PoppedOff(e)
    BY <1>1, <1>6, VersionAcceptedDoes
  <2>2. side[e].outbox # <<>>
    BY <1>1, <2>1, SendsDoes
  <2> QED BY <2>1, <2>2, VersionFiles, PopFiles DEF PoppedOff
<1>7. CASE VersionAnswerLost(e)
  <2>1. /\ Others(e) /\ UNCHANGED <<log, shell, toSide, toShell, refused>>
        /\ Sends(e, "version") /\ StoreVersion(e) /\ side'[e].outbox = side[e].outbox
    BY <1>1, <1>7, VersionAnswerLostDoes DEF SideBut
  <2> QED BY <2>1, VersionFiles, StillFiles
<1>8. CASE VersionRefused(e)
  <2>1. Sends(e, "version")
    BY <1>8 DEF VersionRefused
  <2>2. First1(e).t = "version" /\ side[e].outbox # <<>>
    BY <1>1, <2>1, SendsDoes
  <2>3. /\ Others(e) /\ UNCHANGED <<log, versions, shell, toSide, toShell, asked, refused>> /\ PoppedOff(e)
    BY <1>1, <1>8, VersionRefusedDoes
  <2>4. Logged' = Logged /\ HeadEdit(side[e].outbox) = {}
    BY <2>2, <2>3 DEF Logged, HeadEdit, First1
  <2> QED BY <2>2, <2>3, <2>4, KeptVersions, PopFiles DEF PoppedOff
<1>9. CASE VersionFailed(e)
  <2>1. /\ Others(e) /\ UNCHANGED <<log, versions, shell, toSide, toShell, asked, refused>>
        /\ side'[e].outbox = side[e].outbox
    BY <1>1, <1>9, VersionFailedDoes DEF SideBut
  <2>2. Logged' = Logged
    BY <2>1 DEF Logged
  <2> QED BY <2>1, <2>2, KeptVersions, StillFiles
<1> QED BY <1>2, <1>3, <1>4, <1>5, <1>6, <1>7, <1>8, <1>9 DEF FlushStep

(* Any step of a read keeps files behind the log.                          *)
LEMMA PollFiles ==
  ASSUME Base, Files, NEW e \in Editors, PollStep(e)
  PROVE  Files'
<1>1. /\ Others(e) /\ UNCHANGED <<log, versions, shell, toSide, asked, refused>>
      /\ side'[e].outbox = side[e].outbox
  BY PollVersionsDoes, PollUpdatesDoes, PollFailedDoes DEF PollStep, SideBut
<1>2. Logged' = Logged
  BY <1>1 DEF Logged
<1> QED BY <1>1, <1>2, KeptVersions, StillFiles

(* Files holds initially.                                                  *)
LEMMA InitFiles == Init => Files
<1> SUFFICES ASSUME Init PROVE Files
  OBVIOUS
<1>1. Len(log) = 1 /\ log[1].edit = Genesis /\ Len(versions) = 1 /\ versions[1].file = {Genesis}
  BY DEF Init
<1>2. Genesis \in Logged
  BY <1>1 DEF Logged
<1>3. AllFiled
  BY <1>1, <1>2 DEF AllFiled
<1>4. ASSUME NEW e \in Editors PROVE Filed(e)
  <2>1. side[e].outbox = <<>> /\ toSide[e] = <<>> /\ shell[e].replica = (IF e = Sharer THEN {Genesis} ELSE {})
    BY InitEditor
  <2> QED BY <1>2, <2>1, Empty DEF Filed
<1> QED BY <1>3, <1>4 DEF Files

(* The file of a version holds only edits whose update was stored or       *)
(* refused before: a save never overtakes the updates before it, over both *)
(* pipes and the outbox.                                                   *)
THEOREM VersionsFollowTheLog == Spec => []FileIsInLog
<1>1. Base /\ Files /\ [Next]_vars => Files'
  <2> SUFFICES ASSUME Base, Files, [Next]_vars PROVE Files'
    OBVIOUS
  <2>1. CASE UNCHANGED vars
    BY <2>1 DEF vars, Files, AllFiled, Filed, Logged
  <2>2. ASSUME NEW e \in Editors, ShellStep(e) PROVE Files'
    BY <2>2, EditFiles, SaveFiles, KeepMineFiles, AskResyncFiles, LeaveFiles, HearFiles,
       HearHeadsFiles DEF ShellStep
  <2> QED BY <2>1, <2>2, OnMsgFiles, FlushFiles, PollFiles DEF Next
<1>2. Base /\ Files => FileIsInLog
  <2> SUFFICES ASSUME Base, Files PROVE FileIsInLog
    OBVIOUS
  <2>1. DOMAIN log = 1 .. Len(log) /\ DOMAIN versions = 1 .. Len(versions)
    BY SeqFacts DEF Base, Types
  <2> QED BY <2>1 DEF FileIsInLog, Files, AllFiled, Logged
<1> QED BY <1>1, <1>2, InitFiles, BaseHolds, PTL DEF Spec

-----------------------------------------------------------------------------
(* 5. The graph of versions                                                *)
(* Forebears depend only on what comes earlier in the list.                *)

(* The module's AncestorsIn.                                               *)
LEMMA AncestorsIs ==
  \A known, v : AncestorsIn(known, v) = Forebears(versions, known, v)
BY DEF AncestorsIn, Forebears

(* Parents come earlier than their version.                                *)
LEMMA VersionsListed == Base => Ordered(versions)
<1> SUFFICES ASSUME Base PROVE Ordered(versions)
  OBVIOUS
<1>1. Len(versions) \in Nat
  BY SeqFacts DEF Base, Types
<1> QED BY <1>1 DEF Base, VersionsOK, Ordered

(* Whatever the members, each is in the antichain or an ancestor of one that is. *)
LEMMA AntichainFacts ==
  ASSUME Base, NEW K, NEW M \in SUBSET (1 .. Len(versions)), NEW A, A = Antichain(K, M)
  PROVE  /\ A \subseteq M
         /\ \A x \in M : x \in A \/ \E m \in A : x \in Forebears(versions, K, m)
         /\ \A p, q \in A : p \notin Forebears(versions, K, q)
<1>1. Ordered(versions) /\ Len(versions) \in Nat
  BY VersionsListed DEF Ordered
<1>2. A = {m \in M : \A k \in M \ {m} : m \notin Forebears(versions, K, k)}
  BY AncestorsIs DEF Antichain
<1>3. \A w \in M : Forebears(versions, K, w) \subseteq 1 .. w - 1
  BY <1>1, AncestorsBelow
<1>4. \A p, q \in A : p \notin Forebears(versions, K, q)
  <2>1. \A p \in M : p \notin 1 .. p - 1
    OBVIOUS
  <2> QED BY <1>2, <1>3, <2>1
<1>5. ASSUME NEW x \in M PROVE x \in A \/ \E m \in A : x \in Forebears(versions, K, m)
  <2> DEFINE T == {m \in M : m = x \/ x \in Forebears(versions, K, m)}
  <2>1. T \in SUBSET Nat /\ T # {} /\ \A k \in T : k <= Len(versions)
    <3>1. \A k \in M : k \in 1 .. Len(versions) /\ k \in Nat /\ k <= Len(versions)
      <4>1. \A k \in 1 .. Len(versions) : k \in Nat /\ k <= Len(versions)
        BY <1>1
      <4> QED BY <4>1
    <3>2. x \in T /\ T \subseteq M
      OBVIOUS
    <3> HIDE DEF T
    <3> QED BY <3>1, <3>2
  <2>2. PICK m \in T : \A k \in T : k <= m
    <3> HIDE DEF T
    <3> QED BY <1>1, <2>1, GreatestNatural
  <2>3. ASSUME NEW k \in M \ {m}, m \in Forebears(versions, K, k) PROVE FALSE
    <3>1. Forebears(versions, K, m) \subseteq Forebears(versions, K, k)
      BY <1>1, <2>3, AncestorsJoin
    <3>2. k \in T
      BY <2>2, <2>3, <3>1
    <3>3. m \in 1 .. k - 1
      BY <1>3, <2>3
    <3> QED BY <2>2, <3>2, <3>3
  <2>4. m \in A
    BY <1>2, <2>2, <2>3
  <2> QED BY <2>2, <2>4
<1> QED BY <1>2, <1>4, <1>5

(* A list that only grows.                                                   *)
Grows(vs, ws) == Len(vs) <= Len(ws) /\ \A v \in 1 .. Len(vs) : ws[v] = vs[v]

Everyone(vs) == 1 .. Len(vs)

(* The ancestors of a version stay as they are.                            *)
LEMMA AncestorsKept ==
  ASSUME NEW vs, Ordered(vs), NEW ws, Ordered(ws), Grows(vs, ws)
  PROVE  \A w \in 1 .. Len(vs) : Forebears(ws, Everyone(ws), w) = Forebears(vs, Everyone(vs), w)
<1>1. PICK C : C = 1 .. Len(vs)
  OBVIOUS
<1>2. Len(vs) \in Nat /\ Len(ws) \in Nat /\ Len(vs) <= Len(ws)
  BY DEF Ordered, Grows
<1>3. \A v \in 1 .. Len(vs) : v \in 1 .. Len(ws) /\ 1 .. v - 1 \subseteq 1 .. Len(vs)
  BY <1>2
<1>4. \A w \in C : w \in Everyone(vs) /\ w \in Everyone(ws) /\ vs[w].parents \subseteq C
        /\ ws[w].parents = vs[w].parents
  BY <1>1, <1>3 DEF Everyone, Ordered, Grows
<1>5. C \in SUBSET (1 .. Len(vs))
  BY <1>1
<1>6. \A w \in C : Forebears(ws, Everyone(ws), w) = Forebears(vs, Everyone(vs), w)
  BY <1>2, <1>4, <1>5, AncestorsSame
<1> QED BY <1>1, <1>6

(* A new version and its ancestors.                                        *)
LEMMA NewVersionFacts ==
  ASSUME Base, Base', NEW e \in Editors, Sends(e, "version"), StoreVersion(e), NEW n, n = Len(versions)
  PROVE  /\ n \in Nat /\ Len(versions') = n + 1 /\ versions'[n + 1] = NewVersion(e)
         /\ Ordered(versions) /\ Ordered(versions') /\ Grows(versions, versions')
         /\ NewVersion(e).parents \subseteq 1 .. n
         /\ Forebears(versions', Everyone(versions'), n + 1)
               = NewVersion(e).parents
                 \cup UNION {Forebears(versions, Everyone(versions), p) : p \in NewVersion(e).parents}
<1>1. Types
  BY DEF Base
<1>2. /\ versions' = Append(versions, NewVersion(e)) /\ Len(versions') = n + 1
          /\ versions'[n + 1] = NewVersion(e)
      /\ n \in Nat /\ NewVersion(e) \in VersionT /\ versions \in Seq(VersionT)
  BY <1>1, StoreVersionDoes DEF Types
<1>3. Ordered(versions)
  BY VersionsListed
<1>4. Ordered(versions')
  <2>1. VersionsOK'
    BY DEF Base
  <2> QED BY <1>2, <2>1 DEF Ordered, VersionsOK
<1>5. Grows(versions, versions')
  <2>1. \A v \in 1 .. n : versions'[v] = versions[v]
    BY <1>2, AppendFacts
  <2> QED BY <1>2, <2>1 DEF Grows
<1>6. NewVersion(e).parents \subseteq 1 .. n
  BY ParentFacts
<1>7. PICK P, vs, ws, w : P = NewVersion(e).parents /\ vs = versions /\ ws = versions' /\ w = n + 1
  OBVIOUS
<1>8. w \in 1 .. Len(ws) /\ w \in Everyone(ws) /\ ws[w].parents = P
  <2>1. w \in 1 .. n + 1
    BY <1>2, <1>7
  <2> QED BY <1>2, <1>7, <2>1 DEF Everyone
<1>9. Forebears(ws, Everyone(ws), w) = P \cup UNION {Forebears(ws, Everyone(ws), p) : p \in P}
  BY <1>4, <1>7, <1>8, AncestorsStep
<1>10. \A p \in P : Forebears(ws, Everyone(ws), p) = Forebears(vs, Everyone(vs), p)
  BY <1>3, <1>4, <1>5, <1>6, <1>7, AncestorsKept
<1>11. Forebears(ws, Everyone(ws), w) = P \cup UNION {Forebears(vs, Everyone(vs), p) : p \in P}
  BY <1>9, <1>10
<1> QED BY <1>2, <1>3, <1>4, <1>5, <1>6, <1>7, <1>11

(* Versions are stored, and nothing else is done to them.                    *)
LEMMA VersionsOnlyStored ==
  ASSUME Base, [Next]_vars
  PROVE  \/ UNCHANGED versions
         \/ \E e \in Editors : Sends(e, "version") /\ StoreVersion(e)
<1>1. ASSUME NEW e \in Editors, ShellStep(e) PROVE UNCHANGED versions
  BY <1>1 DEF ShellStep, Edit, Save, KeepMine, AskResync, Leave, Hear, HearHeads
<1>2. ASSUME NEW e \in Editors, FlushStep(e)
      PROVE  UNCHANGED versions \/ (Sends(e, "version") /\ StoreVersion(e))
  <2>1. Types
    BY DEF Base
  <2>2. CASE UpdateAccepted(e) \/ UpdateAnswerLost(e) \/ UpdateRefused(e)
    BY <2>2 DEF UpdateAccepted, UpdateAnswerLost, UpdateRefused
  <2>3. CASE ReadOrder(e) \/ VersionRefused(e) \/ VersionFailed(e)
    BY <2>3 DEF ReadOrder, VersionRefused, VersionFailed
  <2>4. CASE VersionAccepted(e)
    BY <2>1, <2>4, VersionAcceptedDoes
  <2>5. CASE VersionAnswerLost(e)
    BY <2>1, <2>5, VersionAnswerLostDoes
  <2> QED BY <1>2, <2>2, <2>3, <2>4, <2>5 DEF FlushStep
<1>3. ASSUME NEW e \in Editors, PollStep(e) PROVE UNCHANGED versions
  BY <1>3 DEF PollStep, PollVersions, PollUpdates, PollFailed
<1>4. ASSUME NEW e \in Editors, OnMsg(e) PROVE UNCHANGED versions
  BY <1>4 DEF OnMsg
<1> QED BY <1>1, <1>2, <1>3, <1>4 DEF Next, vars

Follows(vs) == \A v \in 1 .. Len(vs) : vs[v].from # 0 => vs[v].from \in Forebears(vs, Everyone(vs), v)

(* Every step keeps SaveFollowsOpened.                                     *)
LEMMA FollowsStep ==
  ASSUME Base, Base', [Next]_vars, Follows(versions)
  PROVE  Follows(versions')
<1>1. CASE UNCHANGED versions
  BY <1>1
<1>2. ASSUME NEW e \in Editors, Sends(e, "version"), StoreVersion(e) PROVE Follows(versions')
  <2>1. PICK n : n = Len(versions)
    OBVIOUS
  <2>2. /\ n \in Nat /\ Len(versions') = n + 1 /\ versions'[n + 1] = NewVersion(e)
        /\ Ordered(versions) /\ Ordered(versions') /\ Grows(versions, versions')
        /\ NewVersion(e).parents \subseteq 1 .. n
        /\ Forebears(versions', Everyone(versions'), n + 1)
               = NewVersion(e).parents
                 \cup UNION {Forebears(versions, Everyone(versions), p) : p \in NewVersion(e).parents}
    BY <1>2, <2>1, NewVersionFacts
  <2>3. \A v \in 1 .. n : versions'[v].from # 0
          => versions'[v].from \in Forebears(versions', Everyone(versions'), v)
    BY <2>1, <2>2, AncestorsKept DEF Follows, Grows
  <2>4. ASSUME NewVersion(e).from # 0
        PROVE  NewVersion(e).from \in Forebears(versions', Everyone(versions'), n + 1)
    <3>1. PICK s, x, K, P : s = side[e] /\ x = side[e].opened /\ K = side[e].known
            /\ P = NewVersion(e).parents
      OBVIOUS
    <3>2. NewVersion(e).from = x /\ First1(e).resolve = {}
      BY <2>4, <3>1 DEF NewVersion
    <3>3. PICK M : M = {x} \cup {h \in s.heads : Covered(versions, s, h, Through(s))}
      OBVIOUS
    <3>4. P = Antichain(K, M)
      BY <3>1, <3>2, <3>3 DEF NewVersion, ParentsOf
    <3>5. x \in 1 .. n /\ s.heads \subseteq 1 .. n /\ K \subseteq 1 .. n
      <4>1. x <= n /\ s.heads \subseteq 1 .. n /\ K \subseteq 1 .. n /\ x \in Nat
        BY <2>1, <3>1, HeldSide DEF SideT
      <4> QED BY <2>2, <2>4, <3>2, <4>1
    <3>6. M \in SUBSET (1 .. n)
      BY <3>3, <3>5
    <3>7. x \in P \/ \E m \in P : x \in Forebears(versions, K, m)
      <4>1. x \in M /\ M \in SUBSET (1 .. Len(versions))
        BY <2>1, <3>3, <3>6
      <4>2. \A y \in M : y \in P \/ \E m \in P : y \in Forebears(versions, K, m)
        BY <3>4, <4>1, AntichainFacts
      <4> QED BY <4>1, <4>2
    <3>8. \A m \in P : Forebears(versions, K, m) \subseteq Forebears(versions, Everyone(versions), m)
      BY <2>1, <2>2, <3>1, <3>5, AncestorsMore DEF Everyone
    <3> QED BY <2>2, <3>1, <3>2, <3>7, <3>8
  <2>5. \A v \in 1 .. n + 1 : v \in 1 .. n \/ v = n + 1
    BY <2>2
  <2> QED BY <2>2, <2>3, <2>4, <2>5 DEF Follows
<1> QED BY <1>1, <1>2, VersionsOnlyStored

(* A plain save descends from the version its writer last saved or opened: *)
(* the antichain of send_one may replace opened only by a descendant of    *)
(* it.                                                                     *)
THEOREM SavesFollow == Spec => []SaveFollowsOpened
<1>1. Init => Follows(versions)
  BY DEF Init, Follows
<1>2. Base /\ Base' /\ Follows(versions) /\ [Next]_vars => Follows(versions)'
  BY FollowsStep
<1>3. Base /\ Follows(versions) => SaveFollowsOpened
  <2> SUFFICES ASSUME Base, Follows(versions) PROVE SaveFollowsOpened
    OBVIOUS
  <2>1. DOMAIN versions = 1 .. Len(versions)
    BY SeqFacts DEF Base, Types
  <2> QED BY <2>1, AncestorsIs DEF Follows, SaveFollowsOpened, Everyone
<1> QED BY <1>1, <1>2, <1>3, BaseHolds, PTL DEF Spec

-----------------------------------------------------------------------------
(* 6. Heads and parents                                                    *)
(* Heads that are known, told, shown or to be merged are apart, and known  *)
(* to their sidecar.                                                       *)

(* No member of S descends from another.                                     *)
Apart(vs, S) == \A p, q \in S : p \notin Forebears(vs, Everyone(vs), q)

ParentsApart(vs) == \A v \in 1 .. Len(vs) : Apart(vs, vs[v].parents)

HeadsIn(vs, K) == {v \in K : \A w \in K : v \notin vs[w].parents}

ClosedIn(vs, K) == \A v \in K : vs[v].parents \subseteq K

(* The sets of versions an editor may yet name as parents.                    *)
Merges(q) == {q[p].resolve : p \in {i \in DOMAIN q : q[i].t = "version"}}

NamedBy(e) == {side[e].told.heads, shell[e].shown.heads} \cup Merges(toSide[e]) \cup Merges(side[e].outbox)

KnowsHeads(vs, s) ==
  s.heads # {} => /\ s.heads = HeadsIn(vs, s.known) /\ ClosedIn(vs, s.known) /\ s.opened \in s.known

NamesApart(e) == \A S \in NamedBy(e) : S \subseteq side[e].known /\ Apart(versions, S)

Graphs ==
  /\ ParentsApart(versions)
  /\ \A e \in Editors : KnowsHeads(versions, side[e]) /\ NamesApart(e)

(* Versions stay apart.                                                    *)
LEMMA ApartKept ==
  ASSUME NEW vs, Ordered(vs), NEW ws, Ordered(ws), Grows(vs, ws), NEW S \in SUBSET (1 .. Len(vs)), Apart(vs, S)
  PROVE  Apart(ws, S)
<1>1. \A q \in S : Forebears(ws, Everyone(ws), q) = Forebears(vs, Everyone(vs), q)
  BY AncestorsKept
<1> QED BY <1>1 DEF Apart

(* What is known of the heads stays true.                                  *)
LEMMA HeadsKept ==
  ASSUME NEW vs, NEW ws, Grows(vs, ws), NEW s, s.known \subseteq 1 .. Len(vs), KnowsHeads(vs, s)
  PROVE  KnowsHeads(ws, s)
<1>1. \A v \in s.known : ws[v] = vs[v]
  BY DEF Grows
<1>2. HeadsIn(ws, s.known) = HeadsIn(vs, s.known)
  BY <1>1 DEF HeadsIn
<1> QED BY <1>1, <1>2 DEF KnowsHeads, ClosedIn

(* The heads of what is known with all its ancestors.                        *)
LEMMA KnownAncestors ==
  ASSUME NEW vs, Ordered(vs), NEW K \in SUBSET (1 .. Len(vs)), ClosedIn(vs, K)
  PROVE  /\ \A w \in K : Forebears(vs, K, w) = Forebears(vs, Everyone(vs), w)
         /\ Apart(vs, HeadsIn(vs, K))
<1>1. \A w \in K : Forebears(vs, Everyone(vs), w) = Forebears(vs, K, w)
  <2>1. Len(vs) <= Len(vs) /\ \A w \in K : w \in Everyone(vs) /\ vs[w].parents \subseteq K
    BY DEF Ordered, ClosedIn, Everyone
  <2> QED BY <2>1, AncestorsSame
<1>2. Apart(vs, HeadsIn(vs, K))
  <2> SUFFICES ASSUME NEW p \in HeadsIn(vs, K), NEW q \in HeadsIn(vs, K), p \in Forebears(vs, Everyone(vs), q)
               PROVE  FALSE
    BY DEF Apart
  <2>1. q \in K /\ q \in 1 .. Len(vs) /\ p \in Forebears(vs, K, q)
    BY <1>1 DEF HeadsIn
  <2>2. \E u \in K \cap (1 .. Len(vs)) : p \in vs[u].parents
    BY <2>1, AncestorsJoin
  <2> QED BY <2>2 DEF HeadsIn
<1> QED BY <1>1, <1>2

(* The list of versions only grows.                                        *)
LEMMA GrowsFacts ==
  ASSUME Base, Base'
  PROVE  /\ Ordered(versions) /\ Ordered(versions')
         /\ UNCHANGED versions => Grows(versions, versions')
<1>1. Ordered(versions) /\ Len(versions) \in Nat
  BY VersionsListed DEF Ordered
<1>2. Ordered(versions')
  <2>1. Len(versions') \in Nat
    BY SeqFacts DEF Base, Types
  <2> QED BY <2>1 DEF Base, VersionsOK, Ordered
<1> QED BY <1>1, <1>2 DEF Grows

(* Of what an editor names, only e's changes.                                *)
LEMMA GraphsStep ==
  ASSUME Base, Base', Graphs,
         NEW e \in Editors, Others(e), Grows(versions, versions'), ParentsApart(versions'),
         KnowsHeads(versions', side'[e]), side[e].known \subseteq side'[e].known,
         NEW news, \A S \in NamedBy(e)' : S \in NamedBy(e) \/ S \in news,
         \A S \in news : S \subseteq side'[e].known /\ Apart(versions', S)
  PROVE  Graphs'
<1>1. Ordered(versions) /\ Ordered(versions')
  BY GrowsFacts
<1>2. \A f \in Editors : side[f].known \subseteq 1 .. Len(versions)
  BY HeldSide
<1>3. \A f \in Editors : \A S \in NamedBy(f) : S \subseteq side[f].known /\ Apart(versions', S)
  <2> SUFFICES ASSUME NEW f \in Editors, NEW S \in NamedBy(f)
               PROVE  S \subseteq side[f].known /\ Apart(versions', S)
    OBVIOUS
  <2>1. S \subseteq side[f].known /\ Apart(versions, S)
    BY DEF Graphs, NamesApart
  <2>2. S \in SUBSET (1 .. Len(versions))
    BY <1>2, <2>1
  <2> QED BY <1>1, <2>1, <2>2, ApartKept
<1>4. NamesApart(e)'
  BY <1>3 DEF NamesApart
<1>5. ASSUME NEW f \in Editors \ {e} PROVE KnowsHeads(versions', side'[f]) /\ NamesApart(f)'
  <2>1. shell'[f] = shell[f] /\ side'[f] = side[f] /\ toSide'[f] = toSide[f]
    BY DEF Others
  <2>2. NamedBy(f)' = NamedBy(f)
    BY <2>1 DEF NamedBy
  <2>3. KnowsHeads(versions, side[f])
    BY DEF Graphs
  <2>4. KnowsHeads(versions', side[f])
    BY <1>2, <2>3, HeadsKept
  <2> QED BY <1>3, <2>1, <2>2, <2>4 DEF NamesApart
<1> QED BY <1>4, <1>5 DEF Graphs

(* The merges in two queues joined.                                        *)
LEMMA MergesConcat ==
  ASSUME NEW S, NEW q \in Seq(S), NEW r \in Seq(S)
  PROVE  \A R \in Merges(q \o r) : R \in Merges(q) \/ R \in Merges(r)
<1>1. \A i \in DOMAIN (q \o r) : \/ i \in DOMAIN q /\ (q \o r)[i] = q[i]
                                 \/ \E j \in DOMAIN r : (q \o r)[i] = r[j]
  BY ConcatMembers
<1>2. PICK c : c = q \o r
  OBVIOUS
<1>3. \A i \in DOMAIN c : (i \in DOMAIN q /\ c[i] = q[i]) \/ \E j \in DOMAIN r : c[i] = r[j]
  BY <1>1, <1>2
<1>4. \A R \in Merges(c) : R \in Merges(q) \/ R \in Merges(r)
  BY <1>3 DEF Merges
<1> QED BY <1>2, <1>4

(* The merges in a queue without its head.                                 *)
LEMMA MergesTail ==
  ASSUME NEW S, NEW q \in Seq(S), q # <<>>
  PROVE  /\ Merges(Tail(q)) \subseteq Merges(q)
         /\ q[1].t = "version" => q[1].resolve \in Merges(q)
<1>1. 1 \in DOMAIN q /\ \A i \in DOMAIN Tail(q) : i + 1 \in DOMAIN q /\ Tail(q)[i] = q[i + 1]
  BY TailMembers
<1>2. PICK c : c = Tail(q)
  OBVIOUS
<1>3. \A i \in DOMAIN c : \E j \in DOMAIN q : c[i] = q[j]
  BY <1>1, <1>2
<1>4. Merges(c) \subseteq Merges(q)
  BY <1>3 DEF Merges
<1> QED BY <1>1, <1>2, <1>4 DEF Merges

(* An empty queue has no merge.                                            *)
LEMMA NoMerges == Merges(<<>>) = {}
<1>1. DOMAIN <<>> = {}
  OBVIOUS
<1> QED BY <1>1 DEF Merges

(* Steps that learn no versions.                                             *)
LEMMA QuietGraphs ==
  ASSUME Base, Base', Graphs, NEW e \in Editors, Others(e), UNCHANGED versions,
         side'[e].heads = side[e].heads, side'[e].known = side[e].known, side'[e].opened = side[e].opened,
         \A S \in NamedBy(e)' : S \in NamedBy(e) \/ S = {} \/ S = side[e].heads
  PROVE  Graphs'
<1>1. Ordered(versions) /\ Ordered(versions') /\ Grows(versions, versions')
  BY GrowsFacts
<1>2. KnowsHeads(versions, side[e]) /\ ParentsApart(versions)
  BY DEF Graphs
<1>3. KnowsHeads(versions', side'[e]) /\ ParentsApart(versions')
  BY <1>2 DEF KnowsHeads
<1>4. side[e].heads \subseteq side[e].known /\ Apart(versions, side[e].heads)
  <2>1. CASE side[e].heads = {}
    BY <2>1 DEF Apart
  <2>2. CASE side[e].heads # {}
    <3>1. side[e].known \in SUBSET (1 .. Len(versions))
      BY HeldSide
    <3> QED BY <1>1, <1>2, <2>2, <3>1, KnownAncestors DEF KnowsHeads, HeadsIn
  <2> QED BY <2>1, <2>2
<1>5. \A S \in {{}, side[e].heads} : S \subseteq side'[e].known /\ Apart(versions', S)
  BY <1>4 DEF Apart
<1>6. \A S \in NamedBy(e)' : S \in NamedBy(e) \/ S \in {{}, side[e].heads}
  OBVIOUS
<1> QED BY <1>1, <1>3, <1>5, <1>6, GraphsStep

(* Telling the heads.                                                        *)
LEMMA EmittedHeads ==
  ASSUME NEW e \in Editors, NEW vs, Emitted(e, vs)
  PROVE  side'[e].told.heads = side'[e].heads \/ side'[e].told = side[e].told
BY DEF Emitted, HeadsReport

(* The shell tells something, its merges being of heads it was shown.      *)
LEMMA TellGraphs ==
  ASSUME Base, Base', Graphs, NEW e \in Editors, Others(e), UNCHANGED <<versions, side>>,
         NEW ms \in Seq(SideMsg), Told(e, ms) \/ toSide'[e] = toSide[e],
         \A R \in Merges(ms) : R \in {{}, shell[e].shown.heads},
         shell'[e].shown \in {shell[e].shown, side[e].told}
  PROVE  Graphs'
<1>1. toSide[e] \in Seq(SideMsg)
  BY HeldFacts, EditorFacts
<1>2. \A R \in Merges(toSide'[e]) : R \in Merges(toSide[e]) \/ R \in {{}, shell[e].shown.heads}
  <2>1. CASE Told(e, ms)
    <3>1. \A R \in Merges(toSide[e] \o ms) : R \in Merges(toSide[e]) \/ R \in Merges(ms)
      BY <1>1, MergesConcat
    <3> QED BY <2>1, <3>1 DEF Told
  <2> QED BY <2>1
<1>3. \A S \in NamedBy(e)' : S \in NamedBy(e) \/ S = {}
  BY <1>2 DEF NamedBy
<1> QED BY <1>3, QuietGraphs

(* The merge of one command.                                               *)
LEMMA OneMerge ==
  ASSUME NEW m \in SideMsg
  PROVE  /\ <<m>> \in Seq(SideMsg)
         /\ \A R \in Merges(<<m>>) : m.t = "version" /\ R = m.resolve
<1>1. <<m>> \in Seq(SideMsg) /\ DOMAIN <<m>> = {1} /\ <<m>>[1] = m
  BY OneFacts
<1> QED BY <1>1 DEF Merges

(* Taking an event from the pipe keeps heads and parents apart.            *)
LEMMA HearGraphs ==
  ASSUME Base, Base', Graphs, NEW e \in Editors, Hear(e)
  PROVE  Graphs'
<1>1. Types /\ Ids(e)
  BY HeldFacts DEF Held
<1>2. PICK m \in ShellMsg :
         /\ m = toShell[e][1] /\ (m.t # "file" => m.id \in 1 .. Len(log))
         /\ \/ m.t = "genesis" /\ HeardGenesis(e, m)
            \/ m.t = "update" /\ HeardUpdate(e, m)
            \/ /\ m.t = "file" /\ HeardFile(e)
               /\ AnswersToQueue(e) \in Seq(SideMsg) /\ DOMAIN shell[e].queued = 1 .. Len(shell[e].queued)
               /\ Len(AnswersToQueue(e)) = Len(shell[e].queued) /\ Len(shell[e].queued) \in Nat
  BY <1>1, HearDoes
<1>3. Others(e) /\ UNCHANGED <<log, versions, side, asked, refused>>
  BY <1>1, HearDoes
<1>4. shell'[e].shown = shell[e].shown
  BY <1>2 DEF HeardGenesis, HeardUpdate, HeardFile, ShellBut
<1>5. \E ms \in Seq(SideMsg) : (Told(e, ms) \/ toSide'[e] = toSide[e]) /\ Merges(ms) = {}
  <2>1. \A i \in Nat : <<Answer(i)>> \in Seq(SideMsg) /\ Merges(<<Answer(i)>>) = {}
    <3> SUFFICES ASSUME NEW i \in Nat PROVE <<Answer(i)>> \in Seq(SideMsg) /\ Merges(<<Answer(i)>>) = {}
      OBVIOUS
    <3>1. PICK a : a = Answer(i)
      OBVIOUS
    <3>2. a \in SideMsg /\ a.t \in {"applied", "rejected"}
      BY <3>1, AnswerTypes
    <3>3. <<a>> \in Seq(SideMsg) /\ \A R \in Merges(<<a>>) : FALSE
      BY <3>2, OneMerge
    <3> QED BY <3>1, <3>3
  <2>2. CASE m.t = "genesis" /\ HeardGenesis(e, m)
    <3>1. m.id \in Nat
      BY <2>2, EventTypes
    <3>2. PICK a, f : a = [t |-> "applied", id |-> m.id] /\ f = [t |-> "fetch"]
      OBVIOUS
    <3>3. a \in SideMsg /\ f \in SideMsg /\ a.t = "applied" /\ f.t = "fetch"
      BY <3>1, <3>2, AnswerTypes DEF SideMsg, PlainMsg
    <3>4. <<a, f>> \in Seq(SideMsg) /\ Merges(<<a, f>>) = {}
      <4>1. <<a, f>> \in Seq(SideMsg) /\ DOMAIN <<a, f>> = {1, 2} /\ <<a, f>>[1] = a /\ <<a, f>>[2] = f
        BY <3>3, TwoFacts
      <4> QED BY <3>3, <4>1 DEF Merges
    <3>5. <<a>> \in Seq(SideMsg) /\ \A R \in Merges(<<a>>) : FALSE
      BY <3>3, OneMerge
    <3>6. Told(e, <<a, f>>) \/ Told(e, <<a>>)
      BY <2>2, <3>2 DEF HeardGenesis
    <3> QED BY <3>4, <3>5, <3>6
  <2>3. CASE m.t = "update" /\ HeardUpdate(e, m)
    <3>1. m.id \in Nat
      BY <2>3, EventTypes
    <3>2. Told(e, <<Answer(m.id)>>) \/ toSide'[e] = toSide[e]
      BY <2>3 DEF HeardUpdate
    <3> QED BY <2>1, <3>1, <3>2
  <2>4. CASE m.t = "file" /\ HeardFile(e)
    <3>1. PICK ms : ms = AnswersToQueue(e)
      OBVIOUS
    <3>2. /\ Told(e, ms) /\ ms \in Seq(SideMsg) /\ DOMAIN ms = DOMAIN shell[e].queued
          /\ \A i \in DOMAIN ms : ms[i] = Answer(shell[e].queued[i])
      BY <1>2, <2>4, <3>1 DEF HeardFile, AnswersToQueue
    <3>3. \A i \in DOMAIN ms : shell[e].queued[i] \in Nat
      BY <1>1, <3>2 DEF Ids
    <3>4. \A i \in DOMAIN ms : ms[i].t \in {"applied", "rejected"}
      BY <3>2, <3>3, AnswerTypes
    <3>5. Merges(ms) = {}
      BY <3>4 DEF Merges
    <3> QED BY <3>2, <3>5
  <2> QED BY <1>2, <2>2, <2>3, <2>4
<1> QED BY <1>3, <1>4, <1>5, TellGraphs

(* Any step of a shell keeps heads and parents apart.                      *)
LEMMA ShellGraphs ==
  ASSUME Base, Base', Graphs, NEW e \in Editors, ShellStep(e)
  PROVE  Graphs'
<1>1. Types
  BY DEF Base
<1>2. CASE Edit(e)
  <2>1. PICK m : m = [t |-> "update", edit |-> EditOf(e)]
    OBVIOUS
  <2>2. /\ Others(e) /\ UNCHANGED <<versions, side>> /\ shell'[e].shown = shell[e].shown
        /\ EditOf(e) \in AllEdits /\ Told(e, <<m>>)
    BY <1>1, <1>2, <2>1, EditDoes DEF ShellBut
  <2>3. m \in SideMsg /\ m.t = "update"
    BY <2>1, <2>2 DEF SideMsg, UpdateMsg
  <2>4. <<m>> \in Seq(SideMsg) /\ \A R \in Merges(<<m>>) : FALSE
    BY <2>3, OneMerge
  <2> QED BY <2>2, <2>4, TellGraphs
<1>3. CASE Save(e)
  <2>1. PICK m : m = [t |-> "version", file |-> shell[e].replica, resolve |-> {}]
    OBVIOUS
  <2>2. /\ Others(e) /\ UNCHANGED <<versions, shell, side>> /\ m \in SideMsg /\ Told(e, <<m>>)
            /\ m.resolve = {}
    BY <1>1, <1>3, <2>1, SaveDoes
  <2>3. <<m>> \in Seq(SideMsg) /\ \A R \in Merges(<<m>>) : R = {}
    BY <2>2, OneMerge
  <2> QED BY <2>2, <2>3, TellGraphs
<1>4. CASE KeepMine(e)
  <2>1. PICK m : m = [t |-> "version", file |-> shell[e].replica, resolve |-> shell[e].shown.heads]
    OBVIOUS
  <2>2. /\ Others(e) /\ UNCHANGED <<versions, shell, side>> /\ m \in SideMsg /\ Told(e, <<m>>)
        /\ m.resolve = shell[e].shown.heads
    BY <1>1, <1>4, <2>1, KeepMineDoes
  <2>3. <<m>> \in Seq(SideMsg) /\ \A R \in Merges(<<m>>) : R = shell[e].shown.heads
    BY <2>2, OneMerge
  <2> QED BY <2>2, <2>3, TellGraphs
<1>5. CASE AskResync(e)
  <2>1. PICK m : m = [t |-> "resync"]
    OBVIOUS
  <2>2. /\ Others(e) /\ UNCHANGED <<versions, side>> /\ shell'[e].shown = shell[e].shown
        /\ m \in SideMsg /\ Told(e, <<m>>) /\ m.t = "resync"
    BY <1>1, <1>5, <2>1, AskResyncDoes DEF ShellBut
  <2>3. <<m>> \in Seq(SideMsg) /\ \A R \in Merges(<<m>>) : FALSE
    BY <2>2, OneMerge
  <2> QED BY <2>2, <2>3, TellGraphs
<1>6. CASE Leave(e)
  <2>1. /\ Others(e) /\ UNCHANGED versions /\ ShellBut(e, {"phase", "queued"})
        /\ SideBut(e, {"outbox", "awaiting", "at", "order"})
        /\ side'[e].outbox = <<>> /\ toSide'[e] = <<>>
    BY <1>1, <1>6, LeaveDoes
  <2>2. /\ shell'[e].shown = shell[e].shown /\ side'[e].told = side[e].told /\ side'[e].heads = side[e].heads
        /\ side'[e].known = side[e].known /\ side'[e].opened = side[e].opened
    BY <2>1 DEF ShellBut, SideBut
  <2>3. \A S \in NamedBy(e)' : S \in NamedBy(e)
    BY <2>1, <2>2, NoMerges DEF NamedBy
  <2> QED BY <2>1, <2>2, <2>3, QuietGraphs
<1>7. CASE HearHeads(e)
  <2>1. /\ Others(e) /\ UNCHANGED <<versions, side, toSide>> /\ shell'[e].shown = side[e].told
    BY <1>1, <1>7, HearHeadsDoes
  <2>2. <<>> \in Seq(SideMsg)
    OBVIOUS
  <2> QED BY <2>1, <2>2, NoMerges, TellGraphs
<1> QED BY <1>2, <1>3, <1>4, <1>5, <1>6, <1>7, HearGraphs DEF ShellStep

(* Taking a command from the pipe keeps heads and parents apart.           *)
LEMMA OnMsgGraphs ==
  ASSUME Base, Base', Graphs, NEW e \in Editors, OnMsg(e)
  PROVE  Graphs'
<1>1. Others(e) /\ UNCHANGED <<log, versions, shell, asked, refused>> /\ toSide[e] # <<>>
        /\ toSide'[e] = Tail(toSide[e])
  BY OnMsgDoes
<1>2. PICK m \in SideMsg :
               /\ m = toSide[e][1]
               /\ \/ m.t = "update" /\ GotUpdate(e, m)
                  \/ m.t = "version" /\ GotVersion(e, m)
                  \/ m.t \in {"applied", "rejected"} /\ GotAnswer(e, m)
                  \/ m.t = "fetch" /\ GotFetch(e)
                  \/ m.t = "resync" /\ GotResync(e)
  BY OnMsgDoes
<1>3. toSide[e] \in Seq(SideMsg) /\ side[e].outbox \in Seq(UpdateItem \cup VersionItem)
  BY HeldFacts, EditorFacts
<1>4. /\ Merges(toSide'[e]) \subseteq Merges(toSide[e])
      /\ m.t = "version" => m.resolve \in Merges(toSide[e])
  BY <1>1, <1>2, <1>3, MergesTail
<1>5. side'[e].heads = side[e].heads /\ side'[e].known = side[e].known /\ side'[e].opened = side[e].opened
  BY <1>2 DEF GotUpdate, GotVersion, GotAnswer, GotFetch, GotResync, SideBut
<1>6. side'[e].told = side[e].told \/ side'[e].told.heads = side[e].heads
  <2>1. CASE GotAnswer(e, m) /\ Emitted(e, versions)
    BY <1>5, <2>1, EmittedHeads
  <2> QED BY <1>2, <2>1 DEF GotUpdate, GotVersion, GotAnswer, GotFetch, GotResync, SideBut
<1>7. \A R \in Merges(side'[e].outbox) : R \in Merges(side[e].outbox) \/ R \in Merges(toSide[e])
  <2>1. CASE GotUpdate(e, m)
    <3>1. PICK S, i : i = [t |-> "update", seq |-> side[e].nextSeq, edit |-> m.edit]
                      /\ S = (UpdateItem \cup VersionItem) \cup {i}
      OBVIOUS
    <3>2. side[e].outbox \in Seq(S) /\ i \in S /\ side'[e].outbox = Append(side[e].outbox, i)
            /\ i.t = "update"
      BY <1>3, <2>1, <3>1 DEF GotUpdate
    <3>3. /\ <<i>> \in Seq(S) /\ DOMAIN <<i>> = {1} /\ <<i>>[1] = i
          /\ Append(side[e].outbox, i) = side[e].outbox \o <<i>>
      BY <3>2
    <3>4. Merges(<<i>>) = {}
      BY <3>2, <3>3 DEF Merges
    <3>5. \A R \in Merges(side[e].outbox \o <<i>>) : R \in Merges(side[e].outbox) \/ R \in Merges(<<i>>)
      BY <3>2, <3>3, MergesConcat
    <3> QED BY <3>2, <3>3, <3>4, <3>5
  <2>2. CASE m.t = "version" /\ GotVersion(e, m)
    <3>1. PICK S : S = UpdateItem \cup VersionItem
      OBVIOUS
    <3>2. side[e].outbox \in Seq(S) /\ m \in S /\ side'[e].outbox = Append(side[e].outbox, m)
      BY <1>3, <2>2, <3>1, CommandTypes DEF GotVersion
    <3>3. /\ <<m>> \in Seq(S) /\ DOMAIN <<m>> = {1} /\ <<m>>[1] = m
          /\ Append(side[e].outbox, m) = side[e].outbox \o <<m>>
      BY <3>2
    <3>4. \A R \in Merges(<<m>>) : R \in Merges(toSide[e])
      BY <1>4, <2>2, <3>3 DEF Merges
    <3>5. \A R \in Merges(side[e].outbox \o <<m>>) : R \in Merges(side[e].outbox) \/ R \in Merges(<<m>>)
      BY <3>2, <3>3, MergesConcat
    <3> QED BY <3>2, <3>3, <3>4, <3>5
  <2>3. CASE GotAnswer(e, m) \/ GotFetch(e) \/ GotResync(e)
    BY <2>3 DEF GotAnswer, GotFetch, GotResync, SideBut
  <2> QED BY <1>2, <2>1, <2>2, <2>3
<1>8. \A S \in NamedBy(e)' : S \in NamedBy(e) \/ S = side[e].heads
  BY <1>1, <1>4, <1>6, <1>7 DEF NamedBy
<1> QED BY <1>1, <1>5, <1>8, QuietGraphs

(* Sends and reads that learn no versions.                                   *)
LEMMA SidecarGraphs ==
  ASSUME Base, Base', Graphs, NEW e \in Editors, Others(e), UNCHANGED <<versions, shell, toSide>>,
         side'[e].heads = side[e].heads, side'[e].known = side[e].known, side'[e].opened = side[e].opened,
         side'[e].outbox = side[e].outbox \/ (side[e].outbox # <<>> /\ side'[e].outbox = Tail(side[e].outbox)),
         side'[e].told = side[e].told \/ side'[e].told.heads = side'[e].heads
  PROVE  Graphs'
<1>1. side[e].outbox \in Seq(UpdateItem \cup VersionItem)
  BY HeldFacts, EditorFacts
<1>2. Merges(side'[e].outbox) \subseteq Merges(side[e].outbox)
  BY <1>1, MergesTail
<1>3. \A S \in NamedBy(e)' : S \in NamedBy(e) \/ S = side[e].heads
  BY <1>2 DEF NamedBy
<1> QED BY <1>3, QuietGraphs

(* Any step of a read keeps heads and parents apart.                       *)
LEMMA PollGraphs ==
  ASSUME Base, Base', Graphs, NEW e \in Editors, PollStep(e)
  PROVE  Graphs'
<1>1. CASE PollVersions(e)
  <2>1. PICK n : n = Len(versions)
    OBVIOUS
  <2>2. /\ Others(e) /\ UNCHANGED <<log, versions, shell, toSide, toShell, asked, refused>>
        /\ SideBut(e, {"known", "heads", "opened", "at"})
        /\ side'[e].known = 1 .. n /\ side'[e].heads = HeadsOf(1 .. n)
        /\ side'[e].opened = IF side[e].opened = 0 THEN Max(HeadsOf(1 .. n)) ELSE side[e].opened
    BY <1>1, <2>1, PollVersionsDoes
  <2>3. n \in Nat \ {0} /\ HeadsOf(1 .. n) \subseteq 1 .. n /\ Max(HeadsOf(1 .. n)) \in HeadsOf(1 .. n)
    BY <2>1, HeadsFacts
  <2>4. side[e].known \subseteq 1 .. n /\ side[e].opened \in Nat /\ side[e].opened <= n
    BY <2>1, HeldSide DEF SideT
  <2>5. side'[e].opened \in 1 .. n
    BY <2>2, <2>3, <2>4
  <2>6. Ordered(versions) /\ Ordered(versions') /\ Grows(versions, versions')
    BY <2>2, GrowsFacts
  <2>7. ClosedIn(versions, 1 .. n)
    <3>1. \A v \in 1 .. n : 1 .. v - 1 \subseteq 1 .. n
      BY <2>3
    <3> QED BY <2>1, <2>6, <3>1 DEF ClosedIn, Ordered
  <2>8. KnowsHeads(versions', side'[e])
    BY <2>2, <2>5, <2>7 DEF KnowsHeads, HeadsIn, HeadsOf
  <2>9. ParentsApart(versions')
    BY <2>2 DEF Graphs
  <2>10. NamedBy(e)' = NamedBy(e)
    BY <2>2 DEF NamedBy, SideBut
  <2>11. side[e].known \subseteq side'[e].known
    BY <2>2, <2>4
  <2>12. PICK news : news = {}
    OBVIOUS
  <2>13. \A S \in NamedBy(e)' : S \in NamedBy(e) \/ S \in news
    BY <2>10
  <2>14. \A S \in news : S \subseteq side'[e].known /\ Apart(versions', S)
    BY <2>12
  <2>15. Others(e) /\ Grows(versions, versions')
    BY <2>2, <2>6
  <2> QED BY <2>8, <2>9, <2>11, <2>13, <2>14, <2>15, GraphsStep
<1>2. CASE PollUpdates(e)
  BY <1>2, PollUpdatesDoes, EmittedHeads, SidecarGraphs DEF SideBut
<1>3. CASE PollFailed(e)
  BY <1>3, PollFailedDoes, EmittedHeads, SidecarGraphs DEF SideBut
<1> QED BY <1>1, <1>2, <1>3 DEF PollStep

(* The parents of a new version are apart.                                 *)
LEMMA NewParents ==
  ASSUME Base, Graphs, NEW e \in Editors, Sends(e, "version"), StoreVersion(e),
         NEW P, P = NewVersion(e).parents
  PROVE  Apart(versions, P) /\ (side[e].heads # {} => P \subseteq side[e].known)
<1>1. PICK s, x, K, n : s = side[e] /\ x = side[e].opened /\ K = side[e].known /\ n = Len(versions)
  OBVIOUS
<1>2. Types /\ Ordered(versions) /\ n \in Nat /\ K \in SUBSET (1 .. n) /\ s.heads \subseteq 1 .. n
        /\ x <= n /\ x \in Nat
  BY <1>1, VersionsListed, HeldSide, HeldFacts DEF SideT
<1>3. First1(e) = side[e].outbox[1] /\ First1(e).t = "version" /\ 1 \in DOMAIN side[e].outbox
      /\ (First1(e).resolve = {} => x # 0)
  BY <1>1, <1>2, SendsDoes, StoreVersionDoes DEF First1
<1>4. KnowsHeads(versions, s) /\ NamesApart(e)
  BY <1>1 DEF Graphs
<1>5. CASE First1(e).resolve # {}
  <2>1. P = First1(e).resolve
    BY <1>5 DEF NewVersion, ParentsOf
  <2>2. P \in NamedBy(e)
    BY <1>3, <2>1 DEF NamedBy, Merges
  <2> QED BY <1>4, <2>2 DEF NamesApart
<1>6. CASE First1(e).resolve = {}
  <2>1. PICK M : M = {x} \cup {h \in s.heads : Covered(versions, s, h, Through(s))}
    OBVIOUS
  <2>2. P = Antichain(K, M)
    BY <1>1, <1>6, <2>1 DEF NewVersion, ParentsOf
  <2>3. x \in 1 .. n
    BY <1>2, <1>3, <1>6
  <2>4. M \in SUBSET (1 .. Len(versions))
    BY <1>1, <1>2, <2>1, <2>3
  <2>5. P \subseteq M /\ \A p, q \in P : p \notin Forebears(versions, K, q)
    BY <2>2, <2>4, AntichainFacts
  <2>6. CASE s.heads = {}
    <3>1. P \subseteq {x}
      BY <2>1, <2>5, <2>6
    <3>2. Forebears(versions, Everyone(versions), x) \subseteq 1 .. x - 1
      BY <1>1, <1>2, <2>3, AncestorsBelow
    <3>3. x \notin 1 .. x - 1
      BY <1>2
    <3>4. Apart(versions, P)
      BY <3>1, <3>2, <3>3 DEF Apart
    <3> QED BY <1>1, <2>6, <3>4
  <2>7. CASE s.heads # {}
    <3>1. M \subseteq K
      BY <1>1, <1>4, <2>1, <2>7 DEF KnowsHeads, HeadsIn
    <3>2. \A w \in K : Forebears(versions, K, w) = Forebears(versions, Everyone(versions), w)
      BY <1>1, <1>2, <1>4, <2>7, KnownAncestors DEF KnowsHeads
    <3>3. P \subseteq K
      BY <2>5, <3>1
    <3>4. Apart(versions, P)
      BY <2>5, <3>2, <3>3 DEF Apart
    <3> QED BY <1>1, <3>3, <3>4
  <2> QED BY <2>6, <2>7
<1> QED BY <1>5, <1>6

(* Storing a version keeps all parents apart.                              *)
LEMMA VersionStepApart ==
  ASSUME Base, Base', Graphs, NEW e \in Editors, Sends(e, "version"), StoreVersion(e)
  PROVE  ParentsApart(versions')
<1>1. PICK n, P : n = Len(versions) /\ P = NewVersion(e).parents
  OBVIOUS
<1>2. /\ n \in Nat /\ Len(versions') = n + 1 /\ versions'[n + 1] = NewVersion(e)
      /\ Ordered(versions) /\ Ordered(versions') /\ Grows(versions, versions') /\ P \subseteq 1 .. n
  BY <1>1, NewVersionFacts
<1>3. Apart(versions, P)
  BY <1>1, NewParents
<1>4. \A v \in 1 .. n : Apart(versions', versions'[v].parents)
  <2> SUFFICES ASSUME NEW v \in 1 .. n PROVE Apart(versions', versions'[v].parents)
    OBVIOUS
  <2>1. versions'[v] = versions[v] /\ Apart(versions, versions[v].parents)
    BY <1>1, <1>2 DEF Grows, Graphs, ParentsApart
  <2>2. versions[v].parents \in SUBSET (1 .. Len(versions))
    <3>1. 1 .. v - 1 \subseteq 1 .. n
      BY <1>2
    <3> QED BY <1>1, <1>2, <3>1 DEF Ordered
  <2> QED BY <1>2, <2>1, <2>2, ApartKept
<1>5. Apart(versions', P)
  BY <1>1, <1>2, <1>3, ApartKept
<1>6. \A v \in 1 .. n + 1 : v \in 1 .. n \/ v = n + 1
  BY <1>2
<1> QED BY <1>1, <1>2, <1>4, <1>5, <1>6 DEF ParentsApart

(* A version whose answer is lost keeps heads and parents apart.           *)
LEMMA VersionAnswerLostGraphs ==
  ASSUME Base, Base', Graphs, NEW e \in Editors, VersionAnswerLost(e)
  PROVE  Graphs'
<1>1. /\ Others(e) /\ UNCHANGED <<log, shell, toSide, toShell, refused>>
      /\ Sends(e, "version") /\ StoreVersion(e) /\ SideBut(e, {"at", "order"})
  BY VersionAnswerLostDoes DEF Base
<1>2. Ordered(versions) /\ Grows(versions, versions')
  BY <1>1, NewVersionFacts
<1>3. KnowsHeads(versions', side[e])
  <2>1. side[e].known \subseteq 1 .. Len(versions) /\ KnowsHeads(versions, side[e])
    BY HeldSide DEF Graphs
  <2> QED BY <1>2, <2>1, HeadsKept
<1>4. /\ side'[e].heads = side[e].heads /\ side'[e].known = side[e].known /\ side'[e].opened = side[e].opened
      /\ side'[e].told = side[e].told /\ side'[e].outbox = side[e].outbox
  BY <1>1 DEF SideBut
<1>5. KnowsHeads(versions', side'[e])
  BY <1>3, <1>4 DEF KnowsHeads
<1>6. PICK news : news = {}
  OBVIOUS
<1>7. \A S \in NamedBy(e)' : S \in NamedBy(e) \/ S \in news
  BY <1>1, <1>4 DEF NamedBy
<1>8. \A S \in news : S \subseteq side'[e].known /\ Apart(versions', S)
  BY <1>6
<1>9. side[e].known \subseteq side'[e].known
  BY <1>4
<1>10. ParentsApart(versions')
  BY <1>1, VersionStepApart
<1>11. Others(e) /\ Grows(versions, versions')
  BY <1>1, <1>2
<1> QED BY <1>5, <1>7, <1>8, <1>9, <1>10, <1>11, GraphsStep

(* A version the store accepts keeps heads and parents apart.              *)
LEMMA VersionAcceptedGraphs ==
  ASSUME Base, Base', Graphs, NEW e \in Editors, VersionAccepted(e)
  PROVE  Graphs'
<1>1. PICK n, v, P, K, H : /\ n = Len(versions) /\ v = Len(versions) + 1 /\ P = NewVersion(e).parents
                           /\ K = side[e].known /\ H = side[e].heads
  OBVIOUS
<1>2. /\ Others(e) /\ UNCHANGED <<log, shell, toSide, toShell, asked, refused>>
      /\ Sends(e, "version") /\ StoreVersion(e) /\ PoppedOff(e)
      /\ side'[e].opened = v /\ side'[e].known = K \cup {v}
      /\ side'[e].heads = IF H = {} THEN {} ELSE (H \ P) \cup {v}
      /\ Emitted(e, versions')
  BY <1>1, VersionAcceptedDoes DEF Base
<1>3. /\ n \in Nat /\ Len(versions') = n + 1 /\ versions'[v].parents = P
      /\ Ordered(versions) /\ Ordered(versions') /\ Grows(versions, versions') /\ P \subseteq 1 .. n
  BY <1>1, <1>2, NewVersionFacts
<1>4. K \subseteq 1 .. n /\ KnowsHeads(versions, side[e]) /\ v \notin 1 .. n /\ v \in 1 .. n + 1
  BY <1>1, <1>3, HeldSide DEF Graphs
<1>5. KnowsHeads(versions', side'[e])
  <2>1. CASE H = {}
    BY <1>2, <2>1 DEF KnowsHeads
  <2>2. CASE H # {}
    <3>1. P \subseteq K /\ H = HeadsIn(versions, K) /\ ClosedIn(versions, K)
      BY <1>1, <1>2, <1>4, <2>2, NewParents DEF KnowsHeads
    <3>2. \A w \in K : versions'[w] = versions[w] /\ v \notin versions'[w].parents
      <4>1. \A w \in 1 .. n : versions'[w] = versions[w] /\ versions[w].parents \subseteq 1 .. n
        <5>1. \A w \in 1 .. n : 1 .. w - 1 \subseteq 1 .. n
          BY <1>3
        <5> QED BY <1>1, <1>3, <5>1 DEF Grows, Ordered
      <4> QED BY <1>4, <4>1
    <3>3. ClosedIn(versions', K \cup {v})
      BY <1>3, <3>1, <3>2 DEF ClosedIn
    <3>4. HeadsIn(versions', K \cup {v}) = (H \ P) \cup {v}
      <4>1. v \notin P
        BY <1>3, <1>4
      <4>2. \A u \in K : u # v
        BY <1>4
      <4> QED BY <1>3, <3>1, <3>2, <4>1, <4>2 DEF HeadsIn
    <3> QED BY <1>2, <2>2, <3>3, <3>4 DEF KnowsHeads
  <2> QED BY <2>1, <2>2
<1>6. side'[e].heads \subseteq side'[e].known /\ Apart(versions', side'[e].heads)
  <2>1. CASE side'[e].heads = {}
    BY <2>1 DEF Apart
  <2>2. CASE side'[e].heads # {}
    <3>1. side'[e].known \in SUBSET (1 .. Len(versions'))
      <4>1. \A u \in 1 .. n : u \in 1 .. n + 1
        BY <1>3
      <4>2. \A u \in K \cup {v} : u \in 1 .. n + 1
        BY <1>4, <4>1
      <4> QED BY <1>2, <1>3, <4>2
    <3> QED BY <1>3, <1>5, <2>2, <3>1, KnownAncestors DEF KnowsHeads, HeadsIn
  <2> QED BY <2>1, <2>2
<1>7. side'[e].told = side[e].told \/ side'[e].told.heads = side'[e].heads
  BY <1>2, EmittedHeads
<1>8. Merges(side'[e].outbox) \subseteq Merges(side[e].outbox)
  <2>1. side[e].outbox \in Seq(UpdateItem \cup VersionItem) /\ side[e].outbox # <<>>
    BY <1>2, SendsDoes DEF Base
  <2> QED BY <1>2, <2>1, MergesTail DEF PoppedOff
<1>9. PICK news : news = {side'[e].heads}
  OBVIOUS
<1>10. \A S \in NamedBy(e)' : S \in NamedBy(e) \/ S \in news
  BY <1>2, <1>7, <1>8, <1>9 DEF NamedBy
<1>11. \A S \in news : S \subseteq side'[e].known /\ Apart(versions', S)
  BY <1>6, <1>9
<1>12. side[e].known \subseteq side'[e].known
  BY <1>1, <1>2
<1>13. ParentsApart(versions')
  BY <1>2, VersionStepApart
<1>14. Others(e) /\ Grows(versions, versions')
  BY <1>2, <1>3
<1> QED BY <1>5, <1>10, <1>11, <1>12, <1>13, <1>14, GraphsStep

(* Any step of flush keeps heads and parents apart.                        *)
LEMMA FlushGraphs ==
  ASSUME Base, Base', Graphs, NEW e \in Editors, FlushStep(e)
  PROVE  Graphs'
<1>1. Types
  BY DEF Base
<1>2. CASE UpdateAccepted(e)
  <2>1. side[e].outbox # <<>>
    BY <1>1, <1>2, SendsDoes DEF UpdateAccepted
  <2> QED BY <1>1, <1>2, <2>1, UpdateAcceptedDoes, SidecarGraphs DEF SideBut, PoppedOff
<1>3. CASE UpdateAnswerLost(e)
  BY <1>1, <1>3, UpdateAnswerLostDoes, SidecarGraphs DEF SideBut
<1>4. CASE UpdateRefused(e)
  <2>1. side[e].outbox # <<>>
    BY <1>1, <1>4, SendsDoes DEF UpdateRefused
  <2> QED BY <1>1, <1>4, <2>1, UpdateRefusedDoes, SidecarGraphs DEF SideBut, PoppedOff
<1>5. CASE ReadOrder(e)
  BY <1>1, <1>5, ReadOrderDoes, SidecarGraphs DEF SideBut
<1>6. CASE VersionRefused(e)
  <2>1. side[e].outbox # <<>>
    BY <1>1, <1>6, SendsDoes DEF VersionRefused
  <2> QED BY <1>1, <1>6, <2>1, VersionRefusedDoes, SidecarGraphs DEF SideBut, PoppedOff
<1>7. CASE VersionFailed(e)
  BY <1>1, <1>7, VersionFailedDoes, SidecarGraphs DEF SideBut
<1> QED BY <1>2, <1>3, <1>4, <1>5, <1>6, <1>7, VersionAcceptedGraphs, VersionAnswerLostGraphs DEF FlushStep

(* The initial state keeps heads and parents apart.                        *)
LEMMA InitGraphs == Init => Graphs
<1> SUFFICES ASSUME Init PROVE Graphs
  OBVIOUS
<1>1. Len(versions) = 1 /\ versions[1].parents = {}
  BY DEF Init
<1>2. ParentsApart(versions)
  BY <1>1 DEF ParentsApart, Apart
<1>3. ASSUME NEW e \in Editors PROVE KnowsHeads(versions, side[e]) /\ NamesApart(e)
  <2>1. /\ side[e].heads = {} /\ side[e].told = [heads |-> {}, covered |-> {}]
        /\ shell[e].shown = [heads |-> {}, covered |-> {}]
        /\ toSide[e] = <<>> /\ side[e].outbox = <<>>
    BY InitEditor
  <2>2. side[e].told.heads = {} /\ shell[e].shown.heads = {}
    BY <2>1
  <2> QED BY <2>1, <2>2, NoMerges DEF KnowsHeads, NamesApart, NamedBy, Apart
<1> QED BY <1>2, <1>3 DEF Graphs

(* No parent of a version descends from another: neither the heads a merge *)
(* names, old as they may be, nor the parents a save takes in.             *)
THEOREM ParentsStayApart == Spec => []ParentsAreAntichain
<1>1. Base /\ Base' /\ Graphs /\ [Next]_vars => Graphs'
  <2> SUFFICES ASSUME Base, Base', Graphs, [Next]_vars PROVE Graphs'
    OBVIOUS
  <2>1. CASE UNCHANGED vars
    BY <2>1 DEF vars, Graphs, NamesApart, NamedBy
  <2> QED BY <2>1, ShellGraphs, OnMsgGraphs, FlushGraphs, PollGraphs DEF Next
<1>2. Base /\ Graphs => ParentsAreAntichain
  <2> SUFFICES ASSUME Base, Graphs PROVE ParentsAreAntichain
    OBVIOUS
  <2>1. DOMAIN versions = 1 .. Len(versions)
    BY SeqFacts DEF Base, Types
  <2> QED BY <2>1, AncestorsIs DEF Graphs, ParentsApart, Apart, ParentsAreAntichain, Everyone
<1> QED BY <1>1, <1>2, InitGraphs, BaseHolds, PTL DEF Spec

-----------------------------------------------------------------------------
(* 7. Streams                                                              *)
(* What an editor has of a stream, and what is on its way, has no hole.    *)

(* What a queued id, an event, an item of an outbox stand for: edits.         *)
QueueEdits(lg) == [i \in Nat |-> {lg[i].edit}]

EventEdits(lg) == [m \in ShellMsg |-> IF m.t = "file" THEN {} ELSE {lg[m.id].edit}]

ItemEdits == [m \in UpdateItem \cup VersionItem |-> IF m.t = "update" THEN {m.edit} ELSE {}]

(* What need not come any more, and what has come or is on its way.           *)
LoggedIn(lg, rf) == {lg[i].edit : i \in 1 .. Len(lg)} \cup rf

HaveIn(sh, rf) == sh.replica \cup BadEdits \cup rf

QueuedIn(lg, rf, sh) == HaveIn(sh, rf) \cup Whole(sh.queued, QueueEdits(lg))

ComingIn(lg, rf, sh, ev) == QueuedIn(lg, rf, sh) \cup Whole(ev, EventEdits(lg))

(* Nothing in the replica, the queue or the pipe of events is ahead of its    *)
(* stream, and all a receiver has passed over has come or is on its way.      *)
Reading(e, lg, rf, sh, pos, ev) ==
  /\ \A x \in sh.replica : x[1] # e => Lower(x) \subseteq HaveIn(sh, rf)
  /\ Grounded(sh.queued, QueueEdits(lg), HaveIn(sh, rf))
  /\ Grounded(ev, EventEdits(lg), QueuedIn(lg, rf, sh))
  /\ sh.phase # "left" =>
        \A s \in Editors \ {e} : \A j \in 0 .. pos[s] - 1 : <<s, j>> \in ComingIn(lg, rf, sh, ev)

(* No update in the outbox is ahead of its stream, and all its numbers are    *)
(* used.                                                                     *)
Writing(e, logged, phase, next, box) ==
  /\ phase # "left" => \A k \in 0 .. next - 1 : <<e, k>> \in logged \cup Whole(box, ItemEdits)
  /\ Grounded(box, ItemEdits, logged)

LogFlows(lg, rf) == \A i \in 1 .. Len(lg) : Lower(lg[i].edit) \subseteq LoggedIn(lg, rf)

Flows ==
  /\ LogFlows(log, refused)
  /\ \A e \in Editors :
        /\ Reading(e, log, refused, shell[e], side[e].pos, toShell[e])
        /\ Writing(e, LoggedIn(log, refused), shell[e].phase, side[e].nextSeq, side[e].outbox)

(* The log grows and more is refused.                                      *)
LEMMA ReadingKept ==
  ASSUME NEW e, NEW lg, NEW rf, NEW sh, NEW pos \in [Editors -> Int], NEW ev \in Seq(ShellMsg),
         Reading(e, lg, rf, sh, pos, ev),
         sh.queued \in Seq(Nat),
         \A p \in DOMAIN sh.queued : sh.queued[p] \in 1 .. Len(lg), ShellIds(ev, Len(lg)),
         NEW lg2, \A i \in 1 .. Len(lg) : lg2[i] = lg[i], NEW rf2, rf \subseteq rf2
  PROVE  Reading(e, lg2, rf2, sh, pos, ev)
<1>1. \A p \in DOMAIN sh.queued : QueueEdits(lg)[sh.queued[p]] = QueueEdits(lg2)[sh.queued[p]]
  <2>1. \A p \in DOMAIN sh.queued : sh.queued[p] \in Nat
    BY SeqFacts
  <2> QED BY <2>1 DEF QueueEdits
<1>2. \A p \in DOMAIN ev : EventEdits(lg)[ev[p]] = EventEdits(lg2)[ev[p]]
  <2>1. \A p \in DOMAIN ev : ev[p] \in ShellMsg /\ (ev[p].t # "file" => lg2[ev[p].id] = lg[ev[p].id])
    BY SeqFacts DEF ShellIds
  <2> QED BY <2>1 DEF EventEdits
<1>3. /\ Whole(sh.queued, QueueEdits(lg2)) = Whole(sh.queued, QueueEdits(lg))
      /\ \A b : Grounded(sh.queued, QueueEdits(lg), b) => Grounded(sh.queued, QueueEdits(lg2), b)
  <2>1. PICK v, w : v = QueueEdits(lg) /\ w = QueueEdits(lg2)
    OBVIOUS
  <2>2. \A p \in DOMAIN sh.queued : v[sh.queued[p]] = w[sh.queued[p]]
    BY <1>1, <2>1
  <2>3. Whole(sh.queued, v) = Whole(sh.queued, w) /\ \A b : Grounded(sh.queued, v, b)
          => Grounded(sh.queued, w, b)
    BY <2>2, SameValues
  <2> QED BY <2>1, <2>3
<1>4. /\ Whole(ev, EventEdits(lg2)) = Whole(ev, EventEdits(lg))
      /\ \A b : Grounded(ev, EventEdits(lg), b) => Grounded(ev, EventEdits(lg2), b)
  <2>1. PICK v, w : v = EventEdits(lg) /\ w = EventEdits(lg2)
    OBVIOUS
  <2>2. \A p \in DOMAIN ev : v[ev[p]] = w[ev[p]]
    BY <1>2, <2>1
  <2>3. Whole(ev, v) = Whole(ev, w) /\ \A b : Grounded(ev, v, b) => Grounded(ev, w, b)
    BY <2>2, SameValues
  <2> QED BY <2>1, <2>3
<1>5. HaveIn(sh, rf) \subseteq HaveIn(sh, rf2)
  BY DEF HaveIn
<1>6. QueuedIn(lg, rf, sh) \subseteq QueuedIn(lg2, rf2, sh)
  BY <1>3, <1>5 DEF QueuedIn
<1>7. ComingIn(lg, rf, sh, ev) \subseteq ComingIn(lg2, rf2, sh, ev)
  BY <1>4, <1>6 DEF ComingIn
<1>8. Grounded(sh.queued, QueueEdits(lg2), HaveIn(sh, rf2))
  BY <1>3, <1>5, GroundedMore DEF Reading
<1>9. Grounded(ev, EventEdits(lg2), QueuedIn(lg2, rf2, sh))
  BY <1>4, <1>6, GroundedMore DEF Reading
<1> QED BY <1>5, <1>7, <1>8, <1>9 DEF Reading

(* The document as it was, positions kept or forgotten.                    *)
LEMMA ReadingAs ==
  ASSUME NEW e, NEW lg, NEW rf, NEW sh, NEW pos \in [Editors -> Int], NEW ev,
         Reading(e, lg, rf, sh, pos, ev),
         NEW sh2, sh2.replica = sh.replica, sh2.queued = sh.queued, sh2.phase # "left" => sh.phase # "left",
         NEW pos2, \A s \in Editors : pos2[s] \in {pos[s], -1}
  PROVE  Reading(e, lg, rf, sh2, pos2, ev)
<1>1. /\ HaveIn(sh2, rf) = HaveIn(sh, rf) /\ QueuedIn(lg, rf, sh2) = QueuedIn(lg, rf, sh)
      /\ ComingIn(lg, rf, sh2, ev) = ComingIn(lg, rf, sh, ev)
  BY DEF HaveIn, QueuedIn, ComingIn
<1>2. ASSUME sh2.phase # "left", NEW s \in Editors \ {e}, NEW j \in 0 .. pos2[s] - 1
      PROVE  <<s, j>> \in ComingIn(lg, rf, sh2, ev)
  <2>1. pos[s] \in Int /\ (pos2[s] = pos[s] \/ pos2[s] = -1)
    OBVIOUS
  <2>2. j \in 0 .. pos[s] - 1
    BY <2>1
  <2> QED BY <1>1, <1>2, <2>2 DEF Reading
<1> QED BY <1>1, <1>2 DEF Reading

(* More is stored.                                                         *)
LEMMA WritingKept ==
  ASSUME NEW e, NEW a, NEW b, a \subseteq b, NEW phase, NEW next, NEW box, Writing(e, a, phase, next, box),
         NEW later, later # "left" => phase # "left"
  PROVE  Writing(e, b, later, next, box)
BY GroundedMore DEF Writing

(* Only e's part changes.                                                    *)
LEMMA FlowsStep ==
  ASSUME Base, Base', Flows, NEW e \in Editors, Others(e),
         Len(log) <= Len(log'), \A i \in 1 .. Len(log) : log'[i] = log[i], refused \subseteq refused',
         LogFlows(log', refused'),
         Reading(e, log', refused', shell'[e], side'[e].pos, toShell'[e]),
         Writing(e, LoggedIn(log', refused'), shell'[e].phase, side'[e].nextSeq, side'[e].outbox)
  PROVE  Flows'
<1>1. LoggedIn(log, refused) \subseteq LoggedIn(log', refused')
  <2>1. Len(log) \in Nat /\ Len(log') \in Nat
    BY SeqFacts DEF Base, Types
  <2>2. \A i \in 1 .. Len(log) : i \in 1 .. Len(log')
    BY <2>1
  <2> QED BY <2>2 DEF LoggedIn
<1>2. ASSUME NEW f \in Editors \ {e}
      PROVE  /\ Reading(f, log', refused', shell'[f], side'[f].pos, toShell'[f])
             /\ Writing(f, LoggedIn(log', refused'), shell'[f].phase, side'[f].nextSeq, side'[f].outbox)
  <2>1. /\ shell'[f] = shell[f] /\ side'[f] = side[f] /\ toShell'[f] = toShell[f]
        /\ Reading(f, log, refused, shell[f], side[f].pos, toShell[f])
        /\ Writing(f, LoggedIn(log, refused), shell[f].phase, side[f].nextSeq, side[f].outbox)
    BY DEF Others, Flows
  <2>2. /\ side[f].pos \in [Editors -> Int] /\ toShell[f] \in Seq(ShellMsg) /\ shell[f].queued \in Seq(Nat)
        /\ \A p \in DOMAIN shell[f].queued : shell[f].queued[p] \in 1 .. Len(log)
        /\ ShellIds(toShell[f], Len(log))
    <3>1. Types /\ Ids(f)
      BY HeldFacts DEF Held
    <3>2. side[f].pos \in [Editors -> -1 .. MaxEdits + 1]
      BY <3>1, EditorFacts DEF SideT
    <3>3. -1 .. MaxEdits + 1 \subseteq Int
      OBVIOUS
    <3> QED BY <3>1, <3>2, <3>3, EditorFacts DEF Ids
  <2>3. Reading(f, log', refused', shell[f], side[f].pos, toShell[f])
    BY <2>1, <2>2, ReadingKept
  <2>4. Writing(f, LoggedIn(log', refused'), shell[f].phase, side[f].nextSeq, side[f].outbox)
    BY <1>1, <2>1, WritingKept
  <2> QED BY <2>1, <2>3, <2>4
<1> QED BY <1>2 DEF Flows

(* A step of the store and of e's outbox, the replica and the pipes as they   *)
(* were.                                                                     *)
LEMMA WritingStep ==
  ASSUME Base, Base', Flows, NEW e \in Editors, Others(e),
         Len(log) <= Len(log'), \A i \in 1 .. Len(log) : log'[i] = log[i], refused \subseteq refused',
         LogFlows(log', refused'),
         shell'[e].replica = shell[e].replica, shell'[e].queued = shell[e].queued,
         shell'[e].phase # "left" => shell[e].phase # "left",
         side'[e].pos = side[e].pos \/ side'[e].pos = [s \in Editors |-> -1], toShell'[e] = toShell[e],
         Writing(e, LoggedIn(log', refused'), shell'[e].phase, side'[e].nextSeq, side'[e].outbox)
  PROVE  Flows'
<1>1. /\ side[e].pos \in [Editors -> Int] /\ toShell[e] \in Seq(ShellMsg) /\ shell[e].queued \in Seq(Nat)
      /\ \A p \in DOMAIN shell[e].queued : shell[e].queued[p] \in 1 .. Len(log)
      /\ ShellIds(toShell[e], Len(log))
  <2>1. Types /\ Ids(e)
    BY HeldFacts DEF Held
  <2>2. side[e].pos \in [Editors -> -1 .. MaxEdits + 1]
    BY <2>1, EditorFacts DEF SideT
  <2>3. -1 .. MaxEdits + 1 \subseteq Int
    OBVIOUS
  <2> QED BY <2>1, <2>2, <2>3, EditorFacts DEF Ids
<1>2. \A s \in Editors : side'[e].pos[s] \in {side[e].pos[s], -1}
  OBVIOUS
<1>3. Reading(e, log, refused, shell[e], side[e].pos, toShell[e])
  BY DEF Flows
<1>4. Reading(e, log', refused', shell[e], side[e].pos, toShell[e])
  BY <1>1, <1>3, ReadingKept
<1>5. Reading(e, log', refused', shell'[e], side'[e].pos, toShell[e])
  BY <1>1, <1>2, <1>4, ReadingAs
<1>6. Reading(e, log', refused', shell'[e], side'[e].pos, toShell'[e])
  BY <1>5
<1> QED BY <1>6, FlowsStep

(* ... and the outbox too.                                                   *)
LEMMA StillFlows ==
  ASSUME Base, Base', Flows, NEW e \in Editors, Others(e), UNCHANGED <<log, refused>>,
         shell'[e].replica = shell[e].replica, shell'[e].queued = shell[e].queued,
         shell'[e].phase # "left" => shell[e].phase # "left",
         side'[e].pos = side[e].pos \/ side'[e].pos = [s \in Editors |-> -1], toShell'[e] = toShell[e],
         side'[e].nextSeq = side[e].nextSeq, side'[e].outbox = side[e].outbox
  PROVE  Flows'
<1>1. Writing(e, LoggedIn(log', refused'), shell'[e].phase, side'[e].nextSeq, side'[e].outbox)
  <2>1. Writing(e, LoggedIn(log, refused), shell[e].phase, side[e].nextSeq, side[e].outbox)
    BY DEF Flows
  <2>2. LoggedIn(log, refused) \subseteq LoggedIn(log', refused')
    OBVIOUS
  <2>3. Writing(e, LoggedIn(log', refused'), shell'[e].phase, side[e].nextSeq, side[e].outbox)
    BY <2>1, <2>2, WritingKept
  <2> QED BY <2>3
<1>2. LogFlows(log', refused') /\ refused \subseteq refused' /\ Len(log) <= Len(log')
  BY SeqFacts DEF Flows, Base, Types
<1>3. \A i \in 1 .. Len(log) : log'[i] = log[i]
  OBVIOUS
<1> QED BY <1>1, <1>2, <1>3, WritingStep

(* What comes goes from the pipe to the queue and from there to the        *)
(* replica.                                                                *)
LEMMA ReadingMoves ==
  ASSUME NEW e, NEW lg, NEW rf, NEW sh, NEW pos, NEW ev, Reading(e, lg, rf, sh, pos, ev),
         NEW sh2, sh.replica \subseteq sh2.replica, sh2.phase # "left" => sh.phase # "left",
         \A x \in sh2.replica \ sh.replica : x[1] # e => Lower(x) \subseteq HaveIn(sh2, rf),
         Grounded(sh2.queued, QueueEdits(lg), HaveIn(sh2, rf)),
         NEW ev2, Grounded(ev2, EventEdits(lg), QueuedIn(lg, rf, sh2)),
         ComingIn(lg, rf, sh, ev) \subseteq ComingIn(lg, rf, sh2, ev2)
  PROVE  Reading(e, lg, rf, sh2, pos, ev2)
<1>1. HaveIn(sh, rf) \subseteq HaveIn(sh2, rf)
  BY DEF HaveIn
<1> QED BY <1>1 DEF Reading

(* A local edit leaves no hole in a stream.                                *)
LEMMA EditFlows ==
  ASSUME Base, Base', Flows, NEW e \in Editors, Edit(e)
  PROVE  Flows'
<1>1. /\ Others(e) /\ UNCHANGED <<log, versions, side, toShell, asked, refused>>
      /\ ShellBut(e, {"replica", "edits"}) /\ shell'[e].replica = shell[e].replica \cup {EditOf(e)}
  BY EditDoes DEF Base
<1>2. shell'[e].phase = shell[e].phase /\ shell'[e].queued = shell[e].queued /\ EditOf(e)[1] = e
  BY <1>1 DEF ShellBut, EditOf
<1>3. PICK sh, sh2, ev, pos : sh = shell[e] /\ sh2 = shell'[e] /\ ev = toShell[e] /\ pos = side[e].pos
  OBVIOUS
<1>4. Reading(e, log, refused, sh, pos, ev)
  BY <1>3 DEF Flows
<1>5. sh.replica \subseteq sh2.replica /\ sh2.phase = sh.phase /\ sh2.queued = sh.queued
  BY <1>1, <1>2, <1>3
<1>6. \A x \in sh2.replica \ sh.replica : x[1] = e
  BY <1>1, <1>2, <1>3
<1>7. HaveIn(sh, refused) \subseteq HaveIn(sh2, refused)
  BY <1>5 DEF HaveIn
<1>8. QueuedIn(log, refused, sh) \subseteq QueuedIn(log, refused, sh2)
  BY <1>5, <1>7 DEF QueuedIn
<1>9. ComingIn(log, refused, sh, ev) \subseteq ComingIn(log, refused, sh2, ev)
  BY <1>8 DEF ComingIn
<1>10. Grounded(sh2.queued, QueueEdits(log), HaveIn(sh2, refused))
  BY <1>4, <1>5, <1>7, GroundedMore DEF Reading
<1>11. Grounded(ev, EventEdits(log), QueuedIn(log, refused, sh2))
  BY <1>4, <1>8, GroundedMore DEF Reading
<1>12. Reading(e, log, refused, sh2, pos, ev)
  BY <1>4, <1>5, <1>6, <1>9, <1>10, <1>11, ReadingMoves
<1>13. Reading(e, log', refused', shell'[e], side'[e].pos, toShell'[e])
  BY <1>1, <1>3, <1>12
<1>14. Writing(e, LoggedIn(log', refused'), shell'[e].phase, side'[e].nextSeq, side'[e].outbox)
  BY <1>1, <1>2 DEF Flows
<1>15. LogFlows(log', refused') /\ refused \subseteq refused' /\ Len(log) <= Len(log')
  BY <1>1, SeqFacts DEF Flows, Base, Types
<1>16. \A i \in 1 .. Len(log) : log'[i] = log[i]
  BY <1>1
<1> QED BY <1>1, <1>13, <1>14, <1>15, <1>16, FlowsStep

(* Leaving the session leaves no hole in a stream.                         *)
LEMMA LeaveFlows ==
  ASSUME Base, Base', Flows, NEW e \in Editors, Leave(e)
  PROVE  Flows'
<1>1. /\ Others(e) /\ UNCHANGED <<log, versions, asked, refused>>
      /\ ShellBut(e, {"phase", "queued"}) /\ shell'[e].phase = "left" /\ shell'[e].queued = <<>>
      /\ side'[e].outbox = <<>> /\ toShell'[e] = <<>>
  BY LeaveDoes DEF Base
<1>2. shell'[e].replica = shell[e].replica
  BY <1>1 DEF ShellBut
<1>3. HaveIn(shell'[e], refused) = HaveIn(shell[e], refused)
  BY <1>2 DEF HaveIn
<1>4. Reading(e, log, refused, shell[e], side[e].pos, toShell[e])
  BY DEF Flows
<1>5. Reading(e, log, refused, shell'[e], side'[e].pos, <<>>)
  BY <1>1, <1>2, <1>3, <1>4, NoItems DEF Reading
<1>6. Writing(e, LoggedIn(log, refused), "left", side'[e].nextSeq, <<>>)
  BY NoItems DEF Writing
<1>7. LogFlows(log', refused') /\ refused \subseteq refused' /\ Len(log) <= Len(log')
  BY <1>1, SeqFacts DEF Flows, Base, Types
<1>8. \A i \in 1 .. Len(log) : log'[i] = log[i]
  BY <1>1
<1> QED BY <1>1, <1>5, <1>6, <1>7, <1>8, FlowsStep

(* Taking an event from the pipe leaves no hole in a stream.               *)
LEMMA HearFlows ==
  ASSUME Base, Base', Replicas, Flows, NEW e \in Editors, Hear(e)
  PROVE  Flows'
<1>1. Types /\ Ids(e) /\ (shell[e].phase = "left" \/ Pipes(e)) /\ Closing(e)
  BY HeldFacts DEF Held
<1>2. PICK m \in ShellMsg :
         /\ m = toShell[e][1] /\ (m.t # "file" => m.id \in 1 .. Len(log))
         /\ \/ m.t = "genesis" /\ HeardGenesis(e, m)
            \/ m.t = "update" /\ HeardUpdate(e, m)
            \/ m.t = "file" /\ HeardFile(e)
  BY <1>1, HearDoes
<1>3. /\ Others(e) /\ UNCHANGED <<log, versions, side, asked, refused>>
      /\ toShell[e] # <<>> /\ toShell'[e] = Tail(toShell[e])
  BY <1>1, HearDoes
<1>4. PICK sh, sh2, ev, ev2, pos, rf, lg, now :
         /\ sh = shell[e] /\ sh2 = shell'[e] /\ ev = toShell[e] /\ ev2 = Tail(toShell[e]) /\ pos = side[e].pos
         /\ rf = refused /\ lg = log /\ now = EventEdits(log)[m]
  OBVIOUS
<1>5. /\ ev \in Seq(ShellMsg) /\ ev # <<>> /\ sh.queued \in Seq(Nat) /\ Reading(e, lg, rf, sh, pos, ev)
      /\ \A p \in DOMAIN sh.queued : sh.queued[p] \in 1 .. Len(lg)
  BY <1>1, <1>3, <1>4, EditorFacts DEF Flows, Ids
<1>6. now = IF m.t = "file" THEN {} ELSE {lg[m.id].edit}
  BY <1>4 DEF EventEdits
<1>7. m = ev[1] /\ now = EventEdits(lg)[ev[1]] /\ ev2 = Tail(ev)
  BY <1>2, <1>4
<1>8. /\ Grounded(ev2, EventEdits(lg), QueuedIn(lg, rf, sh) \cup now)
      /\ \A x \in now : Lower(x) \subseteq QueuedIn(lg, rf, sh)
      /\ Whole(ev, EventEdits(lg)) = now \cup Whole(ev2, EventEdits(lg))
  BY <1>5, <1>7, GroundedTail, WholeTail DEF Reading
<1>9. /\ sh.replica \subseteq sh2.replica /\ (sh2.phase # "left" => sh.phase # "left")
      /\ \A x \in sh2.replica \ sh.replica : x[1] # e => Lower(x) \subseteq HaveIn(sh2, rf)
      /\ Grounded(sh2.queued, QueueEdits(lg), HaveIn(sh2, rf))
      /\ QueuedIn(lg, rf, sh) \cup now \subseteq QueuedIn(lg, rf, sh2)
  <2>1. CASE m.t = "genesis" /\ HeardGenesis(e, m)
    <3>1. m.id = GenesisId /\ HoldsOwn(e)
      <4>1. 1 \in DOMAIN toShell[e]
        BY <1>3, <1>4, <1>5, TailMembers
      <4> QED BY <1>2, <2>1, <4>1 DEF Replicas, Answered
    <3>2. now = {Genesis}
      BY <1>4, <1>6, <2>1, <3>1, LogFacts
    <3>3. sh2.queued = sh.queued /\ (sh2.phase # "left" => sh.phase # "left")
      BY <1>4, <2>1 DEF HeardGenesis, ShellBut
    <3>4. sh.phase # "left"
      BY <1>1, <1>3, <1>4 DEF Closing
    <3>5. sh2.replica = sh.replica \cup {Genesis}
      <4>1. CASE sh.phase = "awaiting"
        BY <1>4, <2>1, <3>1, <4>1 DEF HeardGenesis, HoldsOwn
      <4>2. CASE sh.phase # "awaiting"
        BY <1>4, <2>1, <3>1, <3>4, <4>2 DEF HeardGenesis, HoldsOwn, ShellBut
      <4> QED BY <4>1, <4>2
    <3>6. Lower(Genesis) = {}
      <4>1. Genesis[2] = 0
        BY DEF Genesis
      <4>2. 0 .. 0 - 1 = {}
        OBVIOUS
      <4> QED BY <4>1, <4>2 DEF Lower
    <3>7. HaveIn(sh, rf) \cup {Genesis} = HaveIn(sh2, rf)
      BY <3>5 DEF HaveIn
    <3>8. Grounded(sh2.queued, QueueEdits(lg), HaveIn(sh2, rf))
      <4>1. HaveIn(sh, rf) \subseteq HaveIn(sh2, rf)
        BY <3>7
      <4> QED BY <1>5, <3>3, <4>1, GroundedMore DEF Reading
    <3>9. QueuedIn(lg, rf, sh) \cup now \subseteq QueuedIn(lg, rf, sh2)
      BY <3>2, <3>3, <3>7 DEF QueuedIn
    <3> QED BY <3>3, <3>5, <3>6, <3>8, <3>9
  <2>2. CASE m.t = "update" /\ HeardUpdate(e, m) /\ shell[e].phase = "live"
    <3>1. /\ sh2.queued = <<>> /\ sh.queued = <<>> /\ sh.phase = "live" /\ sh2.phase = "live"
          /\ sh2.replica = sh.replica \cup Imported({m.id})
      BY <1>1, <1>4, <2>2 DEF HeardUpdate, ShellBut, Pipes
    <3>2. now = {lg[m.id].edit} /\ Imported({m.id}) = now \ BadEdits
      BY <1>4, <1>6, <2>2 DEF Imported
    <3>3. QueuedIn(lg, rf, sh) = HaveIn(sh, rf) /\ QueuedIn(lg, rf, sh2) = HaveIn(sh2, rf)
      BY <3>1, NoItems DEF QueuedIn
    <3>4. HaveIn(sh, rf) \cup now = HaveIn(sh2, rf)
      BY <3>1, <3>2 DEF HaveIn
    <3>5. \A x \in sh2.replica \ sh.replica : Lower(x) \subseteq HaveIn(sh2, rf)
      BY <1>8, <3>1, <3>2, <3>3, <3>4
    <3>6. Grounded(sh2.queued, QueueEdits(lg), HaveIn(sh2, rf))
      BY <3>1, NoItems
    <3> QED BY <3>1, <3>3, <3>4, <3>5, <3>6
  <2>3. CASE m.t = "update" /\ HeardUpdate(e, m) /\ shell[e].phase # "live"
    <3>1. /\ sh2.queued = Append(sh.queued, m.id) /\ sh2.replica = sh.replica /\ sh2.phase = sh.phase
          /\ m.id \in Nat
      BY <1>2, <1>4, <2>3, LogFacts DEF HeardUpdate, ShellBut
    <3>2. QueueEdits(lg)[m.id] = now
      BY <1>6, <2>3, <3>1 DEF QueueEdits
    <3>3. HaveIn(sh2, rf) = HaveIn(sh, rf)
      BY <3>1 DEF HaveIn
    <3>4. <<m.id>> \in Seq(Nat) /\ sh2.queued = sh.queued \o <<m.id>>
      <4>1. PICK i, q : i = m.id /\ q = sh.queued
        OBVIOUS
      <4>2. <<i>> \in Seq(Nat) /\ Append(q, i) = q \o <<i>>
        BY <1>5, <3>1, <4>1, OneAppended
      <4> QED BY <3>1, <4>1, <4>2
    <3>5. Grounded(<<m.id>>, QueueEdits(lg), QueuedIn(lg, rf, sh)) /\ Whole(<<m.id>>, QueueEdits(lg)) = now
      BY <1>8, <3>2, OneGrounded, OneItem
    <3>6. Grounded(sh.queued \o <<m.id>>, QueueEdits(lg), HaveIn(sh, rf))
      BY <1>5, <3>4, <3>5, GroundedConcat DEF Reading, QueuedIn
    <3>7. Whole(sh.queued \o <<m.id>>, QueueEdits(lg)) = Whole(sh.queued, QueueEdits(lg)) \cup now
      <4>1. PICK q, r, v : q = sh.queued /\ r = <<m.id>> /\ v = QueueEdits(lg)
        OBVIOUS
      <4>2. q \in Seq(Nat) /\ r \in Seq(Nat)
        BY <1>5, <3>4, <4>1
      <4>3. Whole(q \o r, v) = Whole(q, v) \cup Whole(r, v)
        BY <4>2, WholeConcat
      <4> QED BY <3>5, <4>1, <4>3
    <3>8. QueuedIn(lg, rf, sh) \cup now \subseteq QueuedIn(lg, rf, sh2)
      BY <3>3, <3>4, <3>7 DEF QueuedIn
    <3> QED BY <3>1, <3>3, <3>4, <3>6, <3>8
  <2>4. CASE m.t = "file" /\ HeardFile(e)
    <3>1. /\ sh2.queued = <<>> /\ sh2.phase = "live"
          /\ sh2.replica = sh.replica \cup Imported(Range(sh.queued))
      BY <1>4, <2>4 DEF HeardFile
    <3>2. sh.phase # "left"
      BY <1>1, <1>3, <1>4 DEF Closing
    <3>3. now = {}
      BY <1>6, <2>4
    <3>4. Imported(Range(sh.queued)) = Whole(sh.queued, QueueEdits(lg)) \ BadEdits
      <4>1. \A p \in DOMAIN sh.queued : sh.queued[p] \in Nat
        BY <1>5, SeqFacts
      <4>2. \A p \in DOMAIN sh.queued : QueueEdits(lg)[sh.queued[p]] = {log[sh.queued[p]].edit}
        BY <1>4, <4>1 DEF QueueEdits
      <4> QED BY <4>2 DEF Imported, Range, Whole
    <3>5. HaveIn(sh2, rf) = QueuedIn(lg, rf, sh) /\ QueuedIn(lg, rf, sh2) = HaveIn(sh2, rf)
      BY <3>1, <3>4, NoItems DEF HaveIn, QueuedIn
    <3>6. \A x \in sh2.replica \ sh.replica : Lower(x) \subseteq HaveIn(sh2, rf)
      <4>1. \A x \in Whole(sh.queued, QueueEdits(lg)) :
                Lower(x) \subseteq HaveIn(sh, rf) \cup Whole(sh.queued, QueueEdits(lg))
        BY <1>5, PriorIsPart DEF Reading
      <4> QED BY <3>1, <3>4, <3>5, <4>1 DEF QueuedIn
    <3>7. Grounded(sh2.queued, QueueEdits(lg), HaveIn(sh2, rf))
      BY <3>1, NoItems
    <3> QED BY <3>1, <3>2, <3>3, <3>5, <3>6, <3>7
  <2> QED BY <1>2, <2>1, <2>2, <2>3, <2>4
<1>10. Grounded(ev2, EventEdits(lg), QueuedIn(lg, rf, sh2))
  BY <1>8, <1>9, GroundedMore
<1>11. ComingIn(lg, rf, sh, ev) \subseteq ComingIn(lg, rf, sh2, ev2)
  BY <1>8, <1>9 DEF ComingIn
<1>12. Reading(e, lg, rf, sh2, pos, ev2)
  BY <1>5, <1>9, <1>10, <1>11, ReadingMoves
<1>13. Reading(e, log', refused', shell'[e], side'[e].pos, toShell'[e])
  BY <1>3, <1>4, <1>12
<1>14. Writing(e, LoggedIn(log', refused'), shell'[e].phase, side'[e].nextSeq, side'[e].outbox)
  <2>1. Writing(e, LoggedIn(log, refused), shell[e].phase, side[e].nextSeq, side[e].outbox)
    BY DEF Flows
  <2>2. shell'[e].phase # "left" => shell[e].phase # "left"
    BY <1>4, <1>9
  <2>3. Writing(e, LoggedIn(log, refused), shell'[e].phase, side[e].nextSeq, side[e].outbox)
    BY <2>1, <2>2, WritingKept
  <2> QED BY <1>3, <2>3
<1>15. LogFlows(log', refused') /\ refused \subseteq refused' /\ Len(log) <= Len(log')
  BY <1>3, SeqFacts DEF Flows, Base, Types
<1>16. \A i \in 1 .. Len(log) : log'[i] = log[i]
  BY <1>3
<1> QED BY <1>3, <1>13, <1>14, <1>15, <1>16, FlowsStep

(* The head of the outbox is stored or refused.                            *)
LEMMA WritingPops ==
  ASSUME NEW e, NEW a, NEW b, NEW phase, NEW next, NEW box \in Seq(UpdateItem \cup VersionItem), box # <<>>,
         Writing(e, a, phase, next, box), a \cup HeadEdit(box) \subseteq b
  PROVE  /\ Writing(e, b, phase, next, Tail(box))
         /\ box[1].t = "update" => Lower(box[1].edit) \subseteq a
<1>1. box[1] \in UpdateItem \cup VersionItem
  BY TailMembers, SeqFacts
<1>2. ItemEdits[box[1]] = HeadEdit(box)
  BY <1>1 DEF ItemEdits, HeadEdit
<1>3. PICK S, val, now : S = UpdateItem \cup VersionItem /\ val = ItemEdits /\ now = HeadEdit(box)
  OBVIOUS
<1>4. /\ box \in Seq(S) /\ val[box[1]] = now /\ a \cup now \subseteq b /\ Grounded(box, val, a)
      /\ phase # "left" => \A k \in 0 .. next - 1 : <<e, k>> \in a \cup Whole(box, val)
  BY <1>2, <1>3 DEF Writing
<1>5. Whole(box, val) = now \cup Whole(Tail(box), val)
  BY <1>4, WholeTail
<1>6. Grounded(Tail(box), val, a \cup now) /\ \A x \in now : Lower(x) \subseteq a
  BY <1>4, GroundedTail
<1>7. Grounded(Tail(box), val, b)
  BY <1>4, <1>6, GroundedMore
<1>8. Writing(e, b, phase, next, Tail(box))
  BY <1>3, <1>4, <1>5, <1>7 DEF Writing
<1> QED BY <1>3, <1>6, <1>8 DEF HeadEdit

(* Taking a command from the pipe leaves no hole in a stream.              *)
LEMMA OnMsgFlows ==
  ASSUME Base, Base', Flows, NEW e \in Editors, OnMsg(e)
  PROVE  Flows'
<1>1. Others(e) /\ UNCHANGED <<log, versions, shell, asked, refused>> /\ toSide[e] # <<>>
        /\ shell[e].phase # "left"
  BY OnMsgDoes
<1>2. PICK m \in SideMsg :
               /\ m = toSide[e][1]
               /\ \/ m.t = "update" /\ GotUpdate(e, m)
                  \/ m.t = "version" /\ GotVersion(e, m)
                  \/ m.t \in {"applied", "rejected"} /\ GotAnswer(e, m)
                  \/ m.t = "fetch" /\ GotFetch(e)
                  \/ m.t = "resync" /\ GotResync(e)
  BY OnMsgDoes
<1>3. /\ Types /\ (shell[e].phase = "left" \/ Pipes(e)) /\ toSide[e] \in Seq(SideMsg)
      /\ side[e].nextSeq \in Nat /\ NextEdit(e) \in Nat
  BY HeldFacts, EditorFacts DEF Held
<1>4. PICK box, S, a, n : /\ box = side[e].outbox /\ S = UpdateItem \cup VersionItem /\ a = LoggedIn(log, refused)
                          /\ n = side[e].nextSeq
  OBVIOUS
<1>5. box \in Seq(S) /\ n \in Nat /\ Writing(e, a, shell[e].phase, n, box)
  BY <1>3, <1>4, EditorFacts DEF Flows
<1>6. LogFlows(log', refused') /\ refused \subseteq refused' /\ Len(log) <= Len(log')
  BY <1>1, SeqFacts DEF Flows, Base, Types
<1>7. \A i \in 1 .. Len(log) : log'[i] = log[i]
  BY <1>1
<1>8. CASE m.t = "update" /\ GotUpdate(e, m)
  <2>1. PICK i : i = [t |-> "update", seq |-> n, edit |-> m.edit]
    OBVIOUS
  <2>2. /\ side'[e].outbox = Append(box, i) /\ side'[e].nextSeq = n + 1
        /\ side'[e].pos = side[e].pos /\ toShell'[e] = toShell[e]
    BY <1>4, <1>8, <2>1 DEF GotUpdate, SideBut
  <2>3. m.edit = <<e, n>>
    BY <1>1, <1>2, <1>3, <1>4, <1>8, InOrderTake DEF Pipes
  <2>4. i \in S /\ i \in UpdateItem /\ i.t = "update"
    <3>1. side'[e].outbox \in Seq(S) /\ Append(box, i)[Len(box) + 1] = i /\ Len(Append(box, i)) = Len(box) + 1
          /\ Len(box) \in Nat
      <4>1. side'[e].outbox \in Seq(S)
        BY <1>4 DEF Base, Types, SideT
      <4>2. box \in Seq(S \cup {i}) /\ i \in S \cup {i}
        BY <1>5
      <4> QED BY <4>1, <4>2, AppendFacts
    <3>2. side'[e].outbox[Len(box) + 1] \in S
      <4>1. \A k \in 1 .. Len(side'[e].outbox) : side'[e].outbox[k] \in S
        BY <3>1, SeqFacts
      <4>2. Len(box) + 1 \in 1 .. Len(side'[e].outbox)
        BY <2>2, <3>1
      <4> QED BY <4>1, <4>2
    <3>3. i \in S
      BY <2>2, <3>1, <3>2
    <3> QED BY <1>4, <2>1, <3>3 DEF VersionItem
  <2>5. ItemEdits[i] = {<<e, n>>}
    <3>1. i.edit = <<e, n>>
      BY <2>1, <2>3
    <3> QED BY <2>4, <3>1 DEF ItemEdits
  <2>6. Whole(Append(box, i), ItemEdits) = Whole(box, ItemEdits) \cup {<<e, n>>}
    BY <1>5, <2>4, <2>5, OneMoreItem
  <2>7. \A k \in 0 .. n - 1 : <<e, k>> \in a \cup Whole(box, ItemEdits)
    BY <1>1, <1>5 DEF Writing
  <2>8. Lower(<<e, n>>) \subseteq a \cup Whole(box, ItemEdits)
    BY <2>7 DEF Lower
  <2>9. Grounded(Append(box, i), ItemEdits, a)
    <3>1. \A y \in ItemEdits[i] : Lower(y) \subseteq a \cup Whole(box, ItemEdits)
      BY <2>5, <2>8
    <3>2. Grounded(box, ItemEdits, a)
      BY <1>5 DEF Writing
    <3> QED BY <1>5, <2>4, <3>1, <3>2, OneMoreItem
  <2>10. \A k \in 0 .. (n + 1) - 1 : <<e, k>> \in a \cup Whole(Append(box, i), ItemEdits)
    <3>1. \A k \in 0 .. (n + 1) - 1 : k \in 0 .. n - 1 \/ k = n
      BY <1>5
    <3> QED BY <2>6, <2>7, <3>1
  <2>11. Writing(e, a, shell[e].phase, n + 1, Append(box, i))
    BY <2>9, <2>10 DEF Writing
  <2>12. Writing(e, LoggedIn(log', refused'), shell'[e].phase, side'[e].nextSeq, side'[e].outbox)
    BY <1>1, <1>4, <2>2, <2>11
  <2> QED BY <1>1, <1>6, <1>7, <2>2, <2>12, WritingStep
<1>9. CASE m.t = "version" /\ GotVersion(e, m)
  <2>1. /\ side'[e].outbox = Append(box, m) /\ side'[e].nextSeq = n
        /\ side'[e].pos = side[e].pos /\ toShell'[e] = toShell[e]
    BY <1>4, <1>9 DEF GotVersion, SideBut
  <2>2. m \in S /\ ItemEdits[m] = {}
    BY <1>4, <1>9, CommandTypes DEF ItemEdits
  <2>3. Whole(Append(box, m), ItemEdits) = Whole(box, ItemEdits)
    <3>1. box \in Seq(S) /\ m \in S
      BY <1>5, <2>2
    <3>2. Whole(Append(box, m), ItemEdits) = Whole(box, ItemEdits) \cup ItemEdits[m]
      BY <3>1, OneMoreItem
    <3> QED BY <2>2, <3>2
  <2>4. Grounded(Append(box, m), ItemEdits, a)
    <3>1. Grounded(box, ItemEdits, a)
      BY <1>5 DEF Writing
    <3> QED BY <1>5, <2>2, <3>1, OneMoreItem
  <2>5. Writing(e, a, shell[e].phase, n, Append(box, m))
    BY <1>5, <2>3, <2>4 DEF Writing
  <2>6. Writing(e, LoggedIn(log', refused'), shell'[e].phase, side'[e].nextSeq, side'[e].outbox)
    BY <1>1, <1>4, <2>1, <2>5
  <2> QED BY <1>1, <1>6, <1>7, <2>1, <2>6, WritingStep
<1>10. CASE m.t \in {"applied", "rejected"} /\ GotAnswer(e, m)
  <2>1. side'[e].pos = side[e].pos /\ side'[e].nextSeq = side[e].nextSeq /\ side'[e].outbox = side[e].outbox
        /\ toShell'[e] = toShell[e]
    BY <1>10 DEF GotAnswer, SideBut
  <2> QED BY <1>1, <2>1, StillFlows
<1>11. CASE m.t = "fetch" /\ GotFetch(e)
  <2>1. PICK f, val : f = [t |-> "file"] /\ val = EventEdits(log)
    OBVIOUS
  <2>2. PICK ev, rf, sh : ev = toShell[e] /\ rf = refused /\ sh = shell[e]
    OBVIOUS
  <2>3. f \in ShellMsg /\ val[f] = {} /\ toShell'[e] = ev \o <<f>> /\ UNCHANGED side
    BY <1>11, <2>1, <2>2 DEF GotFetch, Sent, ShellMsg, FileMsg, EventEdits
  <2>4. ev \in Seq(ShellMsg) /\ Reading(e, log, rf, sh, side[e].pos, ev) /\ ev \o <<f>> = Append(ev, f)
    BY <1>3, <2>2, <2>3, EditorFacts, OneAppended DEF Flows
  <2>5. Whole(Append(ev, f), val) = Whole(ev, val)
    <3>1. ev \in Seq(ShellMsg) /\ f \in ShellMsg
      BY <2>3, <2>4
    <3>2. Whole(Append(ev, f), val) = Whole(ev, val) \cup val[f]
      BY <3>1, OneMoreItem
    <3> QED BY <2>3, <3>2
  <2>6. Grounded(Append(ev, f), val, QueuedIn(log, rf, sh))
    <3>1. Grounded(ev, val, QueuedIn(log, rf, sh))
      BY <2>1, <2>4 DEF Reading
    <3> QED BY <2>3, <2>4, <3>1, OneMoreItem
  <2>7. Reading(e, log, rf, sh, side[e].pos, Append(ev, f))
    BY <2>1, <2>4, <2>5, <2>6 DEF Reading, ComingIn
  <2>8. Reading(e, log', refused', shell'[e], side'[e].pos, toShell'[e])
    BY <1>1, <2>2, <2>3, <2>4, <2>7
  <2>9. Writing(e, LoggedIn(log', refused'), shell'[e].phase, side'[e].nextSeq, side'[e].outbox)
    BY <1>1, <2>3 DEF Flows
  <2> QED BY <1>1, <1>6, <1>7, <2>8, <2>9, FlowsStep
<1>12. CASE m.t = "resync" /\ GotResync(e)
  <2>1. /\ side'[e].pos = [s \in Editors |-> -1] /\ toShell'[e] = toShell[e]
        /\ side'[e].nextSeq = side[e].nextSeq /\ side'[e].outbox = side[e].outbox
    BY <1>12 DEF GotResync, SideBut
  <2> QED BY <1>1, <2>1, StillFlows
<1> QED BY <1>2, <1>8, <1>9, <1>10, <1>11, <1>12

(* Any step of a shell leaves no hole in a stream.                         *)
LEMMA ShellFlows ==
  ASSUME Base, Base', Replicas, Flows, NEW e \in Editors, ShellStep(e)
  PROVE  Flows'
<1>1. Types
  BY DEF Base
<1>2. CASE Save(e)
  BY <1>1, <1>2, SaveDoes, StillFlows
<1>3. CASE KeepMine(e)
  BY <1>1, <1>3, KeepMineDoes, StillFlows
<1>4. CASE AskResync(e)
  BY <1>1, <1>4, AskResyncDoes, StillFlows DEF ShellBut
<1>5. CASE HearHeads(e)
  BY <1>1, <1>5, HearHeadsDoes, StillFlows DEF ShellBut
<1> QED BY <1>2, <1>3, <1>4, <1>5, EditFlows, LeaveFlows, HearFlows DEF ShellStep

(* One more update in the log leaves no hole in a stream.                  *)
LEMMA LogStepFlows ==
  ASSUME Base, Base', Flows, NEW e \in Editors, Sends(e, "update"), LogGets(e), Others(e),
         UNCHANGED <<versions, shell, toSide, toShell, refused>>,
         side'[e].nextSeq = side[e].nextSeq, side'[e].pos = side[e].pos,
         side'[e].outbox \in {side[e].outbox, Tail(side[e].outbox)}
  PROVE  Flows'
<1>1. PICK n, x, a, b, box : /\ n = Len(log) /\ x = First1(e).edit /\ a = LoggedIn(log, refused)
                             /\ b = LoggedIn(log', refused') /\ box = side[e].outbox
  OBVIOUS
<1>2. /\ n \in Nat /\ Len(log') = n + 1 /\ log'[n + 1].edit = x
      /\ \A i \in 1 .. n : log'[i] = log[i]
  <2>1. PICK r : r = [by |-> e, seq |-> First1(e).seq, edit |-> First1(e).edit]
    OBVIOUS
  <2>2. log' = Append(log, r) /\ First1(e) \in UpdateItem /\ log \in Seq(LogT)
    BY <2>1, SendsDoes DEF LogGets, Base, Types
  <2>3. r \in LogT /\ r.edit = First1(e).edit
    BY <2>1, <2>2 DEF UpdateItem, LogT
  <2> QED BY <1>1, <2>2, <2>3, AppendFacts
<1>3. box \in Seq(UpdateItem \cup VersionItem) /\ box # <<>> /\ box[1].t = "update" /\ box[1].edit = x
  BY <1>1, SendsDoes DEF First1, Base
<1>4. a \cup HeadEdit(box) \subseteq b
  BY <1>1, LogGrows DEF Logged, LoggedIn
<1>5. Writing(e, a, shell[e].phase, side[e].nextSeq, box) /\ LogFlows(log, refused)
  BY <1>1 DEF Flows
<1>6. Writing(e, b, shell[e].phase, side[e].nextSeq, Tail(box)) /\ Lower(x) \subseteq a
  BY <1>3, <1>4, <1>5, WritingPops
<1>7. Writing(e, b, shell[e].phase, side[e].nextSeq, box)
  BY <1>4, <1>5, WritingKept
<1>8. LogFlows(log', refused')
  <2>1. \A i \in 1 .. n : Lower(log'[i].edit) \subseteq a
    BY <1>1, <1>2, <1>5 DEF LogFlows
  <2>2. \A i \in 1 .. n + 1 : i \in 1 .. n \/ i = n + 1
    BY <1>2
  <2>3. \A i \in 1 .. n + 1 : Lower(log'[i].edit) \subseteq b
    BY <1>2, <1>4, <1>6, <2>1, <2>2
  <2> QED BY <1>1, <1>2, <2>3 DEF LogFlows
<1>9. Writing(e, LoggedIn(log', refused'), shell'[e].phase, side'[e].nextSeq, side'[e].outbox)
  BY <1>1, <1>6, <1>7
<1>10. Len(log) <= Len(log') /\ \A i \in 1 .. Len(log) : log'[i] = log[i]
  BY <1>1, <1>2
<1> QED BY <1>8, <1>9, <1>10, WritingStep

(* An item that leaves the outbox leaves no hole in a stream.              *)
LEMMA PopFlows ==
  ASSUME Base, Base', Flows, NEW e \in Editors, Others(e), UNCHANGED <<log, shell, toShell>>,
         side[e].outbox # <<>>, side'[e].outbox = Tail(side[e].outbox),
         side'[e].nextSeq = side[e].nextSeq, side'[e].pos = side[e].pos,
         refused \cup HeadEdit(side[e].outbox) \subseteq refused' \/ (UNCHANGED refused /\ HeadEdit(side[e].outbox) = {})
  PROVE  Flows'
<1>1. PICK a, b, box : a = LoggedIn(log, refused) /\ b = LoggedIn(log', refused') /\ box = side[e].outbox
  OBVIOUS
<1>2. box \in Seq(UpdateItem \cup VersionItem) /\ box # <<>> /\ refused \subseteq refused'
  BY <1>1, HeldFacts, EditorFacts
<1>3. a \cup HeadEdit(box) \subseteq b
  BY <1>1 DEF LoggedIn
<1>4. Writing(e, a, shell[e].phase, side[e].nextSeq, box) /\ LogFlows(log, refused)
  BY <1>1 DEF Flows
<1>5. Writing(e, b, shell[e].phase, side[e].nextSeq, Tail(box))
  BY <1>2, <1>3, <1>4, WritingPops
<1>6. LogFlows(log', refused')
  BY <1>1, <1>3, <1>4 DEF LogFlows
<1>7. Writing(e, LoggedIn(log', refused'), shell'[e].phase, side'[e].nextSeq, side'[e].outbox)
  BY <1>1, <1>5
<1>8. Len(log) <= Len(log') /\ \A i \in 1 .. Len(log) : log'[i] = log[i]
  BY SeqFacts DEF Base, Types
<1> QED BY <1>2, <1>6, <1>7, <1>8, WritingStep

(* Any step of flush leaves no hole in a stream.                           *)
LEMMA FlushFlows ==
  ASSUME Base, Base', Flows, NEW e \in Editors, FlushStep(e)
  PROVE  Flows'
<1>1. Types
  BY DEF Base
<1>2. CASE UpdateAccepted(e)
  <2>1. Sends(e, "update")
    BY <1>2 DEF UpdateAccepted
  <2>2. /\ Others(e) /\ UNCHANGED <<versions, shell, toSide, toShell, refused>> /\ LogGets(e)
        /\ side'[e].nextSeq = side[e].nextSeq /\ side'[e].pos = side[e].pos
        /\ side'[e].outbox = Tail(side[e].outbox)
    BY <1>1, <1>2, UpdateAcceptedDoes DEF SideBut, PoppedOff
  <2> QED BY <2>1, <2>2, LogStepFlows
<1>3. CASE UpdateAnswerLost(e)
  <2>1. Sends(e, "update")
    BY <1>3 DEF UpdateAnswerLost
  <2>2. /\ Others(e) /\ UNCHANGED <<versions, shell, toSide, toShell, refused>> /\ LogGets(e)
        /\ side'[e].nextSeq = side[e].nextSeq /\ side'[e].pos = side[e].pos
        /\ side'[e].outbox = side[e].outbox
    BY <1>1, <1>3, UpdateAnswerLostDoes DEF SideBut
  <2> QED BY <2>1, <2>2, LogStepFlows
<1>4. CASE UpdateRefused(e)
  <2>1. Sends(e, "update")
    BY <1>4 DEF UpdateRefused
  <2>2. First1(e).t = "update" /\ side[e].outbox # <<>>
    BY <1>1, <2>1, SendsDoes
  <2>3. /\ Others(e) /\ UNCHANGED <<log, shell, toShell>>
        /\ refused' = refused \cup {First1(e).edit}
        /\ side'[e].nextSeq = side[e].nextSeq /\ side'[e].pos = side[e].pos
        /\ side'[e].outbox = Tail(side[e].outbox)
    BY <1>1, <1>4, UpdateRefusedDoes DEF SideBut, PoppedOff
  <2>4. refused \cup HeadEdit(side[e].outbox) \subseteq refused'
    BY <2>2, <2>3 DEF HeadEdit, First1
  <2> QED BY <2>2, <2>3, <2>4, PopFlows
<1>5. CASE VersionAccepted(e)
  <2>1. /\ Others(e) /\ UNCHANGED <<log, shell, toShell, refused>> /\ Sends(e, "version")
        /\ side'[e].nextSeq = side[e].nextSeq /\ side'[e].pos = side[e].pos
        /\ side'[e].outbox = Tail(side[e].outbox)
    BY <1>1, <1>5, VersionAcceptedDoes DEF SideBut, PoppedOff
  <2>2. side[e].outbox # <<>> /\ HeadEdit(side[e].outbox) = {}
    BY <1>1, <2>1, SendsDoes DEF HeadEdit, First1
  <2> QED BY <2>1, <2>2, PopFlows
<1>6. CASE VersionRefused(e)
  <2>1. /\ Others(e) /\ UNCHANGED <<log, shell, toShell, refused>> /\ Sends(e, "version")
        /\ side'[e].nextSeq = side[e].nextSeq /\ side'[e].pos = side[e].pos
        /\ side'[e].outbox = Tail(side[e].outbox)
    BY <1>1, <1>6, VersionRefusedDoes DEF SideBut, PoppedOff, VersionRefused
  <2>2. side[e].outbox # <<>> /\ HeadEdit(side[e].outbox) = {}
    BY <1>1, <2>1, SendsDoes DEF HeadEdit, First1
  <2> QED BY <2>1, <2>2, PopFlows
<1>7. CASE ReadOrder(e)
  <2>1. /\ Others(e) /\ UNCHANGED <<log, refused, shell, toShell>>
        /\ side'[e].nextSeq = side[e].nextSeq /\ side'[e].pos = side[e].pos
            /\ side'[e].outbox = side[e].outbox
    BY <1>1, <1>7, ReadOrderDoes DEF SideBut
  <2> QED BY <2>1, StillFlows
<1>8. CASE VersionAnswerLost(e)
  <2>1. /\ Others(e) /\ UNCHANGED <<log, refused, shell, toShell>>
        /\ side'[e].nextSeq = side[e].nextSeq /\ side'[e].pos = side[e].pos
            /\ side'[e].outbox = side[e].outbox
    BY <1>1, <1>8, VersionAnswerLostDoes DEF SideBut
  <2> QED BY <2>1, StillFlows
<1>9. CASE VersionFailed(e)
  <2>1. /\ Others(e) /\ UNCHANGED <<log, refused, shell, toShell>>
        /\ side'[e].nextSeq = side[e].nextSeq /\ side'[e].pos = side[e].pos
            /\ side'[e].outbox = side[e].outbox
    BY <1>1, <1>9, VersionFailedDoes DEF SideBut
  <2> QED BY <2>1, StillFlows
<1> QED BY <1>2, <1>3, <1>4, <1>5, <1>6, <1>7, <1>8, <1>9 DEF FlushStep

(* What a stream has before the place where a receiver starts is refused, or  *)
(* has come or is on its way.                                                *)
LEMMA BeforeTheStart ==
  ASSUME Base, Flows, NEW e \in Editors, shell[e].phase # "left",
         NEW s \in Editors \ {e}, Reads(side[e], s, Len(log)),
         NEW j \in 0 .. Start(side[e], s, Len(log)) - 1
  PROVE  <<s, j>> \in ComingIn(log, refused, shell[e], toShell[e])
<1>1. PICK st, r : st = Start(side[e], s, Len(log)) /\ r = Reach(side[e], s, Len(log))
  OBVIOUS
<1>2. /\ st \in 0 .. MaxEdits + 1 /\ r \in st .. MaxEdits + 1
      /\ \A k \in st .. r - 1 : k \in Numbers(s, Len(log))
      /\ side[e].pos[s] # -1 => st = side[e].pos[s]
      /\ side[e].pos[s] = -1 => st < r /\ \A k \in Numbers(s, Len(log)) : st <= k
  BY <1>1, ReachFacts
<1>3. MaxEdits \in Nat
  BY LogFacts
<1>4. CASE side[e].pos[s] # -1
  <2>1. j \in 0 .. side[e].pos[s] - 1
    BY <1>1, <1>2, <1>4
  <2> QED BY <2>1 DEF Flows, Reading
<1>5. CASE side[e].pos[s] = -1
  <2>1. st \in st .. r - 1
    BY <1>2, <1>3, <1>5
  <2>2. st \in Numbers(s, Len(log))
    BY <1>2, <2>1
  <2>3. PICK i \in 1 .. Len(log) : log[i].by = s /\ log[i].seq = st
    BY <2>2 DEF Numbers, Stream
  <2>4. log[i].edit = <<s, st>>
    BY <2>3, LogFacts
  <2>5. <<s, j>> \in Lower(log[i].edit)
    BY <1>1, <2>4 DEF Lower
  <2>6. <<s, j>> \in LoggedIn(log, refused)
    BY <2>5 DEF Flows, LogFlows
  <2>7. <<s, j>> \notin {log[k].edit : k \in 1 .. Len(log)}
    <3> SUFFICES ASSUME NEW k \in 1 .. Len(log), log[k].edit = <<s, j>> PROVE FALSE
      OBVIOUS
    <3>1. log[k].by = s /\ log[k].seq = j
      BY LogFacts
    <3>2. j \in Numbers(s, Len(log))
      BY <3>1 DEF Numbers, Stream
    <3>3. st <= j /\ j < st
      BY <1>1, <1>2, <1>3, <1>5, <3>2
    <3> QED BY <1>2, <1>3, <3>3
  <2>8. <<s, j>> \in refused
    BY <2>6, <2>7 DEF LoggedIn
  <2> QED BY <2>8 DEF ComingIn, QueuedIn, HaveIn
<1> QED BY <1>4, <1>5

(* The new events: each is behind all that its stream has before it.          *)
LEMMA NewEvents ==
  ASSUME Base, Flows, NEW e \in Editors, shell[e].phase # "left", NEW q, q = UpdateEvents(Taken(e))
  PROVE  /\ q \in Seq(ShellMsg)
         /\ Grounded(q, EventEdits(log), ComingIn(log, refused, shell[e], toShell[e]))
         /\ \A s \in Editors \ {e} : Reads(side[e], s, Len(log)) =>
               \A j \in 0 .. Reach(side[e], s, Len(log)) - 1 :
                  <<s, j>> \in ComingIn(log, refused, shell[e], toShell[e]) \cup Whole(q, EventEdits(log))
<1>1. /\ Taken(e) \in SUBSET (1 .. Len(log))
      /\ \A i, j \in Taken(e) : log[i].by = log[j].by /\ log[i].seq = log[j].seq => i = j
  BY TakenFacts
<1>2. /\ q \in Seq(ShellMsg) /\ Len(q) \in Nat /\ DOMAIN q = 1 .. Len(q)
      /\ \A p \in 1 .. Len(q) : /\ q[p].id \in Taken(e)
                                /\ q[p].t = IF q[p].id = GenesisId THEN "genesis" ELSE "update"
      /\ \A i \in Taken(e) : \E p \in 1 .. Len(q) : q[p].id = i
      /\ \A a, b \in 1 .. Len(q) : a < b => DeliveryOrder(q[a].id, q[b].id)
  BY <1>1, EventsFacts
<1>3. PICK val, come : val = EventEdits(log) /\ come = ComingIn(log, refused, shell[e], toShell[e])
  OBVIOUS
<1>4. \A p \in DOMAIN q : val[q[p]] = {log[q[p].id].edit}
  <2>1. \A p \in DOMAIN q : q[p] \in ShellMsg /\ q[p].t # "file"
    BY <1>2, SeqFacts
  <2> QED BY <1>3, <2>1 DEF EventEdits
<1>5. MaxEdits \in Nat
  BY LogFacts
<1>6. ASSUME NEW s \in Editors \ {e}, Reads(side[e], s, Len(log)),
             NEW j \in 0 .. Reach(side[e], s, Len(log)) - 1
      PROVE  \/ <<s, j>> \in come
             \/ \E i \in Taken(e) : log[i].by = s /\ log[i].seq = j /\ log[i].edit = <<s, j>>
  <2>1. PICK st, r : st = Start(side[e], s, Len(log)) /\ r = Reach(side[e], s, Len(log))
    OBVIOUS
  <2>2. st \in 0 .. MaxEdits + 1 /\ r \in st .. MaxEdits + 1
    BY <1>6, <2>1, ReachFacts
  <2>3. j \in 0 .. st - 1 \/ j \in st .. r - 1
    BY <1>5, <2>1, <2>2
  <2>4. CASE j \in 0 .. st - 1
    BY <1>3, <1>6, <2>1, <2>4, BeforeTheStart
  <2>5. CASE j \in st .. r - 1
    <3>1. PICK i \in Accepts(side[e], Len(log)) : log[i].by = s /\ log[i].seq = j
      BY <1>6, <2>1, <2>5, AcceptsAll
    <3>2. i \in Taken(e)
      BY <3>1 DEF Taken
    <3>3. log[i].edit = <<s, j>>
      BY <1>1, <3>1, <3>2, LogFacts
    <3> QED BY <3>1, <3>2, <3>3
  <2> QED BY <2>3, <2>4, <2>5
<1>7. \A s \in Editors \ {e} : Reads(side[e], s, Len(log)) =>
         \A j \in 0 .. Reach(side[e], s, Len(log)) - 1 : <<s, j>> \in come \cup Whole(q, val)
  <2>1. \A i \in Taken(e) : log[i].edit \in Whole(q, val)
    BY <1>2, <1>4 DEF Whole
  <2> SUFFICES ASSUME NEW s \in Editors \ {e}, Reads(side[e], s, Len(log)),
                      NEW j \in 0 .. Reach(side[e], s, Len(log)) - 1
               PROVE  <<s, j>> \in come \cup Whole(q, val)
    OBVIOUS
  <2>2. CASE <<s, j>> \in come
    BY <2>2
  <2>3. CASE \E i \in Taken(e) : log[i].by = s /\ log[i].seq = j /\ log[i].edit = <<s, j>>
    BY <2>1, <2>3
  <2> QED BY <1>6, <2>2, <2>3
<1>8. Grounded(q, val, come)
  <2> SUFFICES ASSUME NEW p \in DOMAIN q, NEW x \in val[q[p]] PROVE Lower(x) \subseteq come
                        \cup Prior(q, val, p)
    BY DEF Grounded
  <2>1. PICK i, s, n : i = q[p].id /\ s = log[i].by /\ n = log[i].seq
    OBVIOUS
  <2>2. i \in Taken(e) /\ i \in Accepts(side[e], Len(log)) /\ s # e /\ x = log[i].edit
    BY <1>2, <1>4, <2>1 DEF Taken
  <2>3. s \in Editors /\ Reads(side[e], s, Len(log)) /\ n < Reach(side[e], s, Len(log)) /\ i \in 1 .. Len(log)
    BY <2>1, <2>2, AcceptsFacts
  <2>4. x = <<s, n>> /\ n \in 0 .. MaxEdits
    BY <2>1, <2>2, <2>3, LogFacts
  <2> SUFFICES ASSUME NEW j \in 0 .. n - 1 PROVE <<s, j>> \in come \cup Prior(q, val, p)
    BY <2>4 DEF Lower
  <2>5. Reach(side[e], s, Len(log)) \in Int
    BY <1>5, <2>3, ReachFacts
  <2>6. j \in 0 .. Reach(side[e], s, Len(log)) - 1
    BY <1>5, <2>3, <2>4, <2>5
  <2>7. CASE <<s, j>> \in come
    BY <2>7
  <2>8. CASE \E k \in Taken(e) : log[k].by = s /\ log[k].seq = j /\ log[k].edit = <<s, j>>
    <3>1. PICK k \in Taken(e) : log[k].by = s /\ log[k].seq = j /\ log[k].edit = <<s, j>>
      BY <2>8
    <3>2. PICK b \in DOMAIN q : q[b].id = k
      BY <1>2, <3>1
    <3>3. ~DeliveryOrder(i, k) /\ i # k
      <4>1. log[1].seq = 0 /\ GenesisId = 1
        BY LogFacts
      <4>2. n # 0 /\ ~(n < j) /\ n # j
        BY <1>5, <2>4
      <4>3. ~(s < s)
        <5>1. s \in Nat
          BY <2>3, EditorsAssumption
        <5> QED BY <5>1
      <4> QED BY <2>1, <3>1, <4>1, <4>2, <4>3 DEF DeliveryOrder
    <3>4. b < p
      <4>1. p \in 1 .. Len(q) /\ b \in 1 .. Len(q) /\ Len(q) \in Nat
        BY <1>2
      <4>2. ~(p < b) /\ p # b
        BY <1>2, <2>1, <3>2, <3>3, <4>1
      <4> QED BY <4>1, <4>2
    <3>5. <<s, j>> \in val[q[b]]
      BY <1>4, <3>1, <3>2
    <3> QED BY <3>2, <3>4, <3>5 DEF Prior
  <2> QED BY <1>6, <2>2, <2>3, <2>6, <2>7, <2>8
<1> QED BY <1>2, <1>3, <1>7, <1>8

(* Reading the updates leaves no hole in a stream.                         *)
LEMMA PollUpdatesFlows ==
  ASSUME Base, Base', Flows, NEW e \in Editors, PollUpdates(e)
  PROVE  Flows'
<1>1. /\ Others(e) /\ UNCHANGED <<log, versions, shell, toSide, asked, refused>>
      /\ shell[e].phase # "left" /\ Sent(e, UpdateEvents(Taken(e)))
      /\ SideBut(e, {"session", "seen", "pos", "stopped", "applied", "awaiting", "at", "told"})
      /\ \A k \in Editors : side'[e].pos[k] = IF Reads(side[e], k, Len(log)) THEN Reach(side[e], k, Len(log))
                                              ELSE side[e].pos[k]
  BY PollUpdatesDoes
<1>2. PICK q, ev, sh, pos2, val, come :
         /\ q = UpdateEvents(Taken(e)) /\ ev = toShell[e] /\ sh = shell[e] /\ pos2 = side'[e].pos
         /\ val = EventEdits(log) /\ come = ComingIn(log, refused, shell[e], toShell[e])
  OBVIOUS
<1>3. /\ q \in Seq(ShellMsg) /\ Grounded(q, val, come)
      /\ \A s \in Editors \ {e} : Reads(side[e], s, Len(log)) =>
            \A j \in 0 .. Reach(side[e], s, Len(log)) - 1 : <<s, j>> \in come \cup Whole(q, val)
  BY <1>1, <1>2, NewEvents
<1>4. ev \in Seq(ShellMsg) /\ Reading(e, log, refused, sh, side[e].pos, ev)
  BY <1>2, HeldFacts, EditorFacts DEF Flows
<1>5. come = QueuedIn(log, refused, sh) \cup Whole(ev, val)
  BY <1>2 DEF ComingIn
<1>6. Grounded(ev \o q, val, QueuedIn(log, refused, sh))
  <2>1. Grounded(ev, val, QueuedIn(log, refused, sh))
    BY <1>2, <1>4 DEF Reading
  <2>2. Grounded(q, val, QueuedIn(log, refused, sh) \cup Whole(ev, val))
    BY <1>3, <1>5
  <2> QED BY <1>3, <1>4, <2>1, <2>2, GroundedConcat
<1>7. Whole(ev \o q, val) = Whole(ev, val) \cup Whole(q, val)
  BY <1>3, <1>4, WholeConcat
<1>8. ComingIn(log, refused, sh, ev \o q) = come \cup Whole(q, val)
  BY <1>2, <1>5, <1>7 DEF ComingIn
<1>9. ASSUME NEW s \in Editors \ {e}, NEW j \in 0 .. pos2[s] - 1
      PROVE  <<s, j>> \in ComingIn(log, refused, sh, ev \o q)
  <2>1. CASE Reads(side[e], s, Len(log))
    <3>1. pos2[s] = Reach(side[e], s, Len(log))
      BY <1>1, <1>2, <2>1
    <3> QED BY <1>3, <1>8, <2>1, <3>1
  <2>2. CASE ~Reads(side[e], s, Len(log))
    <3>1. pos2[s] = side[e].pos[s]
      BY <1>1, <1>2, <2>2
    <3>2. <<s, j>> \in come
      BY <1>1, <1>2, <1>4, <3>1 DEF Reading
    <3> QED BY <1>8, <3>2
  <2> QED BY <2>1, <2>2
<1>10. Reading(e, log, refused, sh, pos2, ev \o q)
  BY <1>2, <1>4, <1>6, <1>9 DEF Reading
<1>11. Reading(e, log', refused', shell'[e], side'[e].pos, toShell'[e])
  BY <1>1, <1>2, <1>10 DEF Sent
<1>12. Writing(e, LoggedIn(log', refused'), shell'[e].phase, side'[e].nextSeq, side'[e].outbox)
  <2>1. side'[e].nextSeq = side[e].nextSeq /\ side'[e].outbox = side[e].outbox
    BY <1>1 DEF SideBut
  <2> QED BY <1>1, <2>1 DEF Flows
<1>13. LogFlows(log', refused') /\ refused \subseteq refused' /\ Len(log) <= Len(log')
  BY <1>1, SeqFacts DEF Flows, Base, Types
<1>14. \A i \in 1 .. Len(log) : log'[i] = log[i]
  BY <1>1
<1> QED BY <1>1, <1>11, <1>12, <1>13, <1>14, FlowsStep

(* Any step of a read leaves no hole in a stream.                          *)
LEMMA PollFlows ==
  ASSUME Base, Base', Flows, NEW e \in Editors, PollStep(e)
  PROVE  Flows'
<1>1. CASE PollVersions(e)
  <2>1. /\ Others(e) /\ UNCHANGED <<log, refused, shell, toShell>>
        /\ side'[e].nextSeq = side[e].nextSeq /\ side'[e].pos = side[e].pos
            /\ side'[e].outbox = side[e].outbox
    BY <1>1, PollVersionsDoes DEF SideBut
  <2> QED BY <2>1, StillFlows
<1>2. CASE PollFailed(e)
  <2>1. /\ Others(e) /\ UNCHANGED <<log, refused, shell, toShell>>
        /\ side'[e].nextSeq = side[e].nextSeq /\ side'[e].pos = side[e].pos
            /\ side'[e].outbox = side[e].outbox
    BY <1>2, PollFailedDoes DEF SideBut
  <2> QED BY <2>1, StillFlows
<1> QED BY <1>1, <1>2, PollUpdatesFlows DEF PollStep

(* Flows holds initially.                                                  *)
LEMMA InitFlows == Init => Flows
<1> SUFFICES ASSUME Init PROVE Flows
  OBVIOUS
<1>1. Len(log) = 1 /\ log[1].edit = <<Sharer, 0>> /\ refused = {}
  BY DEF Init, Genesis
<1>2. 0 .. 0 - 1 = {} /\ 0 .. -1 - 1 = {} /\ 0 .. 1 - 1 = {0}
  OBVIOUS
<1>3. Lower(<<Sharer, 0>>) = {}
  BY <1>2 DEF Lower
<1>4. LogFlows(log, refused)
  BY <1>1, <1>3 DEF LogFlows
<1>5. ASSUME NEW e \in Editors
      PROVE  /\ Reading(e, log, refused, shell[e], side[e].pos, toShell[e])
             /\ Writing(e, LoggedIn(log, refused), shell[e].phase, side[e].nextSeq, side[e].outbox)
  <2>1. /\ shell[e].replica = (IF e = Sharer THEN {Genesis} ELSE {}) /\ shell[e].queued = <<>>
        /\ side[e].pos = [s \in Editors |-> -1] /\ side[e].nextSeq = (IF e = Sharer THEN 1 ELSE 0)
        /\ side[e].outbox = <<>> /\ toShell[e] = <<>>
    BY InitEditor
  <2>2. \A x \in shell[e].replica : Lower(x) = {}
    BY <1>3, <2>1 DEF Genesis
  <2>3. \A s \in Editors : side[e].pos[s] = -1
    BY <2>1
  <2>n. /\ Whole(<<>>, ItemEdits) = {} /\ Grounded(<<>>, ItemEdits, LoggedIn(log, refused))
        /\ Grounded(<<>>, QueueEdits(log), HaveIn(shell[e], refused))
        /\ Grounded(<<>>, EventEdits(log), QueuedIn(log, refused, shell[e]))
    BY NoItems
  <2>4. Reading(e, log, refused, shell[e], side[e].pos, toShell[e])
    <3>1. \A x \in shell[e].replica : x[1] # e => Lower(x) \subseteq HaveIn(shell[e], refused)
      BY <2>2
    <3>2. \A s \in Editors \ {e} : 0 .. side[e].pos[s] - 1 = {}
      BY <1>2, <2>3
    <3>3. \A s \in Editors \ {e} : \A j \in 0 .. side[e].pos[s] - 1 :
            <<s, j>> \in ComingIn(log, refused, shell[e], toShell[e])
      BY <3>2
    <3> QED BY <2>1, <2>n, <3>1, <3>3 DEF Reading
  <2>5. <<Sharer, 0>> \in LoggedIn(log, refused)
    BY <1>1 DEF LoggedIn
  <2>6. Writing(e, LoggedIn(log, refused), shell[e].phase, side[e].nextSeq, side[e].outbox)
    <3>1. \A k \in 0 .. side[e].nextSeq - 1 : <<e, k>> \in LoggedIn(log, refused)
      <4>1. CASE e = Sharer
        <5>1. 0 .. side[e].nextSeq - 1 = {0}
          BY <1>2, <2>1, <4>1
        <5> QED BY <2>5, <4>1, <5>1
      <4>2. CASE e # Sharer
        <5>1. 0 .. side[e].nextSeq - 1 = {}
          BY <1>2, <2>1, <4>2
        <5> QED BY <5>1
      <4> QED BY <4>1, <4>2
    <3> QED BY <2>1, <2>n, <3>1 DEF Writing
  <2> QED BY <2>4, <2>6
<1> QED BY <1>4, <1>5 DEF Flows

(* Spec 7 rule 2: a replica never has an edit of another stream without    *)
(* all earlier updates of it that were not refused, through the receiver,  *)
(* the pipe of events and the queue of a joining shell.                    *)
THEOREM NoHolesInReplicas == Spec => []StreamsHaveNoHoles
<1>1. Base /\ Base' /\ Replicas /\ Flows /\ [Next]_vars => Flows'
  <2> SUFFICES ASSUME Base, Base', Replicas, Flows, [Next]_vars PROVE Flows'
    OBVIOUS
  <2>1. CASE UNCHANGED vars
    BY <2>1 DEF vars, Flows
  <2> QED BY <2>1, ShellFlows, OnMsgFlows, FlushFlows, PollFlows DEF Next
<1>2. Flows => StreamsHaveNoHoles
  BY DEF Flows, Reading, Lower, HaveIn, StreamsHaveNoHoles
<1> QED BY <1>1, <1>2, InitFlows, BaseHolds, ReplicasHold, PTL DEF Spec

-----------------------------------------------------------------------------
(* 8. What is awaited                                                      *)
(* It is what is in the pipes and in the queue, each id once.              *)

(* What an answer, a queued id, an event stand for: ids.                     *)
AnswerIds == [m \in SideMsg |-> IF m.t \in {"applied", "rejected"} THEN {m.id} ELSE {}]

QueueIds == [i \in Nat |-> {i}]

EventIds == [m \in ShellMsg |-> IF m.t = "file" THEN {} ELSE {m.id}]

(* The ids awaited are those in the pipe of commands q, in the queue and in   *)
(* the pipe of events, each there once.                                      *)
Waits(aw, ap, q, queue, ev) ==
  /\ aw = Whole(q, AnswerIds) \cup Whole(queue, QueueIds) \cup Whole(ev, EventIds)
  /\ Once(q, AnswerIds) /\ Once(queue, QueueIds) /\ Once(ev, EventIds)
  /\ Whole(q, AnswerIds) \cap Whole(queue, QueueIds) = {}
  /\ Whole(q, AnswerIds) \cap Whole(ev, EventIds) = {}
  /\ Whole(queue, QueueIds) \cap Whole(ev, EventIds) = {}
  /\ aw \cap ap = {}

(* They are first copies of others' updates that the receiver has passed, as  *)
(* it has what others wrote of the applied.                                  *)
IsFirst(lg, i) == \A j \in 1 .. Len(lg) : lg[j].by = lg[i].by /\ lg[j].seq = lg[i].seq => i <= j

Met(e, lg, aw, ap, pos) ==
  /\ \A i \in aw : lg[i].by # e /\ lg[i].seq < pos[lg[i].by] /\ IsFirst(lg, i)
  /\ \A i \in ap : lg[i].by # e => lg[i].seq < pos[lg[i].by]

InFlight(e) ==
  /\ Has(toSide[e], "resync") => shell[e].resynced
  /\ ~shell[e].resynced =>
        /\ Waits(side[e].awaiting, side[e].applied, toSide[e], shell[e].queued, toShell[e])
        /\ Met(e, log, side[e].awaiting, side[e].applied, side[e].pos)

Flights == \A e \in Editors : InFlight(e)

(* The log grows, by no update that comes before those it had.               *)
LEMMA MetKept ==
  ASSUME NEW e, NEW lg, NEW aw, NEW ap, NEW pos, Met(e, lg, aw, ap, pos),
         Len(lg) \in Nat, aw \cup ap \subseteq 1 .. Len(lg),
         NEW lg2, Len(lg2) \in Nat, Len(lg) <= Len(lg2), \A i \in 1 .. Len(lg) : lg2[i] = lg[i]
  PROVE  Met(e, lg2, aw, ap, pos)
<1>1. ASSUME NEW i \in aw
      PROVE  lg2[i].by # e /\ lg2[i].seq < pos[lg2[i].by] /\ IsFirst(lg2, i)
  <2>1. i \in 1 .. Len(lg) /\ lg2[i] = lg[i] /\ lg[i].by # e /\ lg[i].seq < pos[lg[i].by] /\ IsFirst(lg, i)
    BY <1>1 DEF Met
  <2>2. ASSUME NEW j \in 1 .. Len(lg2), lg2[j].by = lg2[i].by, lg2[j].seq = lg2[i].seq
        PROVE  i <= j
    <3>1. CASE j \in 1 .. Len(lg)
      BY <2>1, <2>2, <3>1 DEF IsFirst
    <3>2. CASE j \notin 1 .. Len(lg)
      BY <2>1, <3>2
    <3> QED BY <3>1, <3>2
  <2> QED BY <2>1, <2>2 DEF IsFirst
<1>2. ASSUME NEW i \in ap, lg2[i].by # e
      PROVE  lg2[i].seq < pos[lg2[i].by]
  <2>1. lg2[i] = lg[i]
    BY <1>2
  <2> QED BY <1>2, <2>1 DEF Met
<1> QED BY <1>1, <1>2 DEF Met

(* Some of what was in the queue and the pipe of events is now among the      *)
(* answers ms, or in the queue.                                              *)
LEMMA WaitsMoves ==
  ASSUME NEW aw, NEW ap, NEW q \in Seq(SideMsg), NEW queue, NEW ev, Waits(aw, ap, q, queue, ev),
         NEW ms \in Seq(SideMsg), NEW queue2, NEW ev2,
         Once(ms, AnswerIds), Once(queue2, QueueIds), Once(ev2, EventIds),
         Whole(ms, AnswerIds) \cup Whole(queue2, QueueIds) \cup Whole(ev2, EventIds)
            = Whole(queue, QueueIds) \cup Whole(ev, EventIds),
         Whole(ms, AnswerIds) \cap Whole(queue2, QueueIds) = {},
         Whole(ms, AnswerIds) \cap Whole(ev2, EventIds) = {},
         Whole(queue2, QueueIds) \cap Whole(ev2, EventIds) = {}
  PROVE  Waits(aw, ap, q \o ms, queue2, ev2)
<1>1. PICK A, Q, E, B, Q2, E2, val :
         /\ val = AnswerIds /\ A = Whole(q, val) /\ Q = Whole(queue, QueueIds) /\ E = Whole(ev, EventIds)
         /\ B = Whole(ms, val) /\ Q2 = Whole(queue2, QueueIds) /\ E2 = Whole(ev2, EventIds)
  OBVIOUS
<1>2. /\ aw = A \cup Q \cup E /\ A \cap Q = {} /\ A \cap E = {} /\ aw \cap ap = {}
      /\ B \cup Q2 \cup E2 = Q \cup E /\ B \cap Q2 = {} /\ B \cap E2 = {} /\ Q2 \cap E2 = {}
      /\ Once(q, val) /\ Once(ms, val)
  BY <1>1 DEF Waits
<1>3. A \cap B = {}
  BY <1>2
<1>4. Whole(q \o ms, val) = A \cup B /\ Once(q \o ms, val)
  BY <1>1, <1>2, <1>3, WholeConcat
<1>5. aw = (A \cup B) \cup Q2 \cup E2 /\ (A \cup B) \cap Q2 = {} /\ (A \cup B) \cap E2 = {}
  BY <1>2
<1> QED BY <1>1, <1>2, <1>4, <1>5 DEF Waits

(* Only e's part changes.                                                    *)
LEMMA FlightsStep ==
  ASSUME Base, Base', Flights, NEW e \in Editors, Others(e),
         Len(log) <= Len(log'), \A i \in 1 .. Len(log) : log'[i] = log[i],
         Has(toSide'[e], "resync") => shell'[e].resynced,
         ~shell'[e].resynced =>
            /\ Waits(side'[e].awaiting, side'[e].applied, toSide'[e], shell'[e].queued, toShell'[e])
            /\ Met(e, log', side'[e].awaiting, side'[e].applied, side'[e].pos)
  PROVE  Flights'
<1>1. Len(log) \in Nat /\ Len(log') \in Nat
  BY SeqFacts DEF Base, Types
<1>2. ASSUME NEW f \in Editors \ {e}
      PROVE  InFlight(f)'
  <2>1. shell'[f] = shell[f] /\ side'[f] = side[f] /\ toSide'[f] = toSide[f] /\ toShell'[f] = toShell[f]
    BY DEF Others
  <2>2. InFlight(f) /\ side[f].applied \cup side[f].awaiting \subseteq 1 .. Len(log)
    BY HeldSide DEF Flights
  <2>3. ~shell[f].resynced => Met(f, log, side[f].awaiting, side[f].applied, side[f].pos)
    BY <2>2 DEF InFlight
  <2>4. ~shell[f].resynced => Met(f, log', side[f].awaiting, side[f].applied, side[f].pos)
    BY <1>1, <2>2, <2>3, MetKept
  <2> QED BY <2>1, <2>2, <2>4 DEF InFlight
<1>3. InFlight(e)'
  BY DEF InFlight
<1> QED BY <1>2, <1>3 DEF Flights

(* ... and nothing of what is awaited.                                       *)
LEMMA StillFlying ==
  ASSUME Base, Base', Flights, NEW e \in Editors, Others(e),
         Len(log) <= Len(log'), \A i \in 1 .. Len(log) : log'[i] = log[i],
         Has(toSide'[e], "resync") => shell'[e].resynced,
         shell[e].resynced => shell'[e].resynced,
         shell'[e].queued = shell[e].queued, side'[e].awaiting = side[e].awaiting, side'[e].pos = side[e].pos,
         side'[e].applied = side[e].applied, toShell'[e] = toShell[e],
         ~shell[e].resynced =>
            Waits(side[e].awaiting, side[e].applied, toSide'[e], shell[e].queued, toShell[e])
  PROVE  Flights'
<1>1. Len(log) \in Nat /\ Len(log') \in Nat
  BY SeqFacts DEF Base, Types
<1>2. InFlight(e) /\ side[e].applied \cup side[e].awaiting \subseteq 1 .. Len(log)
  BY HeldSide DEF Flights
<1>3. ~shell[e].resynced => Met(e, log, side[e].awaiting, side[e].applied, side[e].pos)
  BY <1>2 DEF InFlight
<1>4. ~shell[e].resynced => Met(e, log', side[e].awaiting, side[e].applied, side[e].pos)
  BY <1>1, <1>2, <1>3, MetKept
<1>5. shell'[e].resynced \/ ~shell[e].resynced
  OBVIOUS
<1>6. ~shell'[e].resynced =>
            /\ Waits(side'[e].awaiting, side'[e].applied, toSide'[e], shell'[e].queued, toShell'[e])
            /\ Met(e, log', side'[e].awaiting, side'[e].applied, side'[e].pos)
  BY <1>4, <1>5
<1> QED BY <1>6, FlightsStep

(* The id an answer stands for.                                            *)
LEMMA AnswerIdOf ==
  ASSUME NEW m \in SideMsg
  PROVE  AnswerIds[m] = IF m.t \in {"applied", "rejected"} THEN {m.id} ELSE {}
BY DEF AnswerIds

(* The id an event stands for.                                             *)
LEMMA EventIdOf ==
  ASSUME NEW m \in ShellMsg
  PROVE  EventIds[m] = IF m.t = "file" THEN {} ELSE {m.id}
BY DEF EventIds

(* One more command that answers nothing.                                    *)
LEMMA WaitsTells ==
  ASSUME NEW aw, NEW ap, NEW q \in Seq(SideMsg), NEW queue, NEW ev, Waits(aw, ap, q, queue, ev),
         NEW m \in SideMsg, m.t \notin {"applied", "rejected"}
  PROVE  Waits(aw, ap, q \o <<m>>, queue, ev)
<1>1. PICK ms, val : ms = <<m>> /\ val = AnswerIds
  OBVIOUS
<1>2. ms \in Seq(SideMsg) /\ Whole(ms, val) = val[m] /\ Once(ms, val)
  BY <1>1, OneFacts, OneItem
<1>3. val[m] = {}
  BY <1>1, AnswerIdOf
<1>4. /\ Once(queue, QueueIds) /\ Once(ev, EventIds) /\ Whole(queue, QueueIds) \cap Whole(ev, EventIds) = {}
  BY DEF Waits
<1>5. /\ Whole(ms, AnswerIds) \cup Whole(queue, QueueIds) \cup Whole(ev, EventIds)
            = Whole(queue, QueueIds) \cup Whole(ev, EventIds)
      /\ Whole(ms, AnswerIds) \cap Whole(queue, QueueIds) = {}
          /\ Whole(ms, AnswerIds) \cap Whole(ev, EventIds) = {}
      /\ Once(ms, AnswerIds)
  BY <1>1, <1>2, <1>3
<1>6. Waits(aw, ap, q \o ms, queue, ev)
  BY <1>2, <1>4, <1>5, WaitsMoves
<1> QED BY <1>1, <1>6

(* The first command, that answers nothing, is taken.                        *)
LEMMA WaitsTakes ==
  ASSUME NEW aw, NEW ap, NEW q \in Seq(SideMsg), q # <<>>, NEW queue, NEW ev, Waits(aw, ap, q, queue, ev),
         q[1].t \notin {"applied", "rejected"}
  PROVE  Waits(aw, ap, Tail(q), queue, ev)
<1>1. q[1] \in SideMsg
  BY TailMembers, SeqFacts
<1>2. AnswerIds[q[1]] = {}
  BY <1>1, AnswerIdOf
<1>3. PICK val : val = AnswerIds
  OBVIOUS
<1>4. Whole(q, val) = val[q[1]] \cup Whole(Tail(q), val) /\ (Once(q, val) => Once(Tail(q), val))
  BY WholeTail
<1>5. Whole(q, AnswerIds) = Whole(Tail(q), AnswerIds) /\ (Once(q, AnswerIds) => Once(Tail(q), AnswerIds))
  BY <1>2, <1>3, <1>4
<1> QED BY <1>5 DEF Waits

(* An answer is taken: it is awaited, and applied from now on.               *)
LEMMA WaitsAnswered ==
  ASSUME NEW aw, NEW ap, NEW q \in Seq(SideMsg), q # <<>>, NEW queue, NEW ev, Waits(aw, ap, q, queue, ev),
         q[1].t \in {"applied", "rejected"}, NEW i, i = q[1].id
  PROVE  i \in aw /\ Waits(aw \ {i}, ap \cup {i}, Tail(q), queue, ev)
<1>1. q[1] \in SideMsg
  BY TailMembers, SeqFacts
<1>2. AnswerIds[q[1]] = {i}
  BY <1>1, AnswerIdOf
<1>3. PICK val, A, T, Q, E : /\ val = AnswerIds /\ A = Whole(q, val) /\ T = Whole(Tail(q), val)
                             /\ Q = Whole(queue, QueueIds) /\ E = Whole(ev, EventIds)
  OBVIOUS
<1>4. A = val[q[1]] \cup T /\ (Once(q, val) => Once(Tail(q), val) /\ val[q[1]] \cap T = {})
  BY <1>3, WholeTail
<1>5. /\ aw = A \cup Q \cup E /\ A \cap Q = {} /\ A \cap E = {} /\ Q \cap E = {} /\ aw \cap ap = {}
      /\ Once(q, val) /\ Once(queue, QueueIds) /\ Once(ev, EventIds)
  BY <1>3 DEF Waits
<1>6. A = {i} \cup T /\ i \notin T /\ Once(Tail(q), val)
  BY <1>2, <1>3, <1>4, <1>5
<1>7. i \in aw /\ aw \ {i} = T \cup Q \cup E /\ T \cap Q = {} /\ T \cap E = {}
        /\ (aw \ {i}) \cap (ap \cup {i}) = {}
  BY <1>5, <1>6
<1> QED BY <1>3, <1>5, <1>6, <1>7 DEF Waits

(* A file event ends the pipe of events, or new ones that none awaits yet.    *)
LEMMA WaitsMore ==
  ASSUME NEW aw, NEW ap, NEW q, NEW queue, NEW ev \in Seq(ShellMsg), Waits(aw, ap, q, queue, ev),
         NEW es \in Seq(ShellMsg), Once(es, EventIds), NEW ap2,
         NEW more, more = Whole(es, EventIds), aw \cap more = {}, (aw \cup more) \cap ap2 = {}
  PROVE  Waits(aw \cup more, ap2, q, queue, ev \o es)
<1>1. PICK val, A, Q, E : /\ val = EventIds /\ E = Whole(ev, val)
                          /\ A = Whole(q, AnswerIds) /\ Q = Whole(queue, QueueIds)
  OBVIOUS
<1>2. /\ aw = A \cup Q \cup E /\ A \cap Q = {} /\ A \cap E = {} /\ Q \cap E = {}
      /\ Once(ev, val) /\ Once(es, val) /\ Once(queue, QueueIds) /\ Once(q, AnswerIds)
  BY <1>1 DEF Waits
<1>3. E \cap more = {}
  BY <1>2
<1>4. Whole(ev \o es, val) = E \cup more /\ Once(ev \o es, val)
  BY <1>1, <1>2, <1>3, WholeConcat
<1>5. /\ aw \cup more = A \cup Q \cup (E \cup more) /\ A \cap (E \cup more) = {} /\ Q \cap (E \cup more) = {}
  BY <1>2
<1> QED BY <1>1, <1>2, <1>4, <1>5 DEF Waits

(* Telling the sidecar something keeps what is awaited on its way.         *)
LEMMA TellsFlights ==
  ASSUME Base, Base', Flights, NEW e \in Editors, Others(e), UNCHANGED <<log, side>>,
         toShell'[e] = toShell[e], shell'[e].queued = shell[e].queued,
         shell[e].resynced => shell'[e].resynced,
         NEW m \in SideMsg, m.t \notin {"applied", "rejected"}, m.t = "resync" => shell'[e].resynced,
         Told(e, <<m>>)
  PROVE  Flights'
<1>1. toSide[e] \in Seq(SideMsg) /\ InFlight(e) /\ Len(log) \in Nat
  BY HeldFacts, EditorFacts DEF Flights
<1>2. PICK ms : ms = <<m>>
  OBVIOUS
<1>3. ms \in Seq(SideMsg) /\ toSide'[e] = toSide[e] \o ms
  BY <1>2, OneFacts DEF Told
<1>4. Has(ms, "resync") => shell'[e].resynced
  <2>1. Len(ms) = 1 /\ ms[1] = m /\ DOMAIN ms = 1 .. Len(ms)
    BY <1>2, <1>3, OneFacts, SeqFacts
  <2> QED BY <2>1 DEF Has
<1>5. Has(toSide'[e], "resync") => shell'[e].resynced
  BY <1>1, <1>3, <1>4, HasConcat DEF InFlight
<1>6. ~shell[e].resynced => Waits(side[e].awaiting, side[e].applied, toSide'[e], shell[e].queued, toShell[e])
  <2> SUFFICES ASSUME ~shell[e].resynced
               PROVE  Waits(side[e].awaiting, side[e].applied, toSide[e] \o ms, shell[e].queued, toShell[e])
    BY <1>3
  <2>1. PICK aw, ap, q, queue, ev : /\ aw = side[e].awaiting /\ ap = side[e].applied /\ q = toSide[e]
                                    /\ queue = shell[e].queued /\ ev = toShell[e]
    OBVIOUS
  <2>2. Waits(aw, ap, q, queue, ev) /\ q \in Seq(SideMsg)
    BY <1>1, <2>1 DEF InFlight
  <2>3. Waits(aw, ap, q \o <<m>>, queue, ev)
    BY <2>2, WaitsTells
  <2> QED BY <1>2, <2>1, <2>3
<1>7. Len(log) <= Len(log') /\ \A i \in 1 .. Len(log) : log'[i] = log[i]
  BY <1>1
<1>8. side'[e].awaiting = side[e].awaiting /\ side'[e].pos = side[e].pos /\ side'[e].applied = side[e].applied
  OBVIOUS
<1> QED BY <1>5, <1>6, <1>7, <1>8, StillFlying

(* A local edit keeps what is awaited on its way.                          *)
LEMMA EditFlights ==
  ASSUME Base, Base', Flights, NEW e \in Editors, Edit(e)
  PROVE  Flights'
<1>1. /\ Others(e) /\ UNCHANGED <<log, versions, side, toShell>> /\ ShellBut(e, {"replica", "edits"})
      /\ EditOf(e) \in AllEdits /\ Told(e, <<[t |-> "update", edit |-> EditOf(e)]>>) /\ Types
  BY EditDoes, HeldFacts
<1>2. PICK m : m = [t |-> "update", edit |-> EditOf(e)]
  OBVIOUS
<1>3. m \in SideMsg /\ m.t = "update" /\ Told(e, <<m>>)
  BY <1>1, <1>2 DEF SideMsg, UpdateMsg
<1>4. toShell'[e] = toShell[e] /\ shell'[e].queued = shell[e].queued /\ shell'[e].resynced = shell[e].resynced
  BY <1>1 DEF ShellBut
<1> QED BY <1>1, <1>3, <1>4, TellsFlights

(* A save or a merge keeps what is awaited on its way.                     *)
LEMMA SaveFlights ==
  ASSUME Base, Base', Flights, NEW e \in Editors, Save(e) \/ KeepMine(e)
  PROVE  Flights'
<1>1. Types /\ Others(e) /\ UNCHANGED <<log, versions, side, toShell, shell>>
  BY HeldFacts, SaveDoes, KeepMineDoes
<1>2. PICK m \in SideMsg : m.t = "version" /\ Told(e, <<m>>)
  <2>1. CASE Save(e)
    BY <1>1, <2>1, SaveDoes
  <2>2. CASE KeepMine(e)
    BY <1>1, <2>2, KeepMineDoes
  <2> QED BY <2>1, <2>2
<1>3. toShell'[e] = toShell[e] /\ shell'[e].queued = shell[e].queued /\ shell'[e].resynced = shell[e].resynced
  BY <1>1
<1> QED BY <1>1, <1>2, <1>3, TellsFlights

(* Asking for a resync keeps what is awaited on its way.                   *)
LEMMA AskResyncFlights ==
  ASSUME Base, Base', Flights, NEW e \in Editors, AskResync(e)
  PROVE  Flights'
<1>1. /\ Others(e) /\ UNCHANGED <<log, versions, side, toShell>> /\ ShellBut(e, {"resynced"})
      /\ shell'[e].resynced = TRUE
      /\ [t |-> "resync"] \in SideMsg /\ Told(e, <<[t |-> "resync"]>>)
  BY AskResyncDoes, HeldFacts
<1>2. PICK m : m = [t |-> "resync"]
  OBVIOUS
<1>3. m \in SideMsg /\ m.t = "resync" /\ Told(e, <<m>>)
  BY <1>1, <1>2
<1>4. toShell'[e] = toShell[e] /\ shell'[e].queued = shell[e].queued
  BY <1>1 DEF ShellBut
<1> QED BY <1>1, <1>3, <1>4, TellsFlights

(* Leaving the session keeps what is awaited on its way.                   *)
LEMMA LeaveFlights ==
  ASSUME Base, Base', Flights, NEW e \in Editors, Leave(e)
  PROVE  Flights'
<1>1. /\ Others(e) /\ UNCHANGED <<log, versions>>
      /\ ShellBut(e, {"phase", "queued"}) /\ shell'[e].queued = <<>>
      /\ SideBut(e, {"outbox", "awaiting", "at", "order"}) /\ side'[e].awaiting = {}
      /\ toSide'[e] = <<>> /\ toShell'[e] = <<>>
  BY LeaveDoes, HeldFacts
<1>2. InFlight(e) /\ Len(log) \in Nat
  BY HeldFacts, EditorFacts DEF Flights
<1>3. /\ side'[e].applied = side[e].applied /\ side'[e].pos = side[e].pos
          /\ shell'[e].resynced = shell[e].resynced
  BY <1>1 DEF ShellBut, SideBut
<1>4. PICK none : none = {}
  OBVIOUS
<1>5. /\ Whole(<<>>, AnswerIds) = {} /\ Once(<<>>, AnswerIds) /\ Whole(<<>>, QueueIds) = {}
          /\ Once(<<>>, QueueIds)
      /\ Whole(<<>>, EventIds) = {} /\ Once(<<>>, EventIds)
  BY NoItems
<1>6. Waits({}, side[e].applied, <<>>, <<>>, <<>>)
  BY <1>5 DEF Waits
<1>7. ~shell[e].resynced => Met(e, log, {}, side[e].applied, side[e].pos)
  BY <1>2 DEF InFlight, Met
<1>8. ~Has(toSide'[e], "resync")
  BY <1>1 DEF Has
<1>9. ~shell'[e].resynced =>
            /\ Waits(side'[e].awaiting, side'[e].applied, toSide'[e], shell'[e].queued, toShell'[e])
            /\ Met(e, log', side'[e].awaiting, side'[e].applied, side'[e].pos)
  BY <1>1, <1>3, <1>6, <1>7
<1>10. Len(log) <= Len(log') /\ \A i \in 1 .. Len(log) : log'[i] = log[i]
  BY <1>1, <1>2
<1> QED BY <1>1, <1>8, <1>9, <1>10, FlightsStep

(* Taking the heads event keeps what is awaited on its way.                *)
LEMMA HearHeadsFlights ==
  ASSUME Base, Base', Flights, NEW e \in Editors, HearHeads(e)
  PROVE  Flights'
<1>1. Others(e) /\ UNCHANGED <<log, side, toSide, toShell>> /\ ShellBut(e, {"shown"})
  BY HearHeadsDoes, HeldFacts
<1>2. InFlight(e) /\ Len(log) \in Nat
  BY HeldFacts, EditorFacts DEF Flights
<1>3. shell'[e].queued = shell[e].queued /\ shell'[e].resynced = shell[e].resynced
  BY <1>1 DEF ShellBut
<1> QED BY <1>1, <1>2, <1>3, StillFlying DEF InFlight

(* What is heard, and how it is answered, goes on being awaited.             *)
LEMMA HeardFlights ==
  ASSUME Base, Base', Flights, NEW e \in Editors, Others(e), UNCHANGED <<log, side>>,
         shell'[e].resynced = shell[e].resynced, NEW ms \in Seq(SideMsg), toSide'[e] = toSide[e] \o ms,
         ~Has(ms, "resync"),
         NEW queue2, queue2 = shell'[e].queued, NEW ev2, ev2 = toShell'[e],
         ~shell[e].resynced =>
            Waits(side[e].awaiting, side[e].applied, toSide[e] \o ms, queue2, ev2)
  PROVE  Flights'
<1>1. toSide[e] \in Seq(SideMsg) /\ InFlight(e) /\ Len(log) \in Nat
  BY HeldFacts, EditorFacts DEF Flights
<1>2. Has(toSide'[e], "resync") => shell'[e].resynced
  BY <1>1, HasConcat DEF InFlight
<1>3. ~shell'[e].resynced =>
            /\ Waits(side'[e].awaiting, side'[e].applied, toSide'[e], shell'[e].queued, toShell'[e])
            /\ Met(e, log', side'[e].awaiting, side'[e].applied, side'[e].pos)
  BY <1>1 DEF InFlight
<1>4. Len(log) <= Len(log') /\ \A i \in 1 .. Len(log) : log'[i] = log[i]
  BY <1>1
<1> QED BY <1>2, <1>3, <1>4, FlightsStep

(* The answers to the queue answer each of it once.                          *)
LEMMA AnswersToAll ==
  ASSUME Types, NEW e \in Editors
  PROVE  /\ Whole(AnswersToQueue(e), AnswerIds) = Whole(shell[e].queued, QueueIds)
         /\ Once(shell[e].queued, QueueIds) => Once(AnswersToQueue(e), AnswerIds)
<1>1. shell[e].queued \in Seq(Nat)
  BY EditorFacts
<1>2. DOMAIN AnswersToQueue(e) = DOMAIN shell[e].queued
  BY DEF AnswersToQueue
<1>3. ASSUME NEW i \in DOMAIN shell[e].queued
      PROVE  AnswerIds[AnswersToQueue(e)[i]] = QueueIds[shell[e].queued[i]]
  <2>1. PICK k : k = shell[e].queued[i]
    OBVIOUS
  <2>2. k \in Nat
    BY <1>1, <2>1, SeqFacts
  <2>3. AnswersToQueue(e)[i] = Answer(k)
    BY <2>1 DEF AnswersToQueue
  <2>4. AnswerIds[Answer(k)] = {k}
    BY <2>2, AnswerTypes, AnswerIdOf
  <2>5. QueueIds[k] = {k}
    BY <2>2 DEF QueueIds
  <2> QED BY <2>1, <2>3, <2>4, <2>5
<1>4. PICK r, q, v, w : r = AnswersToQueue(e) /\ q = shell[e].queued /\ v = AnswerIds /\ w = QueueIds
  OBVIOUS
<1>5. DOMAIN r = DOMAIN q /\ \A i \in DOMAIN q : v[r[i]] = w[q[i]]
  BY <1>2, <1>3, <1>4
<1>6. Whole(r, v) = Whole(q, w) /\ (Once(q, w) => Once(r, v))
  BY <1>5 DEF Whole, Once
<1> QED BY <1>4, <1>6

(* The first event is answered.                                              *)
LEMMA WaitsHeard ==
  ASSUME NEW aw, NEW ap, NEW q \in Seq(SideMsg), NEW queue,
         NEW ev \in Seq(ShellMsg), Waits(aw, ap, q, queue, ev),
         ev # <<>>, ev[1].t # "file",
         NEW ms \in Seq(SideMsg), Whole(ms, AnswerIds) = {ev[1].id}, Once(ms, AnswerIds)
  PROVE  Waits(aw, ap, q \o ms, queue, Tail(ev))
<1>1. ev[1] \in ShellMsg
  BY TailMembers, SeqFacts
<1>2. EventIds[ev[1]] = {ev[1].id}
  BY <1>1, EventIdOf
<1>3. PICK val, E, T, i, Q : val = EventIds /\ E = Whole(ev, val) /\ T = Whole(Tail(ev), val) /\ i = ev[1].id
                             /\ Q = Whole(queue, QueueIds)
  OBVIOUS
<1>4. E = val[ev[1]] \cup T /\ (Once(ev, val) => Once(Tail(ev), val) /\ val[ev[1]] \cap T = {})
  BY <1>3, WholeTail
<1>5. Once(ev, val) /\ Once(queue, QueueIds) /\ Q \cap E = {}
  BY <1>3 DEF Waits
<1>6. E = {i} \cup T /\ {i} \cap T = {} /\ Once(Tail(ev), val) /\ {i} \cap Q = {} /\ Q \cap T = {}
  BY <1>2, <1>3, <1>4, <1>5
<1>7. {i} \cup Q \cup T = Q \cup E
  BY <1>6
<1>8. Whole(ms, AnswerIds) = {i}
  BY <1>3
<1>9. PICK tl : tl = Tail(ev)
  OBVIOUS
<1>10. /\ Once(tl, EventIds) /\ Whole(tl, EventIds) = T /\ Once(queue, QueueIds)
       /\ Whole(ms, AnswerIds) \cup Whole(queue, QueueIds) \cup Whole(tl, EventIds)
            = Whole(queue, QueueIds) \cup Whole(ev, EventIds)
       /\ Whole(ms, AnswerIds) \cap Whole(queue, QueueIds) = {}
       /\ Whole(ms, AnswerIds) \cap Whole(tl, EventIds) = {}
       /\ Whole(queue, QueueIds) \cap Whole(tl, EventIds) = {}
  BY <1>3, <1>5, <1>6, <1>7, <1>8, <1>9
<1>11. Waits(aw, ap, q \o ms, queue, tl)
  BY <1>10, WaitsMoves
<1> QED BY <1>9, <1>11

(* It is queued.                                                             *)
LEMMA WaitsQueued ==
  ASSUME NEW aw, NEW ap, NEW q \in Seq(SideMsg), NEW queue \in Seq(Nat), NEW ev \in Seq(ShellMsg),
         Waits(aw, ap, q, queue, ev), ev # <<>>, ev[1].t # "file"
  PROVE  Waits(aw, ap, q, Append(queue, ev[1].id), Tail(ev))
<1>1. ev[1] \in ShellMsg
  BY TailMembers, SeqFacts
<1>2. EventIds[ev[1]] = {ev[1].id} /\ ev[1].id \in Nat
  BY <1>1, EventIdOf, EventTypes
<1>3. PICK val, E, T, i, Q, w, one : val = EventIds /\ E = Whole(ev, val) /\ T = Whole(Tail(ev), val)
        /\ i = ev[1].id
                             /\ w = QueueIds /\ Q = Whole(queue, w) /\ one = <<i>>
  OBVIOUS
<1>4. E = val[ev[1]] \cup T /\ (Once(ev, val) => Once(Tail(ev), val) /\ val[ev[1]] \cap T = {})
  BY <1>3, WholeTail
<1>5. Once(ev, val) /\ Once(queue, w) /\ Q \cap E = {}
  BY <1>3 DEF Waits
<1>6. E = {i} \cup T /\ {i} \cap T = {} /\ Once(Tail(ev), val) /\ {i} \cap Q = {} /\ Q \cap T = {}
  BY <1>2, <1>3, <1>4, <1>5
<1>7. Append(queue, i) = queue \o one /\ one \in Seq(Nat)
  <2>1. i \in Nat
    BY <1>2, <1>3
  <2>2. Append(queue, i) = queue \o <<i>> /\ <<i>> \in Seq(Nat)
    BY <2>1, OneAppended
  <2> QED BY <1>3, <2>2
<1>8. w[i] = {i}
  BY <1>2, <1>3 DEF QueueIds
<1>9. Whole(one, w) = {i} /\ Once(one, w)
  <2>1. Whole(<<i>>, w) = w[i] /\ Once(<<i>>, w)
    BY OneItem
  <2> QED BY <1>3, <1>8, <2>1
<1>10. Whole(queue \o one, w) = Q \cup {i} /\ Once(queue \o one, w)
  <2>1. queue \in Seq(Nat) /\ one \in Seq(Nat) /\ Once(queue, w) /\ Once(one, w)
          /\ Whole(queue, w) \cap Whole(one, w) = {}
    BY <1>3, <1>5, <1>6, <1>7, <1>9
  <2>2. Whole(queue \o one, w) = Whole(queue, w) \cup Whole(one, w) /\ Once(queue \o one, w)
    BY <2>1, WholeConcat
  <2> QED BY <1>3, <1>9, <2>2
<1>11. Q \cup E = (Q \cup {i}) \cup T /\ (Q \cup {i}) \cap T = {}
  BY <1>6
<1>12. PICK A : A = Whole(q, AnswerIds)
  OBVIOUS
<1>13. aw = A \cup Q \cup E /\ A \cap Q = {} /\ A \cap E = {} /\ aw \cap ap = {} /\ Once(q, AnswerIds)
  BY <1>3, <1>12 DEF Waits
<1>14. aw = A \cup (Q \cup {i}) \cup T /\ A \cap (Q \cup {i}) = {} /\ A \cap T = {}
  BY <1>6, <1>13
<1>15. PICK q2, tl : q2 = queue \o one /\ tl = Tail(ev)
  OBVIOUS
<1>16. Waits(aw, ap, q, q2, tl)
  BY <1>3, <1>6, <1>10, <1>11, <1>12, <1>13, <1>14, <1>15 DEF Waits
<1> QED BY <1>3, <1>7, <1>15, <1>16

(* The file has come: the whole queue is answered.                           *)
LEMMA WaitsEmptied ==
  ASSUME NEW aw, NEW ap, NEW q \in Seq(SideMsg), NEW queue, NEW ev \in Seq(ShellMsg),
         Waits(aw, ap, q, queue, ev), ev # <<>>, ev[1].t = "file",
         NEW ms \in Seq(SideMsg), Whole(ms, AnswerIds) = Whole(queue, QueueIds), Once(ms, AnswerIds)
  PROVE  Waits(aw, ap, q \o ms, <<>>, Tail(ev))
<1>1. ev[1] \in ShellMsg
  BY TailMembers, SeqFacts
<1>2. EventIds[ev[1]] = {}
  BY <1>1, EventIdOf
<1>3. PICK val, E, T, Q, w, none : /\ val = EventIds /\ E = Whole(ev, val) /\ T = Whole(Tail(ev), val)
                                   /\ w = QueueIds /\ Q = Whole(queue, w) /\ none = <<>>
  OBVIOUS
<1>4. E = val[ev[1]] \cup T /\ (Once(ev, val) => Once(Tail(ev), val))
  BY <1>3, WholeTail
<1>5. Once(ev, val) /\ Q \cap E = {}
  BY <1>3 DEF Waits
<1>6. E = T /\ Once(Tail(ev), val)
  BY <1>2, <1>3, <1>4, <1>5
<1>7. Whole(none, w) = {} /\ Once(none, w)
  <2>1. Whole(<<>>, w) = {} /\ Once(<<>>, w)
    BY NoItems
  <2> QED BY <1>3, <2>1
<1>8. PICK tl : tl = Tail(ev)
  OBVIOUS
<1>9. /\ Once(tl, EventIds) /\ Once(none, QueueIds)
      /\ Whole(ms, AnswerIds) \cup Whole(none, QueueIds) \cup Whole(tl, EventIds)
            = Whole(queue, QueueIds) \cup Whole(ev, EventIds)
      /\ Whole(ms, AnswerIds) \cap Whole(none, QueueIds) = {}
      /\ Whole(ms, AnswerIds) \cap Whole(tl, EventIds) = {}
      /\ Whole(none, QueueIds) \cap Whole(tl, EventIds) = {}
  BY <1>3, <1>5, <1>6, <1>7, <1>8
<1>10. Waits(aw, ap, q \o ms, none, tl)
  BY <1>9, WaitsMoves
<1> QED BY <1>3, <1>8, <1>10

(* One answer, and perhaps the question for the file.                        *)
LEMMA AnswerAlone ==
  ASSUME NEW m \in SideMsg, m.t \in {"applied", "rejected"}
  PROVE  /\ <<m>> \in Seq(SideMsg) /\ Whole(<<m>>, AnswerIds) = {m.id} /\ Once(<<m>>, AnswerIds)
         /\ ~Has(<<m>>, "resync")
<1>1. AnswerIds[m] = {m.id}
  BY AnswerIdOf
<1>2. PICK val, ms : val = AnswerIds /\ ms = <<m>>
  OBVIOUS
<1>3. Whole(ms, val) = val[m] /\ Once(ms, val)
  BY <1>2, OneItem
<1>4. ms \in Seq(SideMsg) /\ Len(ms) = 1 /\ ms[1] = m /\ DOMAIN ms = 1 .. 1
  BY <1>2, OneFacts, SeqFacts
<1>5. ~Has(ms, "resync")
  BY <1>4 DEF Has
<1> QED BY <1>1, <1>2, <1>3, <1>4, <1>5

(* ... with the question for the file.                                     *)
LEMMA AnswerAndFetch ==
  ASSUME NEW m \in SideMsg, m.t \in {"applied", "rejected"}, NEW f \in SideMsg, f.t = "fetch"
  PROVE  /\ <<m, f>> \in Seq(SideMsg) /\ Whole(<<m, f>>, AnswerIds) = {m.id} /\ Once(<<m, f>>, AnswerIds)
         /\ ~Has(<<m, f>>, "resync")
<1>1. AnswerIds[m] = {m.id} /\ AnswerIds[f] = {}
  BY AnswerIdOf
<1>2. PICK val, ms, a, b : val = AnswerIds /\ ms = <<m, f>> /\ a = <<m>> /\ b = <<f>>
  OBVIOUS
<1>3. ms \in Seq(SideMsg) /\ Len(ms) = 2 /\ ms[1] = m /\ ms[2] = f /\ DOMAIN ms = 1 .. 2
  BY <1>2, TwoFacts, SeqFacts
<1>4. val[ms[1]] = {m.id} /\ val[ms[2]] = {} /\ DOMAIN ms = {1, 2}
  BY <1>1, <1>2, <1>3
<1>5. Whole(ms, val) = {m.id}
  BY <1>4 DEF Whole
<1>6. Once(ms, val)
  BY <1>4 DEF Once
<1>7. ~Has(ms, "resync")
  BY <1>3, <1>4 DEF Has
<1> QED BY <1>2, <1>3, <1>5, <1>6, <1>7

(* Taking an event from the pipe keeps what is awaited on its way.         *)
LEMMA HearFlights ==
  ASSUME Base, Base', Flights, NEW e \in Editors, Hear(e)
  PROVE  Flights'
<1>1. /\ Types /\ Ids(e) /\ InFlight(e) /\ toSide[e] \in Seq(SideMsg) /\ toShell[e] \in Seq(ShellMsg)
      /\ shell[e].queued \in Seq(Nat)
  BY HeldFacts, EditorFacts DEF Held, Flights
<1>2. Others(e) /\ UNCHANGED <<log, versions, side, asked, refused>> /\ toShell[e] # <<>>
        /\ toShell'[e] = Tail(toShell[e])
  BY <1>1, HearDoes
<1>3. PICK m \in ShellMsg :
               /\ m = toShell[e][1] /\ (m.t # "file" => m.id \in 1 .. Len(log))
               /\ \/ m.t = "genesis" /\ HeardGenesis(e, m)
                  \/ m.t = "update" /\ HeardUpdate(e, m)
                  \/ m.t = "file" /\ HeardFile(e) /\ AnswersToQueue(e) \in Seq(SideMsg)
  BY <1>1, HearDoes
<1>4. PICK aw, ap, q, queue, ev : /\ aw = side[e].awaiting /\ ap = side[e].applied /\ q = toSide[e]
                                  /\ queue = shell[e].queued /\ ev = toShell[e]
  OBVIOUS
<1>5. /\ ~shell[e].resynced => Waits(aw, ap, q, queue, ev)
      /\ q \in Seq(SideMsg) /\ ev \in Seq(ShellMsg) /\ queue \in Seq(Nat) /\ ev # <<>> /\ m = ev[1]
  BY <1>1, <1>2, <1>3, <1>4 DEF InFlight
<1>6. m.t # "file" => m.id \in Nat
  BY EventTypes

(* An answer, the queue as it was. *)
<1>7. ASSUME m.t # "file",
             NEW ms \in Seq(SideMsg), Whole(ms, AnswerIds) = {m.id}, Once(ms, AnswerIds), ~Has(ms, "resync"),
             toSide'[e] = q \o ms, shell'[e].queued = queue, shell'[e].resynced = shell[e].resynced
      PROVE  Flights'
  <2>1. ~shell[e].resynced => Waits(aw, ap, q \o ms, queue, Tail(ev))
    BY <1>5, <1>7, WaitsHeard
  <2> QED BY <1>2, <1>4, <1>7, <2>1, HeardFlights
<1>8. CASE m.t = "genesis" /\ HeardGenesis(e, m)
  <2>1. PICK a, f : a = [t |-> "applied", id |-> m.id] /\ f = [t |-> "fetch"]
    OBVIOUS
  <2>2. a \in SideMsg /\ f \in SideMsg /\ a.t = "applied" /\ a.id = m.id /\ f.t = "fetch"
    BY <1>6, <1>8, <2>1 DEF SideMsg, AnswerMsg, PlainMsg
  <2>3. shell'[e].queued = queue /\ shell'[e].resynced = shell[e].resynced
    BY <1>4, <1>8 DEF HeardGenesis, ShellBut
  <2>4. toSide'[e] = q \o <<a>> \/ toSide'[e] = q \o <<a, f>>
    BY <1>4, <1>8, <2>1 DEF HeardGenesis, Told
  <2>5. CASE toSide'[e] = q \o <<a>>
    BY <1>7, <1>8, <2>2, <2>3, <2>5, AnswerAlone
  <2>6. CASE toSide'[e] = q \o <<a, f>>
    BY <1>7, <1>8, <2>2, <2>3, <2>6, AnswerAndFetch
  <2> QED BY <2>4, <2>5, <2>6
<1>9. CASE m.t = "update" /\ HeardUpdate(e, m)
  <2>1. CASE shell[e].phase = "live"
    <3>1. PICK a : a = Answer(m.id)
      OBVIOUS
    <3>2. a \in SideMsg /\ a.t \in {"applied", "rejected"} /\ a.id = m.id
      BY <1>6, <1>9, <3>1, AnswerTypes
    <3>3. shell'[e].queued = queue /\ shell'[e].resynced = shell[e].resynced /\ toSide'[e] = q \o <<a>>
      BY <1>4, <1>9, <2>1, <3>1 DEF HeardUpdate, ShellBut, Told
    <3> QED BY <1>7, <1>9, <3>2, <3>3, AnswerAlone
  <2>2. CASE shell[e].phase # "live"
    <3>1. shell'[e].queued = Append(queue, m.id) /\ shell'[e].resynced = shell[e].resynced /\ toSide'[e] = q
      BY <1>4, <1>9, <2>2 DEF HeardUpdate, ShellBut
    <3>2. ~shell[e].resynced => Waits(aw, ap, q, Append(queue, m.id), Tail(ev))
      BY <1>5, <1>9, WaitsQueued
    <3>3. PICK ms : ms = <<>>
      OBVIOUS
    <3>4. ms \in Seq(SideMsg) /\ q \o ms = q /\ ~Has(ms, "resync")
      BY <1>5, <3>3 DEF Has
    <3>5. PICK queue2, ev2 : queue2 = Append(queue, m.id) /\ ev2 = Tail(ev)
      OBVIOUS
    <3>6. ~shell[e].resynced => Waits(side[e].awaiting, side[e].applied, toSide[e] \o ms, queue2, ev2)
      BY <1>4, <3>2, <3>4, <3>5
    <3>7. queue2 = shell'[e].queued /\ ev2 = toShell'[e] /\ toSide'[e] = toSide[e] \o ms
      BY <1>2, <1>4, <3>1, <3>4, <3>5
    <3> QED BY <1>2, <3>1, <3>4, <3>6, <3>7, HeardFlights
  <2> QED BY <2>1, <2>2
<1>10. CASE m.t = "file" /\ HeardFile(e) /\ AnswersToQueue(e) \in Seq(SideMsg)
  <2>1. PICK ms, none, ev2 : ms = AnswersToQueue(e) /\ none = <<>> /\ ev2 = Tail(ev)
    OBVIOUS
  <2>2. /\ shell'[e].queued = none /\ shell'[e].resynced = shell[e].resynced /\ toSide'[e] = toSide[e] \o ms
        /\ ms \in Seq(SideMsg) /\ ev2 = toShell'[e]
    BY <1>2, <1>4, <1>10, <2>1 DEF HeardFile, ShellBut, Told
  <2>3. Whole(ms, AnswerIds) = Whole(queue, QueueIds) /\ (Once(queue, QueueIds) => Once(ms, AnswerIds))
    BY <1>1, <1>4, <2>1, AnswersToAll
  <2>4. ~shell[e].resynced => Once(queue, QueueIds)
    BY <1>5 DEF Waits
  <2>5. ~shell[e].resynced => Waits(aw, ap, q \o ms, <<>>, Tail(ev))
    BY <1>5, <1>10, <2>2, <2>3, <2>4, WaitsEmptied
  <2>6. ~shell[e].resynced => Waits(side[e].awaiting, side[e].applied, toSide[e] \o ms, none, ev2)
    BY <1>4, <2>1, <2>5
  <2>7. ~Has(ms, "resync")
    <3>1. ASSUME NEW i \in DOMAIN ms PROVE ms[i].t # "resync"
      <4>1. i \in DOMAIN queue /\ ms[i] = Answer(queue[i])
        BY <1>4, <2>1, <3>1 DEF AnswersToQueue
      <4>2. queue[i] \in Nat
        BY <1>5, <4>1, SeqFacts
      <4> QED BY <4>1, <4>2, AnswerTypes
    <3> QED BY <3>1 DEF Has
  <2> QED BY <1>2, <2>2, <2>6, <2>7, HeardFlights
<1> QED BY <1>3, <1>8, <1>9, <1>10

(* Flights and the types, for one editor.                                  *)
LEMMA FlightFacts ==
  ASSUME Base, Flights, NEW e \in Editors
  PROVE  /\ InFlight(e) /\ Types /\ toSide[e] \in Seq(SideMsg) /\ toShell[e] \in Seq(ShellMsg)
             /\ Len(log) \in Nat
         /\ side[e].applied \cup side[e].awaiting \subseteq 1 .. Len(log)
         /\ side[e].pos \in [Editors -> Int]
BY HeldFacts, EditorFacts, HeldSide DEF Flights, SideT

(* Taking a command from the pipe keeps what is awaited on its way.        *)
LEMMA OnMsgFlights ==
  ASSUME Base, Base', Flights, NEW e \in Editors, OnMsg(e)
  PROVE  Flights'
<1>1. /\ Others(e) /\ UNCHANGED <<log, versions, shell, asked, refused>>
      /\ toSide[e] # <<>> /\ toSide'[e] = Tail(toSide[e])
  BY OnMsgDoes
<1>2. PICK m \in SideMsg :
               /\ m = toSide[e][1] /\ 1 \in DOMAIN toSide[e]
               /\ \/ m.t = "update" /\ GotUpdate(e, m)
                  \/ m.t = "version" /\ GotVersion(e, m)
                  \/ m.t \in {"applied", "rejected"} /\ GotAnswer(e, m)
                  \/ m.t = "fetch" /\ GotFetch(e)
                  \/ m.t = "resync" /\ GotResync(e)
  BY OnMsgDoes
<1>3. /\ InFlight(e) /\ Types /\ toSide[e] \in Seq(SideMsg) /\ toShell[e] \in Seq(ShellMsg)
          /\ Len(log) \in Nat
      /\ side[e].applied \cup side[e].awaiting \subseteq 1 .. Len(log)
  BY FlightFacts
<1>4. Len(log) <= Len(log') /\ \A i \in 1 .. Len(log) : log'[i] = log[i]
  BY <1>1, <1>3
<1>5. Has(toSide'[e], "resync") => shell'[e].resynced
  BY <1>1, <1>3, HasTail DEF InFlight
<1>6. PICK aw, ap, q, queue, ev : /\ aw = side[e].awaiting /\ ap = side[e].applied /\ q = toSide[e]
                                  /\ queue = shell[e].queued /\ ev = toShell[e]
  OBVIOUS
<1>7. /\ ~shell[e].resynced => Waits(aw, ap, q, queue, ev) /\ Met(e, log, aw, ap, side[e].pos)
      /\ q \in Seq(SideMsg) /\ ev \in Seq(ShellMsg) /\ q # <<>> /\ m = q[1]
  BY <1>1, <1>2, <1>3, <1>6 DEF InFlight
<1>8. m.t \notin {"applied", "rejected"} /\ ~shell[e].resynced => Waits(aw, ap, Tail(q), queue, ev)
  BY <1>7, WaitsTakes
<1>9. CASE (m.t = "update" /\ GotUpdate(e, m)) \/ (m.t = "version" /\ GotVersion(e, m))
  <2>1. /\ side'[e].awaiting = side[e].awaiting /\ side'[e].pos = side[e].pos
            /\ side'[e].applied = side[e].applied
        /\ toShell'[e] = toShell[e]
    BY <1>9 DEF GotUpdate, GotVersion, SideBut
  <2>2. ~shell[e].resynced
          => Waits(side[e].awaiting, side[e].applied, toSide'[e], shell[e].queued, toShell[e])
    BY <1>1, <1>6, <1>8, <1>9
  <2> QED BY <1>1, <1>4, <1>5, <2>1, <2>2, StillFlying
<1>10. CASE m.t \in {"applied", "rejected"} /\ GotAnswer(e, m)
  <2>1. PICK i : i = m.id
    OBVIOUS
  <2>2. ~shell[e].resynced => i \in aw /\ Waits(aw \ {i}, ap \cup {i}, Tail(q), queue, ev)
    BY <1>7, <1>10, <2>1, WaitsAnswered
  <2>3. ~shell[e].resynced => Met(e, log, aw \ {i}, ap \cup {i}, side[e].pos)
    BY <1>7, <2>2 DEF Met
  <2>4. CASE ~shell[e].resynced
    <3>1. /\ side'[e].awaiting = aw \ {i} /\ side'[e].applied = ap \cup {i} /\ side'[e].pos = side[e].pos
          /\ toShell'[e] = ev
      BY <1>6, <1>10, <2>1, <2>2, <2>4 DEF GotAnswer, SideBut
    <3>2. /\ Waits(side'[e].awaiting, side'[e].applied, toSide'[e], shell'[e].queued, toShell'[e])
          /\ Met(e, log', side'[e].awaiting, side'[e].applied, side'[e].pos)
      BY <1>1, <1>6, <2>2, <2>3, <2>4, <3>1
    <3> QED BY <1>1, <1>4, <1>5, <3>2, FlightsStep
  <2>5. CASE shell[e].resynced
    <3>1. shell'[e].resynced
      BY <1>1, <2>5
    <3> QED BY <1>1, <1>4, <3>1, FlightsStep
  <2> QED BY <2>4, <2>5
<1>11. CASE m.t = "fetch" /\ GotFetch(e)
  <2>1. PICK f, es, none : f = [t |-> "file"] /\ es = <<f>> /\ none = {}
    OBVIOUS
  <2>2. f \in ShellMsg /\ f.t = "file"
    BY <2>1 DEF ShellMsg, FileMsg
  <2>3. EventIds[f] = {}
    BY <2>2, EventIdOf
  <2>4. es \in Seq(ShellMsg) /\ toShell'[e] = ev \o es /\ UNCHANGED side
    BY <1>6, <1>11, <2>1, <2>2, OneFacts DEF GotFetch, Sent
  <2>5. Once(es, EventIds) /\ Whole(es, EventIds) = none
    <3>1. PICK val : val = EventIds
      OBVIOUS
    <3>2. Whole(<<f>>, val) = val[f] /\ Once(<<f>>, val)
      BY OneItem
    <3> QED BY <2>1, <2>3, <3>1, <3>2
  <2>6. ASSUME ~shell[e].resynced
        PROVE  Waits(aw, ap, Tail(q), queue, ev \o es)
    <3>1. PICK tl : tl = Tail(q)
      OBVIOUS
    <3>2. Waits(aw, ap, tl, queue, ev)
      BY <1>8, <1>11, <2>6, <3>1
    <3>3. aw \cap none = {} /\ aw \cup none = aw /\ aw \cap ap = {}
      BY <2>1, <3>2 DEF Waits
    <3>4. (aw \cup none) \cap ap = {}
      BY <3>3
    <3>5. Waits(aw \cup none, ap, tl, queue, ev \o es)
      BY <1>7, <2>4, <2>5, <3>2, <3>3, <3>4, WaitsMore
    <3> QED BY <3>1, <3>3, <3>5
  <2>7. ~shell'[e].resynced =>
            /\ Waits(side'[e].awaiting, side'[e].applied, toSide'[e], shell'[e].queued, toShell'[e])
            /\ Met(e, log', side'[e].awaiting, side'[e].applied, side'[e].pos)
    BY <1>1, <1>6, <1>7, <2>4, <2>6
  <2> QED BY <1>1, <1>4, <1>5, <2>7, FlightsStep
<1>12. CASE m.t = "resync" /\ GotResync(e)
  <2>1. Has(toSide[e], "resync")
    BY <1>2, <1>12 DEF Has
  <2>2. shell'[e].resynced
    BY <1>1, <1>3, <2>1 DEF InFlight
  <2> QED BY <1>1, <1>4, <2>2, FlightsStep
<1> QED BY <1>2, <1>9, <1>10, <1>11, <1>12

(* A step of the outbox alone.                                               *)
LEMMA QuietFlights ==
  ASSUME Base, Base', Flights, NEW e \in Editors, Others(e),
         Len(log) <= Len(log'), \A i \in 1 .. Len(log) : log'[i] = log[i],
         UNCHANGED <<shell, toSide, toShell>>,
         side'[e].awaiting = side[e].awaiting, side'[e].pos = side[e].pos, side'[e].applied = side[e].applied
  PROVE  Flights'
<1>1. InFlight(e)
  BY FlightFacts
<1> QED BY <1>1, StillFlying DEF InFlight

(* A sent update counts as applied; it was not awaited.                       *)
LEMMA UpdateAcceptedFlights ==
  ASSUME Base, Base', Flights, NEW e \in Editors, UpdateAccepted(e)
  PROVE  Flights'
<1>1. /\ Others(e) /\ UNCHANGED <<versions, shell, toSide, toShell, asked, refused>>
      /\ LogGets(e) /\ SideBut(e, {"outbox", "at", "order", "applied"}) /\ PoppedOff(e)
      /\ side'[e].applied = side[e].applied \cup {Len(log) + 1} /\ Sends(e, "update")
  BY UpdateAcceptedDoes, HeldFacts DEF UpdateAccepted
<1>2. /\ InFlight(e) /\ Types /\ Len(log) \in Nat
      /\ side[e].applied \cup side[e].awaiting \subseteq 1 .. Len(log)
  BY FlightFacts
<1>3. /\ side'[e].outbox \in {side[e].outbox, Tail(side[e].outbox)} /\ side'[e].order = 0
      /\ side'[e].applied \subseteq side[e].applied \cup {Len(log) + 1} /\ Types'
  BY <1>1 DEF PoppedOff, Base
<1>4. /\ Len(log') = Len(log) + 1 /\ \A i \in 1 .. Len(log) : log'[i] = log[i]
      /\ log'[Len(log) + 1] = [by |-> e, seq |-> First1(e).seq, edit |-> <<e, First1(e).seq>>]
  BY <1>1, <1>3, LogStepBase
<1>5. side'[e].awaiting = side[e].awaiting /\ side'[e].pos = side[e].pos
  BY <1>1 DEF SideBut
<1>6. PICK aw, ap, n, ap2, pos : /\ aw = side[e].awaiting /\ ap = side[e].applied /\ n = Len(log)
                                 /\ ap2 = side'[e].applied /\ pos = side[e].pos
  OBVIOUS
<1>7. ap2 = ap \cup {n + 1} /\ aw \subseteq 1 .. n /\ ap \subseteq 1 .. n /\ n \in Nat /\ Len(log') = n + 1
  BY <1>1, <1>2, <1>4, <1>6
<1>8. aw \cap {n + 1} = {}
  BY <1>7
<1>9. log'[n + 1].by = e
  BY <1>4, <1>6
<1>10. ASSUME ~shell[e].resynced
       PROVE  /\ Waits(aw, ap2, toSide[e], shell[e].queued, toShell[e])
              /\ Met(e, log', aw, ap2, pos)
  <2>1. Waits(aw, ap, toSide[e], shell[e].queued, toShell[e]) /\ Met(e, log, aw, ap, pos)
    BY <1>2, <1>6, <1>10 DEF InFlight
  <2>2. aw \cap ap = {}
    BY <2>1 DEF Waits
  <2>3. aw \cap ap2 = {}
    BY <1>7, <1>8, <2>2
  <2>4. Len(log) <= Len(log') /\ aw \cup ap \subseteq 1 .. Len(log) /\ Len(log') \in Nat
    BY <1>2, <1>4, <1>6
  <2>5. Met(e, log', aw, ap, pos)
    BY <1>2, <1>4, <2>1, <2>4, MetKept
  <2>6. Met(e, log', aw, ap2, pos)
    BY <1>7, <1>9, <2>5 DEF Met
  <2> QED BY <2>1, <2>3, <2>6 DEF Waits
<1>11. ~shell'[e].resynced =>
            /\ Waits(side'[e].awaiting, side'[e].applied, toSide'[e], shell'[e].queued, toShell'[e])
            /\ Met(e, log', side'[e].awaiting, side'[e].applied, side'[e].pos)
  BY <1>1, <1>5, <1>6, <1>10
<1>12. Has(toSide'[e], "resync") => shell'[e].resynced
  BY <1>1, <1>2 DEF InFlight
<1>13. Len(log) <= Len(log')
  BY <1>2, <1>4
<1> QED BY <1>1, <1>4, <1>11, <1>12, <1>13, FlightsStep

(* An update whose answer is lost keeps what is awaited on its way.        *)
LEMMA UpdateAnswerLostFlights ==
  ASSUME Base, Base', Flights, NEW e \in Editors, UpdateAnswerLost(e)
  PROVE  Flights'
<1>1. /\ Others(e) /\ UNCHANGED <<versions, shell, toSide, toShell, asked, refused>>
      /\ LogGets(e) /\ SideBut(e, {"at", "order"}) /\ BackOff(e) /\ Sends(e, "update")
  BY UpdateAnswerLostDoes, HeldFacts DEF UpdateAnswerLost
<1>2. /\ side'[e].outbox \in {side[e].outbox, Tail(side[e].outbox)} /\ side'[e].order = 0
      /\ side'[e].applied \subseteq side[e].applied \cup {Len(log) + 1} /\ Types'
      /\ side'[e].awaiting = side[e].awaiting /\ side'[e].pos = side[e].pos
          /\ side'[e].applied = side[e].applied
      /\ SideBut(e, {"outbox", "at", "order", "applied"})
  BY <1>1 DEF BackOff, SideBut, Base
<1>3. Len(log') = Len(log) + 1 /\ Len(log) \in Nat /\ \A i \in 1 .. Len(log) : log'[i] = log[i]
  BY <1>1, <1>2, LogStepBase
<1>4. Len(log) <= Len(log')
  BY <1>3
<1> QED BY <1>1, <1>2, <1>3, <1>4, QuietFlights

(* Any step of flush keeps what is awaited on its way.                     *)
LEMMA FlushFlights ==
  ASSUME Base, Base', Flights, NEW e \in Editors, FlushStep(e)
  PROVE  Flights'
<1>1. Types /\ Len(log) \in Nat
  BY FlightFacts
<1>2. ASSUME UpdateRefused(e) \/ ReadOrder(e) \/ VersionAccepted(e) \/ VersionAnswerLost(e) \/ VersionRefused(e)
             \/ VersionFailed(e)
      PROVE  Flights'
  <2>1. /\ Others(e) /\ UNCHANGED <<log, shell, toSide, toShell>>
        /\ SideBut(e, {"outbox", "at", "order", "mine", "opened", "known", "heads", "told"})
    <3>1. CASE UpdateRefused(e)
      BY <1>1, <3>1, UpdateRefusedDoes DEF SideBut
    <3>2. CASE ReadOrder(e)
      BY <1>1, <3>2, ReadOrderDoes DEF SideBut
    <3>3. CASE VersionAccepted(e)
      BY <1>1, <3>3, VersionAcceptedDoes DEF SideBut
    <3>4. CASE VersionAnswerLost(e)
      BY <1>1, <3>4, VersionAnswerLostDoes DEF SideBut
    <3>5. CASE VersionRefused(e)
      BY <1>1, <3>5, VersionRefusedDoes DEF SideBut
    <3>6. CASE VersionFailed(e)
      BY <1>1, <3>6, VersionFailedDoes DEF SideBut
    <3> QED BY <1>2, <3>1, <3>2, <3>3, <3>4, <3>5, <3>6
  <2>2. side'[e].awaiting = side[e].awaiting /\ side'[e].pos = side[e].pos
          /\ side'[e].applied = side[e].applied
    BY <2>1 DEF SideBut
  <2>3. Len(log) <= Len(log') /\ \A i \in 1 .. Len(log) : log'[i] = log[i]
    BY <1>1, <2>1
  <2> QED BY <2>1, <2>2, <2>3, QuietFlights
<1> QED BY <1>2, UpdateAcceptedFlights, UpdateAnswerLostFlights DEF FlushStep

(* What a read takes in was not awaited nor applied, and is not skipped.      *)
LEMMA TakenIsNew ==
  ASSUME Base, NEW e \in Editors, NEW aw, NEW ap, aw = side[e].awaiting, ap = side[e].applied,
         Met(e, log, aw, ap, side[e].pos),
         NEW tk, tk = Taken(e), NEW own, own = Own(e), NEW dup, dup = Duplicates(side[e], Len(log))
  PROVE  /\ aw \cap tk = {} /\ (aw \cup tk) \cap own = {} /\ (aw \cup tk) \cap dup = {} /\ tk \cap ap = {}
<1>1. aw \cup ap \subseteq 1 .. Len(log) /\ side[e].pos \in [Editors -> -1 .. MaxEdits + 1]
  BY HeldSide, EditorFacts, HeldFacts DEF SideT
<1>2. Len(log) \in Nat /\ MaxEdits \in Nat
  BY LogFacts
<1>3. ASSUME NEW i \in tk
      PROVE  i \notin aw /\ i \notin ap /\ i \notin own /\ i \notin dup
  <2>1. /\ i \in 1 .. Len(log) /\ log[i].by \in Editors /\ Reads(side[e], log[i].by, Len(log))
        /\ Start(side[e], log[i].by, Len(log)) <= log[i].seq
        /\ \A j \in 1 .. Len(log) : log[j].by = log[i].by /\ log[j].seq = log[i].seq => i <= j
        /\ log[i].by # e
    BY <1>3, AcceptsFacts DEF Taken
  <2>2. PICK k, st, p, n : k = log[i].by /\ st = Start(side[e], k, Len(log)) /\ p = side[e].pos[k]
          /\ n = log[i].seq
    OBVIOUS
  <2>3. st \in 0 .. MaxEdits + 1 /\ (p # -1 => st = p)
    BY <2>1, <2>2, ReachFacts
  <2>4. n \in 0 .. MaxEdits /\ st <= n
    BY <2>1, <2>2, LogFacts
  <2>5. ~(n < p)
    <3>1. CASE p = -1
      BY <2>4, <3>1
    <3>2. CASE p # -1
      BY <2>3, <2>4, <3>2
    <3> QED BY <3>1, <3>2
  <2>6. i \notin aw /\ i \notin ap
    BY <2>1, <2>2, <2>5 DEF Met
  <2>7. i \notin own
    BY <2>1 DEF Own
  <2>8. i \notin dup
    <3>1. SUFFICES ASSUME i \in dup PROVE FALSE
      OBVIOUS
    <3>2. PICK j \in 1 .. i - 1 : log[j].by = log[i].by /\ log[j].seq = log[i].seq
      BY <3>1, DuplicatesFacts
    <3>3. j \in 1 .. Len(log) /\ ~(i <= j)
      BY <1>2, <2>1, <3>2
    <3> QED BY <2>1, <3>2, <3>3
  <2> QED BY <2>6, <2>7, <2>8
<1>4. ASSUME NEW i \in aw
      PROVE  i \notin own /\ i \notin dup
  <2>1. log[i].by # e /\ IsFirst(log, i) /\ i \in 1 .. Len(log)
    BY <1>1 DEF Met
  <2>2. i \notin own
    BY <2>1 DEF Own
  <2>3. i \notin dup
    <3>1. SUFFICES ASSUME i \in dup PROVE FALSE
      OBVIOUS
    <3>2. PICK j \in 1 .. i - 1 : log[j].by = log[i].by /\ log[j].seq = log[i].seq
      BY <3>1, DuplicatesFacts
    <3>3. j \in 1 .. Len(log) /\ ~(i <= j)
      BY <1>2, <2>1, <3>2
    <3> QED BY <2>1, <3>2, <3>3 DEF IsFirst
  <2> QED BY <2>2, <2>3
<1> QED BY <1>3, <1>4

(* After it, the receiver has passed all it has taken in.                    *)
LEMMA MetReads ==
  ASSUME Base, NEW e \in Editors, NEW aw, NEW ap, aw = side[e].awaiting, ap = side[e].applied,
         Met(e, log, aw, ap, side[e].pos), NEW pos2,
         \A k \in Editors : pos2[k] = IF Reads(side[e], k, Len(log)) THEN Reach(side[e], k, Len(log))
                                      ELSE side[e].pos[k]
  PROVE  Met(e, log, aw \cup Taken(e), ap \cup Own(e) \cup Duplicates(side[e], Len(log)), pos2)
<1>1. aw \cup ap \subseteq 1 .. Len(log) /\ side[e].pos \in [Editors -> -1 .. MaxEdits + 1]
  BY HeldSide, EditorFacts, HeldFacts DEF SideT
<1>2. Len(log) \in Nat /\ MaxEdits \in Nat
  BY LogFacts
<1>3. ASSUME NEW i \in 1 .. Len(log), log[i].seq < side[e].pos[log[i].by]
      PROVE  log[i].seq < pos2[log[i].by]
  <2>1. PICK k, st, p, n, r : k = log[i].by /\ st = Start(side[e], k, Len(log)) /\ p = side[e].pos[k]
          /\ n = log[i].seq
                              /\ r = Reach(side[e], k, Len(log))
    OBVIOUS
  <2>2. k \in Editors /\ n \in 0 .. MaxEdits /\ p \in -1 .. MaxEdits + 1 /\ n < p
    BY <1>1, <1>3, <2>1, LogFacts
  <2>3. p # -1
    BY <2>2
  <2>4. CASE Reads(side[e], k, Len(log))
    <3>1. st = p /\ r \in st .. MaxEdits + 1
      BY <2>1, <2>2, <2>3, <2>4, ReachFacts
    <3>2. n < r
      BY <1>2, <2>2, <3>1
    <3> QED BY <2>1, <2>2, <2>4, <3>2
  <2>5. CASE ~Reads(side[e], k, Len(log))
    BY <2>1, <2>2, <2>5
  <2> QED BY <2>4, <2>5
<1>4. ASSUME NEW i \in Taken(e)
      PROVE  log[i].by # e /\ log[i].seq < pos2[log[i].by] /\ IsFirst(log, i)
  BY <1>4, AcceptsFacts DEF Taken, IsFirst
<1>5. ASSUME NEW i \in aw
      PROVE  log[i].by # e /\ log[i].seq < pos2[log[i].by] /\ IsFirst(log, i)
  BY <1>1, <1>3 DEF Met
<1>6. ASSUME NEW i \in ap, log[i].by # e
      PROVE  log[i].seq < pos2[log[i].by]
  BY <1>1, <1>3, <1>6 DEF Met
<1>7. ASSUME NEW i \in Own(e), log[i].by # e
      PROVE  log[i].seq < pos2[log[i].by]
  BY <1>7 DEF Own
<1>8. ASSUME NEW i \in Duplicates(side[e], Len(log))
      PROVE  log[i].seq < pos2[log[i].by]
  BY DuplicatesFacts
<1> QED BY <1>4, <1>5, <1>6, <1>7, <1>8 DEF Met

(* The events of a read stand for what it takes in, each once.                *)
LEMMA EventsOnce ==
  ASSUME Base, NEW e \in Editors, NEW es, es = UpdateEvents(Taken(e))
  PROVE  es \in Seq(ShellMsg) /\ Whole(es, EventIds) = Taken(e) /\ Once(es, EventIds)
<1>1. /\ es \in Seq(ShellMsg) /\ Len(es) \in Nat /\ DOMAIN es = 1 .. Len(es)
      /\ \A p \in 1 .. Len(es) : /\ es[p].id \in Taken(e)
                                 /\ es[p].t = IF es[p].id = GenesisId THEN "genesis" ELSE "update"
      /\ \A i \in Taken(e) : \E p \in 1 .. Len(es) : es[p].id = i
      /\ \A a, b \in 1 .. Len(es) : es[a].id = es[b].id => a = b
  BY TakenFacts, EventsFacts
<1>2. ASSUME NEW p \in DOMAIN es
      PROVE  EventIds[es[p]] = {es[p].id}
  <2>1. es[p] \in ShellMsg /\ es[p].t # "file"
    BY <1>1, SeqFacts
  <2> QED BY <2>1, EventIdOf
<1>3. PICK val, tk : val = EventIds /\ tk = Taken(e)
  OBVIOUS
<1>4. \A p \in DOMAIN es : val[es[p]] = {es[p].id}
  BY <1>2, <1>3
<1>5. Whole(es, val) = tk
  BY <1>1, <1>3, <1>4 DEF Whole
<1>6. Once(es, val)
  BY <1>1, <1>4 DEF Once
<1> QED BY <1>1, <1>3, <1>5, <1>6

(* Reading the updates keeps what is awaited on its way.                   *)
LEMMA PollUpdatesFlights ==
  ASSUME Base, Base', Flights, NEW e \in Editors, PollUpdates(e)
  PROVE  Flights'
<1>1. /\ Others(e) /\ UNCHANGED <<log, versions, shell, toSide, asked, refused>>
      /\ \A k \in Editors : side'[e].pos[k] = IF Reads(side[e], k, Len(log)) THEN Reach(side[e], k, Len(log))
                                              ELSE side[e].pos[k]
      /\ side'[e].applied = side[e].applied \cup Own(e) \cup Duplicates(side[e], Len(log))
      /\ side'[e].awaiting = side[e].awaiting \cup Taken(e)
      /\ Sent(e, UpdateEvents(Taken(e)))
  BY PollUpdatesDoes
<1>2. /\ InFlight(e) /\ toShell[e] \in Seq(ShellMsg) /\ Len(log) \in Nat
  BY FlightFacts
<1>3. PICK aw, ap, q, queue, ev, es, tk, own, dup, pos2 :
         /\ aw = side[e].awaiting /\ ap = side[e].applied /\ q = toSide[e] /\ queue = shell[e].queued
             /\ ev = toShell[e]
         /\ es = UpdateEvents(Taken(e)) /\ tk = Taken(e) /\ own = Own(e)
             /\ dup = Duplicates(side[e], Len(log))
         /\ pos2 = side'[e].pos
  OBVIOUS
<1>4. es \in Seq(ShellMsg) /\ Whole(es, EventIds) = tk /\ Once(es, EventIds)
  BY <1>3, EventsOnce
<1>5. ASSUME ~shell[e].resynced
      PROVE  /\ Waits(aw \cup tk, ap \cup own \cup dup, q, queue, ev \o es)
             /\ Met(e, log, aw \cup tk, ap \cup own \cup dup, pos2)
  <2>1. Waits(aw, ap, q, queue, ev) /\ Met(e, log, aw, ap, side[e].pos)
    BY <1>2, <1>3, <1>5 DEF InFlight
  <2>2. /\ aw \cap tk = {} /\ (aw \cup tk) \cap own = {} /\ (aw \cup tk) \cap dup = {} /\ tk \cap ap = {}
    BY <1>3, <2>1, TakenIsNew
  <2>3. aw \cap ap = {}
    BY <2>1 DEF Waits
  <2>4. PICK ap2 : ap2 = ap \cup own \cup dup
    OBVIOUS
  <2>5. (aw \cup tk) \cap ap2 = {}
    BY <2>2, <2>3, <2>4
  <2>6. Waits(aw \cup tk, ap2, q, queue, ev \o es)
    BY <1>2, <1>3, <1>4, <2>1, <2>2, <2>5, WaitsMore
  <2>7. Met(e, log, aw \cup tk, ap \cup own \cup dup, pos2)
    <3>1. \A k \in Editors : pos2[k] = IF Reads(side[e], k, Len(log)) THEN Reach(side[e], k, Len(log))
                                       ELSE side[e].pos[k]
      BY <1>1, <1>3
    <3> QED BY <1>3, <2>1, <3>1, MetReads
  <2> QED BY <2>4, <2>6, <2>7
<1>6. ~shell'[e].resynced =>
            /\ Waits(side'[e].awaiting, side'[e].applied, toSide'[e], shell'[e].queued, toShell'[e])
            /\ Met(e, log', side'[e].awaiting, side'[e].applied, side'[e].pos)
  BY <1>1, <1>3, <1>5 DEF Sent
<1>7. Has(toSide'[e], "resync") => shell'[e].resynced
  BY <1>1, <1>2 DEF InFlight
<1>8. Len(log) <= Len(log') /\ \A i \in 1 .. Len(log) : log'[i] = log[i]
  BY <1>1, <1>2
<1> QED BY <1>1, <1>6, <1>7, <1>8, FlightsStep

(* Any step of a read keeps what is awaited on its way.                    *)
LEMMA PollFlights ==
  ASSUME Base, Base', Flights, NEW e \in Editors, PollStep(e)
  PROVE  Flights'
<1>1. Len(log) \in Nat
  BY FlightFacts
<1>2. CASE PollVersions(e)
  <2>1. /\ Others(e) /\ UNCHANGED <<log, shell, toSide, toShell>>
        /\ side'[e].awaiting = side[e].awaiting /\ side'[e].pos = side[e].pos
            /\ side'[e].applied = side[e].applied
    BY <1>2, PollVersionsDoes DEF SideBut
  <2> QED BY <1>1, <2>1, QuietFlights
<1>3. CASE PollFailed(e)
  <2>1. /\ Others(e) /\ UNCHANGED <<log, shell, toSide, toShell>>
        /\ side'[e].awaiting = side[e].awaiting /\ side'[e].pos = side[e].pos
            /\ side'[e].applied = side[e].applied
    BY <1>3, PollFailedDoes DEF SideBut
  <2> QED BY <1>1, <2>1, QuietFlights
<1> QED BY <1>2, <1>3, PollUpdatesFlights DEF PollStep

(* Flights holds initially.                                                *)
LEMMA InitFlights == Init => Flights
<1> SUFFICES ASSUME Init, NEW e \in Editors PROVE InFlight(e)
  BY DEF Flights
<1>1. /\ shell[e].queued = <<>> /\ side[e].applied = (IF e = Sharer THEN {GenesisId} ELSE {})
      /\ side[e].awaiting = {} /\ toSide[e] = <<>> /\ toShell[e] = <<>>
  BY InitEditor
<1>2. log[1].by = Sharer /\ GenesisId = 1
  BY DEF Init, GenesisId
<1>3. /\ Whole(<<>>, AnswerIds) = {} /\ Once(<<>>, AnswerIds) /\ Whole(<<>>, QueueIds) = {}
          /\ Once(<<>>, QueueIds)
      /\ Whole(<<>>, EventIds) = {} /\ Once(<<>>, EventIds)
  BY NoItems
<1>4. Waits({}, side[e].applied, <<>>, <<>>, <<>>)
  BY <1>3 DEF Waits
<1>5. Met(e, log, {}, side[e].applied, side[e].pos)
  BY <1>1, <1>2 DEF Met
<1>6. ~Has(toSide[e], "resync")
  BY <1>1 DEF Has
<1> QED BY <1>1, <1>4, <1>5, <1>6 DEF InFlight

(* Any step of a shell keeps what is awaited on its way.                   *)
LEMMA ShellFlights ==
  ASSUME Base, Base', Flights, NEW e \in Editors, ShellStep(e)
  PROVE  Flights'
BY EditFlights, SaveFlights, AskResyncFlights, LeaveFlights, HearFlights, HearHeadsFlights DEF ShellStep

(* The members of Carriers are the items of the three queues.                *)
LEMMA CarriedOnce ==
  ASSUME Base, Flights, NEW e \in Editors, ~shell[e].resynced
  PROVE  /\ side[e].awaiting = {Carried(e, c) : c \in Carriers(e)}
         /\ \A c, d \in Carriers(e) : c # d => Carried(e, c) # Carried(e, d)
         /\ side[e].awaiting \cap side[e].applied = {}
<1>1. PICK aw, ap, q, queue, ev : /\ aw = side[e].awaiting /\ ap = side[e].applied /\ q = toSide[e]
                                  /\ queue = shell[e].queued /\ ev = toShell[e]
  OBVIOUS
<1>2. /\ Waits(aw, ap, q, queue, ev) /\ q \in Seq(SideMsg) /\ queue \in Seq(Nat) /\ ev \in Seq(ShellMsg)
  BY <1>1, HeldFacts, EditorFacts DEF Flights, InFlight
<1>3. PICK va, vq, ve, A, Q, E : /\ va = AnswerIds /\ vq = QueueIds /\ ve = EventIds
                                 /\ A = Whole(q, va) /\ Q = Whole(queue, vq) /\ E = Whole(ev, ve)
  OBVIOUS
<1>4. /\ aw = A \cup Q \cup E /\ A \cap Q = {} /\ A \cap E = {} /\ Q \cap E = {} /\ aw \cap ap = {}
      /\ Once(q, va) /\ Once(queue, vq) /\ Once(ev, ve)
  BY <1>2, <1>3 DEF Waits
<1>5. PICK an, es : an = Answers(e) /\ es = Events(e)
  OBVIOUS
<1>6. /\ an = {i \in DOMAIN q : q[i].t \in {"applied", "rejected"}}
          /\ es = {i \in DOMAIN ev : ev[i].t # "file"}
      /\ Carriers(e) = ({"answer"} \X an) \cup ({"queued"} \X DOMAIN queue) \cup ({"event"} \X es)
  BY <1>1, <1>5 DEF Answers, Events, Carriers
<1>7. /\ \A i \in DOMAIN q : va[q[i]] = IF i \in an THEN {q[i].id} ELSE {}
      /\ \A i \in DOMAIN queue : vq[queue[i]] = {queue[i]}
      /\ \A i \in DOMAIN ev : ve[ev[i]] = IF i \in es THEN {ev[i].id} ELSE {}
  <2>1. \A i \in DOMAIN q : q[i] \in SideMsg
    BY <1>2, SeqFacts
  <2>2. \A i \in DOMAIN queue : queue[i] \in Nat
    BY <1>2, SeqFacts
  <2>3. \A i \in DOMAIN ev : ev[i] \in ShellMsg
    BY <1>2, SeqFacts
  <2>4. \A i \in DOMAIN q : va[q[i]] = IF i \in an THEN {q[i].id} ELSE {}
    BY <1>3, <1>6, <2>1, AnswerIdOf
  <2>5. \A i \in DOMAIN queue : vq[queue[i]] = {queue[i]}
    BY <1>3, <2>2 DEF QueueIds
  <2>6. \A i \in DOMAIN ev : ve[ev[i]] = IF i \in es THEN {ev[i].id} ELSE {}
    BY <1>3, <1>6, <2>3, EventIdOf
  <2> QED BY <2>4, <2>5, <2>6
<1>8. /\ A = {q[i].id : i \in an} /\ Q = {queue[i] : i \in DOMAIN queue} /\ E = {ev[i].id : i \in es}
  <2>1. A = {q[i].id : i \in an}
    <3>1. \A x : x \in A <=> \E i \in DOMAIN q : x \in va[q[i]]
      BY <1>3 DEF Whole
    <3>2. \A i \in an : i \in DOMAIN q /\ va[q[i]] = {q[i].id}
      BY <1>6, <1>7
    <3>3. \A i \in DOMAIN q : i \notin an => va[q[i]] = {}
      BY <1>7
    <3>4. ASSUME NEW x \in A PROVE \E i \in an : x = q[i].id
      <4>1. PICK i \in DOMAIN q : x \in va[q[i]]
        BY <3>1, <3>4
      <4> QED BY <3>2, <3>3, <4>1
    <3>5. ASSUME NEW i \in an PROVE q[i].id \in A
      BY <3>1, <3>2
    <3> QED BY <3>4, <3>5
  <2>2. Q = {queue[i] : i \in DOMAIN queue}
    <3>1. \A x : x \in Q <=> \E i \in DOMAIN queue : x \in vq[queue[i]]
      BY <1>3 DEF Whole
    <3>2. \A x : x \in Q <=> \E i \in DOMAIN queue : x = queue[i]
      BY <1>7, <3>1
    <3> QED BY <3>2
  <2>3. E = {ev[i].id : i \in es}
    <3>1. \A x : x \in E <=> \E i \in DOMAIN ev : x \in ve[ev[i]]
      BY <1>3 DEF Whole
    <3>2. \A i \in es : i \in DOMAIN ev /\ ve[ev[i]] = {ev[i].id}
      BY <1>6, <1>7
    <3>3. \A i \in DOMAIN ev : i \notin es => ve[ev[i]] = {}
      BY <1>7
    <3>4. ASSUME NEW x \in E PROVE \E i \in es : x = ev[i].id
      <4>1. PICK i \in DOMAIN ev : x \in ve[ev[i]]
        BY <3>1, <3>4
      <4> QED BY <3>2, <3>3, <4>1
    <3>5. ASSUME NEW i \in es PROVE ev[i].id \in E
      BY <3>1, <3>2
    <3> QED BY <3>4, <3>5
  <2> QED BY <2>1, <2>2, <2>3
<1>9. /\ \A i, j \in an : i # j => q[i].id # q[j].id
      /\ \A i, j \in DOMAIN queue : i # j => queue[i] # queue[j]
      /\ \A i, j \in es : i # j => ev[i].id # ev[j].id
  <2>1. \A i, j \in an : i # j => q[i].id # q[j].id
    BY <1>4, <1>6, <1>7 DEF Once
  <2>2. \A i, j \in DOMAIN queue : i # j => queue[i] # queue[j]
    BY <1>4, <1>7 DEF Once
  <2>3. \A i, j \in es : i # j => ev[i].id # ev[j].id
    BY <1>4, <1>6, <1>7 DEF Once
  <2> QED BY <2>1, <2>2, <2>3
<1>10. /\ \A i : Carried(e, <<"answer", i>>) = q[i].id
       /\ \A i : Carried(e, <<"queued", i>>) = queue[i]
       /\ \A i : Carried(e, <<"event", i>>) = ev[i].id
  BY <1>1 DEF Carried
<1>11. aw = {Carried(e, c) : c \in Carriers(e)}
  <2>1. ASSUME NEW x \in aw PROVE \E c \in Carriers(e) : x = Carried(e, c)
    <3>1. CASE x \in A
      <4>1. PICK i \in an : x = q[i].id
        BY <1>8, <3>1
      <4>2. <<"answer", i>> \in Carriers(e) /\ x = Carried(e, <<"answer", i>>)
        BY <1>6, <1>10, <4>1
      <4> QED BY <4>2
    <3>2. CASE x \in Q
      <4>1. PICK i \in DOMAIN queue : x = queue[i]
        BY <1>8, <3>2
      <4>2. <<"queued", i>> \in Carriers(e) /\ x = Carried(e, <<"queued", i>>)
        BY <1>6, <1>10, <4>1
      <4> QED BY <4>2
    <3>3. CASE x \in E
      <4>1. PICK i \in es : x = ev[i].id
        BY <1>8, <3>3
      <4>2. <<"event", i>> \in Carriers(e) /\ x = Carried(e, <<"event", i>>)
        BY <1>6, <1>10, <4>1
      <4> QED BY <4>2
    <3> QED BY <1>4, <3>1, <3>2, <3>3
  <2>2. ASSUME NEW c \in Carriers(e) PROVE Carried(e, c) \in aw
    BY <1>4, <1>6, <1>8, <1>10
  <2> QED BY <2>1, <2>2
<1>12. ASSUME NEW c \in Carriers(e), NEW d \in Carriers(e), c # d
       PROVE  Carried(e, c) # Carried(e, d)
  <2>1. PICK i, j, s, t : c = <<s, i>> /\ d = <<t, j>>
    BY <1>6
  <2>2. CASE s = t
    BY <1>6, <1>9, <1>10, <1>12, <2>1, <2>2
  <2>3. CASE s # t
    BY <1>4, <1>6, <1>8, <1>10, <1>12, <2>1, <2>3
  <2> QED BY <2>2, <2>3
<1> QED BY <1>1, <1>4, <1>11, <1>12

(* What a sidecar awaits is exactly what is on its way, each id once, as   *)
(* an event, in the queue or as an answer, until a resync: no answer is    *)
(* lost, none comes twice, so nothing is awaited for ever and no answer is *)
(* taken for another's.                                                    *)
THEOREM AwaitedIsOnItsWay == Spec => []AwaitingIsInFlight
<1>1. Base /\ Base' /\ Flights /\ [Next]_vars => Flights'
  <2> SUFFICES ASSUME Base, Base', Flights, [Next]_vars PROVE Flights'
    OBVIOUS
  <2>1. CASE UNCHANGED vars
    BY <2>1 DEF vars, Flights, InFlight
  <2> QED BY <2>1, ShellFlights, OnMsgFlights, FlushFlights, PollFlights DEF Next
<1>2. Base /\ Flights => AwaitingIsInFlight
  BY CarriedOnce DEF AwaitingIsInFlight
<1> QED BY <1>1, <1>2, InitFlights, BaseHolds, PTL DEF Spec
=============================================================================
