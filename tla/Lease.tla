-------------------------------- MODULE Lease --------------------------------
(***************************************************************************)
(* The advisory edit lease: the procedures of collab/dcp-core/src/lease.rs   *)
(* run by several sessions against one store (write_lease of                *)
(* collab/dcp-core/src/memory.rs, with compare-and-set or without).         *)
(*                                                                         *)
(* Every await of a procedure is a step of its own; time is the binding's    *)
(* clock and passes between any two steps.  A record's token and base       *)
(* version are left out: nothing here looks at them.                        *)
(***************************************************************************)
EXTENDS Integers, FiniteSets

CONSTANTS
    Sessions,       \* the sessions that use the lease
    Principal,      \* whose session each one is
    Owners,         \* the sessions of principals with the owner role
    Breakers,       \* the owner sessions that call break_lease
    Stores,         \* the stores looked at: TRUE for one with cas_leases
    Duration,       \* duration_ms of every claim
    Settle,         \* Settle.interval_ms
    MaxDelay,       \* without compare-and-set: the longest a session takes from its first read
                    \* to the write it leads to
    MaxTime,        \* bound: the clock stops here
    MaxRenewal      \* bound: no write once a record carries this renewal

ASSUME SessionAssumption ==
    /\ Principal \in [Sessions -> Nat]
    /\ 0 \notin Sessions
    /\ Owners \subseteq Sessions /\ Breakers \subseteq Owners
    /\ Stores \subseteq BOOLEAN
ASSUME TimeAssumption ==
    /\ Duration \in Nat \ {0} /\ Settle \in Nat /\ MaxDelay \in Nat
    /\ MaxTime \in Nat /\ MaxRenewal \in Nat

VARIABLES
    cas,        \* whether a write is atomic against what it replaces: the store's, for good
    now,        \* the binding's clock
    rec,        \* the current lease record
    pc,         \* where each session is in acquire, break_lease or release
    writes,     \* the renewal each session is about to write or wrote
    timer,      \* when a session read the clock, and from when it may read back again
    claim,      \* the record of the last Acquire::Acquired of each session
    robbed,     \* history: sessions whose record was overwritten while they went by it
    takers      \* history: the sessions that did it

hist == <<robbed, takers>>
leaseVars == <<cas, now, rec, pc, writes, timer, claim, hist>>

NoOne == 0
Released == [by |-> NoOne, renewal |-> 0, ts |-> 0]
Records == [by : Sessions \cup {NoOne}, renewal : Nat, ts : Nat]

LeaseTypeOK ==
    /\ cas \in Stores
    /\ now \in Nat
    /\ rec \in Records
    /\ pc \in [Sessions -> {"idle", "clocked", "available", "breaking", "read", "written", "settling",
                            "releasing"}]
    /\ writes \in [Sessions -> Nat]
    /\ timer \in [Sessions -> Nat]
    /\ claim \in [Sessions -> Records]
    /\ robbed \subseteq Sessions /\ takers \subseteq Sessions

-----------------------------------------------------------------------------
(* is_active, names, can_acquire, next_renewal *)
ActiveAt(r, t) == r.by # NoOne /\ r.ts + Duration > t
Active(r) == ActiveAt(r, now)
Names(r, s) == r.by = s
CanAcquire(r, s, t) == ~ActiveAt(r, t) \/ Names(r, s)
NextRenewal(r) == IF r.by = NoOne THEN 0 ELSE r.renewal + 1

(* renewal_due: half the duration is over. *)
RenewalDue(r) == now >= r.ts + Duration \div 2

(* A session believes in its last acquired record until that expires, ...    *)
Believes(s) == Names(claim[s], s) /\ Active(claim[s])

(* ... and goes by it by right unless its lease was broken meanwhile, which   *)
(* it learns of when it asks (holds) or renews.                             *)
Goes(s) == Believes(s) /\ s \notin robbed

-----------------------------------------------------------------------------
(* No record was ever written. *)
LeaseInit ==
    /\ cas \in Stores
    /\ now = 0
    /\ rec = Released
    /\ pc = [s \in Sessions |-> "idle"]
    /\ writes = [s \in Sessions |-> 0]
    /\ timer = [s \in Sessions |-> 0]
    /\ claim = [s \in Sessions |-> Released]
    /\ robbed = {} /\ takers = {}

(* A procedure returns and its locals are gone. *)
Done(s) ==
    /\ pc' = [pc EXCEPT ![s] = "idle"]
    /\ timer' = [timer EXCEPT ![s] = 0]
    /\ writes' = [writes EXCEPT ![s] = 0]

(* acquire returns: the session goes by this record from now on, or by none. *)
Concludes(s, r) ==
    /\ Done(s)
    /\ claim' = [claim EXCEPT ![s] = r]
    /\ robbed' = robbed \ {s}

(* acquire, or renew_if_due for a session with a claim: available() reads    *)
(* the clock first ...                                                      *)
ReadClock(s) ==
    /\ pc[s] = "idle"
    /\ claim[s] = Released \/ RenewalDue(claim[s])
    /\ pc' = [pc EXCEPT ![s] = "clocked"]
    /\ timer' = [timer EXCEPT ![s] = now]
    /\ UNCHANGED <<cas, now, rec, writes, claim, hist>>

(* ... and then the record, which it judges by that time. *)
Look(s) ==
    /\ pc[s] = "clocked"
    /\ IF CanAcquire(rec, s, timer[s])
       THEN /\ pc' = [pc EXCEPT ![s] = "available"]
            /\ UNCHANGED <<timer, writes, claim, robbed>>
       ELSE Concludes(s, Released)
    /\ UNCHANGED <<cas, now, rec, takers>>

(* break_lease: the role is looked at, the lease is not. *)
Break(s) ==
    /\ s \in Breakers
    /\ pc[s] = "idle"
    /\ ~Names(rec, s)
    /\ pc' = [pc EXCEPT ![s] = "breaking"]
    /\ timer' = [timer EXCEPT ![s] = now]
    /\ UNCHANGED <<cas, now, rec, writes, claim, hist>>

(* write: read the current record, for the renewal only. *)
ReadCurrent(s) ==
    /\ pc[s] \in {"available", "breaking"}
    /\ NextRenewal(rec) <= MaxRenewal
    /\ writes' = [writes EXCEPT ![s] = NextRenewal(rec)]
    /\ pc' = [pc EXCEPT ![s] = "read"]
    /\ UNCHANGED <<cas, now, rec, timer, claim, hist>>

(* Mutant: only the renewal is compared. *)
WriteAllowedByRenewal(s) == cas => writes[s] = NextRenewal(rec)

(* write_lease of a store with compare-and-set refuses a renewal that does   *)
(* not follow the record it replaces and, to all but an owner, an active     *)
(* lease of another session.                                                *)
WriteAllowed(s) ==
    cas => /\ writes[s] = NextRenewal(rec)
           /\ s \in Owners \/ CanAcquire(rec, s, now)

(* history: whose lease is gone when session s replaces the record *)
RobbedBy(s) == {t \in Sessions \ {s} : Goes(t) /\ Names(rec, t)}
Overwrites(s) ==
    /\ robbed' = robbed \cup RobbedBy(s)
    /\ takers' = takers \cup (IF RobbedBy(s) = {} THEN {} ELSE {s})

(* write_over: a conflict is no failure, the read-backs will tell. *)
Write(s) ==
    /\ pc[s] = "read"
    /\ IF WriteAllowed(s)
       THEN /\ rec' = [by |-> s, renewal |-> writes[s], ts |-> now]
            /\ Overwrites(s)
       ELSE UNCHANGED <<rec, hist>>
    /\ pc' = [pc EXCEPT ![s] = "written"]
    /\ UNCHANGED <<cas, now, writes, timer, claim>>

(* confirms *)
Confirms(s) == Names(rec, s) /\ rec.renewal = writes[s]

(* confirm: the first read-back, then the settle interval. *)
ReadBack(s) ==
    /\ pc[s] = "written"
    /\ IF Confirms(s)
       THEN /\ pc' = [pc EXCEPT ![s] = "settling"]
            /\ timer' = [timer EXCEPT ![s] = now + Settle]
            /\ UNCHANGED <<writes, claim, robbed>>
       ELSE Concludes(s, Released)
    /\ UNCHANGED <<cas, now, rec, takers>>

(* Mutant: whoever's record it is, it is taken for one's own. *)
ReadBackAnybody(s) ==
    /\ pc[s] = "settling"
    /\ now >= timer[s]
    /\ Concludes(s, [rec EXCEPT !.by = s])
    /\ UNCHANGED <<cas, now, rec, takers>>

(* confirm: the second read-back decides. *)
ReadBackAgain(s) ==
    /\ pc[s] = "settling"
    /\ now >= timer[s]
    /\ Concludes(s, IF Confirms(s) THEN rec ELSE Released)
    /\ UNCHANGED <<cas, now, rec, takers>>

(* release: only when the record names this session ... *)
StartRelease(s) ==
    /\ pc[s] = "idle"
    /\ Names(rec, s)
    /\ pc' = [pc EXCEPT ![s] = "releasing"]
    /\ timer' = [timer EXCEPT ![s] = now]
    /\ UNCHANGED <<cas, now, rec, writes, claim, hist>>

(* ... a release carries no holder, so the store goes by the principal.      *)
ReleaseAllowed(s) ==
    cas /\ s \notin Owners /\ Active(rec) => Principal[rec.by] = Principal[s]

Release(s) ==
    /\ pc[s] = "releasing"
    /\ IF ReleaseAllowed(s)
       THEN rec' = Released /\ Overwrites(s)
       ELSE UNCHANGED <<rec, hist>>
    /\ Done(s)
    /\ claim' = [claim EXCEPT ![s] = Released]
    /\ UNCHANGED <<cas, now>>

(* Time passes.  A store with compare-and-set asks nothing of the sessions'   *)
(* pace; on one without, no session dallies between its first read and its   *)
(* write for longer than MaxDelay.                                          *)
OnItsWay(s) == pc[s] \in {"clocked", "available", "breaking", "read", "releasing"}
LeaseTick ==
    /\ now < MaxTime
    /\ \A s \in Sessions : ~cas /\ OnItsWay(s) => now < timer[s] + MaxDelay
    /\ now' = now + 1
    /\ UNCHANGED <<cas, rec, pc, writes, timer, claim, hist>>

SessionStep(s) ==
    \/ ReadClock(s) \/ Look(s) \/ Break(s) \/ ReadCurrent(s) \/ Write(s) \/ ReadBack(s)
    \/ ReadBackAgain(s) \/ StartRelease(s) \/ Release(s)

LeaseNext == LeaseTick \/ \E s \in Sessions : SessionStep(s)

LeaseSpec == LeaseInit /\ [][LeaseNext]_leaseVars

-----------------------------------------------------------------------------
(* Properties *)

(* Lease rule 3: two sessions never go by an unexpired lease at the same     *)
(* time, from the first acquire on and again after every break_lease.       *)
MutualExclusion == \A s, t \in Sessions : Goes(s) /\ Goes(t) => s = t

(* can_acquire: "a session MAY acquire only if no lease is active, or if it  *)
(* is the holder"; release: "Only the session the record names releases it". *)
(* No session but one that calls break_lease replaces the record of another  *)
(* session while that goes by its lease, whatever changed between its reads  *)
(* and its write.                                                           *)
NeverTaken == takers \subseteq Breakers
=============================================================================
