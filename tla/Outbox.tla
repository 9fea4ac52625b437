------------------------------- MODULE Outbox -------------------------------
(***************************************************************************)
(* The send queue of a collaboration session: collab/dcp-core/src/outbox.rs *)
(* driven by DocTask::flush of collab/collabd/src/doc.rs.                   *)
(*                                                                         *)
(* Items are named by the order they were pushed in: 1, 2, 3 ...  The       *)
(* absolute time not_before_ms is kept as what is left of it, wait =        *)
(* max(not_before_ms - now, 0), one tick being the smallest interval told   *)
(* apart.  The binding is not under this module: it answers a send with     *)
(* any of the results StoreError names, and a transport failure may come    *)
(* before or after the binding stored the item.                             *)
(***************************************************************************)
EXTENDS Integers, Sequences, FiniteSets

CONSTANTS
    MinInterval,    \* min_interval_ms = 1000.div_ceil(max_events_per_second)
    FirstBackoff,   \* FIRST_BACKOFF_MS
    MaxBackoff,     \* MAX_BACKOFF_MS
    RetryAfters,    \* the retry_after_ms values a server may answer
    MaxItems,       \* bound: how many items are ever pushed
    MaxStored       \* bound: no answer is lost once this much is stored

ASSUME IntervalAssumption == MinInterval \in Nat \ {0}
ASSUME BackoffAssumption ==
    /\ FirstBackoff \in Nat \ {0}
    /\ MaxBackoff \in Nat
    /\ FirstBackoff <= MaxBackoff
ASSUME RetryAssumption == RetryAfters \subseteq Nat
ASSUME BoundAssumption == MaxItems \in Nat /\ MaxStored \in Nat

VARIABLES
    queue,      \* Outbox.queue
    wait,       \* what is left until Outbox.not_before_ms
    backoff,    \* Outbox.backoff_ms
    \* history, no part of the code's state
    pushed,     \* how many items were ever pushed
    log,        \* what the binding stored, in the order it stored it
    refused,    \* items discard_head gave up on
    since,      \* time since the binding last stored an item, at most MinInterval
    doublings   \* 1, 2, 4 ... times FirstBackoff owed to failures in a row; 0 for none

outboxVars == <<queue, wait, backoff, pushed, log, refused, since, doublings>>

Larger(a, b) == IF a > b THEN a ELSE b
Smaller(a, b) == IF a < b THEN a ELSE b

OutboxTypeOK ==
    /\ queue \in Seq(1 .. MaxItems)
    /\ wait \in Nat
    /\ backoff \in 0 .. MaxBackoff
    /\ pushed \in 0 .. MaxItems
    /\ log \in Seq(1 .. MaxItems)
    /\ refused \subseteq 1 .. MaxItems
    /\ since \in 0 .. MinInterval
    /\ doublings \in Nat

-----------------------------------------------------------------------------
(* Outbox::new: nothing queued, nothing to wait for. *)
OutboxInit ==
    /\ queue = <<>>
    /\ wait = 0
    /\ backoff = 0
    /\ pushed = 0
    /\ log = <<>>
    /\ refused = {}
    /\ since = MinInterval
    /\ doublings = 0

Push ==
    /\ pushed < MaxItems
    /\ pushed' = pushed + 1
    /\ queue' = Append(queue, pushed + 1)
    /\ UNCHANGED <<wait, backoff, log, refused, since, doublings>>

(* Mutant: the last item is taken for an empty queue. *)
MaySendUnlessLast == Len(queue) > 1 /\ wait = 0

(* step() reaches the binding only with something queued, and not before    *)
(* not_before_ms; Step::Idle and Step::Wait change nothing.                 *)
MaySend == queue # <<>> /\ wait = 0

(* The binding stores the head. *)
Stored ==
    /\ log' = Append(log, Head(queue))
    /\ since' = 0

(* Mutant: the doubled back-off is not capped. *)
NextBackoffUncapped(b) == IF b = 0 THEN FirstBackoff ELSE 2 * b

(* Outbox::back_off: the wait a server asks for is honoured, even one       *)
(* shorter than the back-off; the back-off doubles all the same.            *)
NextBackoff(b) == IF b = 0 THEN FirstBackoff ELSE Smaller(2 * b, MaxBackoff)

(* history: the power of two stops growing once the cap is reached *)
NextDoublings(d) ==
    IF d = 0 THEN 1 ELSE IF d * FirstBackoff >= MaxBackoff THEN d ELSE 2 * d

(* Mutants: a failed item is gone, goes to the back of the queue, or waits   *)
(* for the back-off alone.                                                  *)
BackOffDropping(retry) ==
    /\ backoff' = NextBackoff(backoff)
    /\ wait' = Larger(backoff', MinInterval)
    /\ doublings' = NextDoublings(doublings)
    /\ queue' = Tail(queue)
    /\ UNCHANGED <<pushed, refused>>
BackOffRequeueing(retry) ==
    /\ backoff' = NextBackoff(backoff)
    /\ wait' = Larger(backoff', MinInterval)
    /\ doublings' = NextDoublings(doublings)
    /\ queue' = Append(Tail(queue), Head(queue))
    /\ UNCHANGED <<pushed, refused>>
BackOffUnpaced(retry) ==
    /\ backoff' = NextBackoff(backoff)
    /\ wait' = IF retry = {} THEN backoff' ELSE CHOOSE r \in retry : TRUE
    /\ doublings' = NextDoublings(doublings)
    /\ UNCHANGED <<queue, pushed, refused>>

BackOff(retry) ==
    /\ backoff' = NextBackoff(backoff)
    /\ wait' = Larger(IF retry = {} THEN backoff' ELSE CHOOSE r \in retry : TRUE,
                      MinInterval)
    /\ doublings' = NextDoublings(doublings)
    /\ UNCHANGED <<queue, pushed, refused>>

(* step(), Ok(()): the head leaves, the back-off is forgotten, the next     *)
(* send is paced.                                                           *)
Accepted ==
    /\ MaySend
    /\ Stored
    /\ queue' = Tail(queue)
    /\ backoff' = 0
    /\ wait' = MinInterval
    /\ doublings' = 0
    /\ UNCHANGED <<pushed, refused>>

(* step(), Err(RateLimited): with or without a retry_after_ms. *)
RateLimited ==
    /\ MaySend
    /\ \E retry \in {{}} \cup {{r} : r \in RetryAfters} : BackOff(retry)
    /\ UNCHANGED <<log, since>>

(* step(), Err(Transport) for a request that never arrived. *)
RequestLost ==
    /\ MaySend
    /\ BackOff({})
    /\ UNCHANGED <<log, since>>

(* step(), Err(Transport) for a request the binding carried out and whose   *)
(* answer was lost: the item stays queued and will be sent again.           *)
AnswerLost ==
    /\ MaySend
    /\ Len(log) < MaxStored
    /\ BackOff({})
    /\ Stored

(* step(), any other error, and flush's discard_head that follows it: the   *)
(* head leaves without having been stored.  Neither the pacing nor the      *)
(* back-off changes, so the item behind it is sent at once.                 *)
Refused ==
    /\ MaySend
    /\ refused' = refused \cup {Head(queue)}
    /\ queue' = Tail(queue)
    /\ UNCHANGED <<wait, backoff, pushed, log, since, doublings>>

(* Time passes. *)
OutboxTick ==
    /\ wait > 0 \/ since < MinInterval
    /\ wait' = Larger(wait - 1, 0)
    /\ since' = Smaller(since + 1, MinInterval)
    /\ UNCHANGED <<queue, backoff, pushed, log, refused, doublings>>

OutboxNext ==
    \/ Push
    \/ Accepted
    \/ RateLimited
    \/ RequestLost
    \/ AnswerLost
    \/ Refused
    \/ OutboxTick

OutboxSpec == OutboxInit /\ [][OutboxNext]_outboxVars

(* flush is called again at until_ms (run's timer), so time and the next    *)
(* attempt are not held up by the queue; the binding is assumed not to fail *)
(* for ever.                                                                *)
OutboxFairSpec == OutboxSpec /\ WF_outboxVars(OutboxTick) /\ SF_outboxVars(Accepted)

-----------------------------------------------------------------------------
(* Properties *)

ItemsOf(s) == {s[i] : i \in DOMAIN s}

(* "It never discards an item" (outbox.rs, module comment): whatever was    *)
(* pushed is still queued, was stored by the binding, or was refused.       *)
NothingLost == 1 .. pushed \subseteq ItemsOf(queue) \cup ItemsOf(log) \cup refused

(* "Send in the order created" (spec 8.1): the binding stores items in the  *)
(* order they were pushed.  A lost answer makes it store an item twice, but *)
(* never with another item between the two copies, and never after the item *)
(* was given up.                                                            *)
InOrder ==
    /\ \A i, j \in DOMAIN log : i < j => log[i] <= log[j]
    /\ \A i \in DOMAIN log, j \in DOMAIN queue : log[i] <= queue[j]

(* At most one item per MinInterval is stored, whatever mix of answers and  *)
(* retries lies between: back_off's wait is never below the pacing.         *)
Paced == [][log' # log => since >= MinInterval]_outboxVars

(* back_off is the exponential it is meant to be: after k failures with no  *)
(* accepted send in between, min(FirstBackoff * 2^(k-1), MaxBackoff), and   *)
(* zero as soon as a send is accepted.                                      *)
BackoffIsExponential == backoff = Smaller(doublings * FirstBackoff, MaxBackoff)

(* While the binding accepts again and again, everything pushed is stored   *)
(* or was refused.                                                          *)
EverythingLeaves ==
    \A i \in 1 .. MaxItems : (i <= pushed) ~> (i \in ItemsOf(log) \cup refused)
=============================================================================
