----------------------------- MODULE ReschedLoop -----------------------------
(***************************************************************************)
(* How rescheduling events reach the scheduler: TriggerResched and its     *)
(* callers, the bounded channel reschedCh, SchedulerLock, and the loop of  *)
(* Run() with its time stamps and rate limit                               *)
(* (src/pkg/scheduler/scheduler/scheduler.go).                             *)
(*                                                                         *)
(* What the callers do to the jobs is reduced to a number: each change is  *)
(* the next natural number, and an allocation plans all changes made so    *)
(* far.  Time stamps are reduced to how they compare with lastResched.     *)
(***************************************************************************)
EXTENDS Naturals, Sequences, FiniteSets, SequencesExt

CONSTANTS
    Handlers,      \* goroutines that send while they hold SchedulerLock:
                   \* readMsgs, the MPIJob informer, the node informer
    Tickers,       \* goroutines that send after releasing it: updateTimeMetrics
    Capacity,      \* reschedChannelSize
    MaxChanges,    \* bound on the changes the senders make
    MaxFailures,   \* bound on failures of the allocator
    MaxRestored    \* bound on the finished jobs found by constructStatusOnRestart

Senders == Handlers \cup Tickers

ASSUME SendersAssumption ==
    /\ IsFiniteSet(Senders)
    /\ Handlers \cap Tickers = {} /\ Senders \cap {"Run", "free"} = {}
ASSUME CapacityAssumption == Capacity \in Nat \ {0}
ASSUME BoundAssumption ==
    MaxChanges \in Nat /\ MaxFailures \in Nat /\ MaxRestored \in Nat

VARIABLES
    ch,          \* reschedCh
    lock,        \* the holder of SchedulerLock, or "free"
    pc,          \* [Senders -> ...]
    hand,        \* the event each sender has stamped, or the change it has made
    runPc,       \* where Run() is
    blocked,     \* is reschedBlockedUntil in the future?
    restored,    \* events constructStatusOnRestart has yet to send
    changes,     \* history: number of changes so far
    planned,     \* history: the changes the last allocation has seen
    gap,         \* history: changes stamped between an unlock and lastResched
    failures     \* history: number of failed allocations

vars == <<ch, lock, pc, hand, runPc, blocked, restored, changes, planned, gap, failures>>
sender == <<pc, hand, changes, gap>>

\* stale:  not after lastResched
\* fresh:  after lastResched, before the present
\* future: in the future, that of a retry
Stamps == {"stale", "fresh", "future"}
Event  == [change : Nat, stamp : Stamps]

\* restoring: constructStatusOnRestart, before Run() has started
\* select:    waiting for an event
\* limited:   an event is taken, waiting until reschedBlockedUntil
\* lock:      resched() waits for SchedulerLock
\* applying:  resched() holds it
\* unlocked:  resched() has released it, Place() is next
\* placing:   resched() holds it for reading, in Place()
\* placed:    resched() is over, lastResched is not set yet
\* retry:     the allocation failed, resched() sends the retry
\* failed:    the retry is sent, lastResched is not set yet
RunStates == {"restoring", "select", "limited", "lock", "applying", "unlocked",
              "placing", "placed", "retry", "failed"}

TypeOK ==
    /\ ch \in Seq(Event) /\ Len(ch) <= Capacity
    /\ lock \in Senders \cup {"Run", "free"}
    /\ pc \in [Senders -> {"out", "changed", "sending"}]
    /\ hand \in [Senders -> Event]
    /\ runPc \in RunStates
    /\ blocked \in BOOLEAN
    /\ restored \in Nat /\ changes \in Nat /\ planned \in Nat /\ failures \in Nat
    /\ gap \subseteq Nat

NoEvent == [change |-> 0, stamp |-> "stale"]

Init ==
    /\ ch = <<>>
    /\ lock = "free"
    /\ pc = [s \in Senders |-> "out"]
    /\ hand = [s \in Senders |-> NoEvent]
    /\ runPc = "restoring"
    /\ blocked = FALSE
    /\ restored \in 0..MaxRestored
    /\ changes = restored + 1      \* every finished job, and the restart itself
    /\ planned = 0 /\ gap = {} /\ failures = 0

\* Mutant: every event is sent twice.
SendTwice(event) == Len(ch) + 1 < Capacity /\ ch' = ch \o <<event, event>>

\* A send on the channel, which blocks its goroutine while the channel is full.
Send(event) == Len(ch) < Capacity /\ ch' = Append(ch, event)

-----------------------------------------------------------------------------
(* The senders.                                                             *)

\* The body of a handler, or of a tick: a change made under the lock.
Change(s) ==
    /\ pc[s] = "out" /\ runPc # "restoring"
    /\ lock = "free"
    /\ changes < MaxChanges
    /\ changes' = changes + 1
    /\ pc' = [pc EXCEPT ![s] = "changed"]
    /\ hand' = [hand EXCEPT ![s].change = changes + 1]
    /\ lock' = IF s \in Handlers THEN s ELSE "free"
    /\ UNCHANGED <<ch, runPc, blocked, restored, planned, gap, failures>>

\* TriggerResched: time.Now() is evaluated before the send.
InGap == runPc \in {"unlocked", "placing", "placed"}
Stamp(s) ==
    /\ pc[s] = "changed"
    /\ pc' = [pc EXCEPT ![s] = "sending"]
    /\ hand' = [hand EXCEPT ![s].stamp = "fresh"]
    /\ gap' = IF InGap THEN gap \cup {hand[s].change} ELSE gap
    /\ UNCHANGED <<ch, lock, runPc, blocked, restored, changes, planned, failures>>

\* The send, and the deferred Unlock of a handler.
SendEvent(s) ==
    /\ pc[s] = "sending"
    /\ Send(hand[s])
    /\ pc' = [pc EXCEPT ![s] = "out"]
    /\ hand' = [hand EXCEPT ![s] = NoEvent]
    /\ lock' = IF s \in Handlers THEN "free" ELSE lock
    /\ UNCHANGED <<runPc, blocked, restored, changes, planned, gap, failures>>

-----------------------------------------------------------------------------
(* Run().                                                                   *)

\* NewScheduler: each finished MPIJob that constructStatusOnRestart finds
\* triggers an event, and so does the restart; only then is Run() started.
Restore ==
    /\ runPc = "restoring"
    /\ Send([change |-> changes - restored, stamp |-> "fresh"])
    /\ IF restored > 0 THEN restored' = restored - 1 /\ UNCHANGED runPc
                       ELSE runPc' = "select" /\ UNCHANGED restored
    /\ UNCHANGED <<lock, sender, blocked, planned, failures>>

\* Mutant: only a retry is not stale.
StaleUnlessFuture(event) == event.stamp # "future"

\* An event with a time stamp that is not after lastResched is ignored.
Stale(event) == event.stamp = "stale"

Ignore ==
    /\ runPc = "select"
    /\ ch # <<>> /\ Stale(Head(ch))
    /\ ch' = Tail(ch)
    /\ UNCHANGED <<lock, sender, runPc, blocked, restored, planned, failures>>

Take ==
    /\ runPc = "select"
    /\ ch # <<>> /\ ~Stale(Head(ch))
    /\ ch' = Tail(ch)
    /\ runPc' = "limited"
    /\ UNCHANGED <<lock, sender, blocked, restored, planned, failures>>

\* Time passes until reschedBlockedUntil.
RateLimitPasses ==
    /\ blocked
    /\ blocked' = FALSE
    /\ UNCHANGED <<ch, lock, sender, runPc, restored, planned, failures>>

WakeUp ==
    /\ runPc = "limited" /\ ~blocked
    /\ runPc' = "lock"
    /\ UNCHANGED <<ch, lock, sender, blocked, restored, planned, failures>>

\* resched() takes the lock and gets an allocation ...
Allocate ==
    /\ runPc = "lock" /\ lock = "free"
    /\ lock' = "Run"
    /\ runPc' = "applying"
    /\ planned' = changes
    /\ UNCHANGED <<ch, sender, blocked, restored, failures>>

\* ... or fails to, and releases the lock before it sends the retry.
AllocationFails ==
    /\ runPc = "lock" /\ lock = "free"
    /\ failures < MaxFailures
    /\ failures' = failures + 1
    /\ runPc' = "retry"
    /\ UNCHANGED <<ch, lock, sender, blocked, restored, planned>>

SendRetry ==
    /\ runPc = "retry"
    /\ Send([change |-> changes, stamp |-> "future"])
    /\ runPc' = "failed"
    /\ UNCHANGED <<lock, sender, blocked, restored, planned, failures>>

\* Mutant: the lock is not released.
ReleaseForgotten == UNCHANGED lock

Release == lock' = "free"

Unlock ==
    /\ \/ runPc = "applying" /\ runPc' \in {"unlocked", "placed"}
       \/ runPc = "placing" /\ runPc' = "placed"
    /\ Release
    /\ UNCHANGED <<ch, sender, blocked, restored, planned, failures>>

Place ==
    /\ runPc = "unlocked" /\ lock = "free"
    /\ lock' = "Run"
    /\ runPc' = "placing"
    /\ UNCHANGED <<ch, sender, blocked, restored, planned, failures>>

\* Mutant: a retry has the time stamp of the moment it is sent.
AgedRetryLost(event, retry) == [event EXCEPT !.stamp = "stale"]

\* lastResched = time.Now().  What was stamped until now becomes stale; a retry
\* asked for by an earlier resched() may or may not be in the future still.
Aged(event, retry) ==
    [event EXCEPT !.stamp = IF @ = "future" THEN retry ELSE "stale"]

SetLastResched ==
    /\ runPc \in {"placed", "failed"}
    /\ runPc' = "select"
    /\ \E retry \in IF runPc = "failed" THEN {"future"} ELSE {"future", "stale"} :
          ch' = [i \in DOMAIN ch |-> Aged(ch[i], retry)]
    /\ hand' = [s \in Senders |-> Aged(hand[s], "future")]
    /\ blocked' = TRUE
    /\ UNCHANGED <<lock, pc, changes, gap, restored, planned, failures>>

-----------------------------------------------------------------------------
SenderStep(s) == Change(s) \/ Stamp(s) \/ SendEvent(s)

RunStep == \/ Restore \/ Ignore \/ Take \/ WakeUp \/ Allocate \/ AllocationFails
           \/ SendRetry \/ Unlock \/ Place \/ SetLastResched

Next == (\E s \in Senders : SenderStep(s)) \/ RunStep \/ RateLimitPasses

\* The goroutines run, and time passes.
Fairness ==
    /\ \A s \in Senders : WF_vars(Stamp(s) \/ SendEvent(s))
    /\ SF_vars(RunStep)
    /\ WF_vars(RateLimitPasses)

Spec == Init /\ [][Next]_vars
FairSpec == Spec /\ Fairness

-----------------------------------------------------------------------------
(* Properties.                                                              *)

\* What Run() waits for is held by a goroutine that waits for Run(), or is room
\* in the channel that only Run() makes.
CircularWait ==
    \/ /\ runPc \in {"lock", "unlocked"}
       /\ \E s \in Handlers : lock = s /\ pc[s] = "sending" /\ Len(ch) = Capacity
    \/ runPc \in {"restoring", "retry"} /\ Len(ch) = Capacity

\* Nobody is locked in before there have been more changes than the channel can
\* hold, however many of the allocations fail.
NoCircularWait == changes <= Capacity => ~CircularWait

\* A change that no allocation has seen will wake Run() up: an event that is not
\* stale is in the channel, in the hands of a sender, or about to be stamped.
\* The exception is a change stamped in the gap before lastResched is set: its
\* event is ignored although no allocation has seen it, against the comment on
\* "events with timestamp before s.lastResched".
WakeUpPending ==
    \/ \E i \in DOMAIN ch : ~Stale(ch[i])
    \/ \E s \in Senders : pc[s] = "changed" \/ (pc[s] = "sending" /\ ~Stale(hand[s]))
LostOnlyInGap ==
    runPc = "select" => (planned+1)..changes \subseteq gap \/ WakeUpPending

\* Every change is planned in the end, unless it was stamped in the gap.
ChangeIsPlanned ==
    \A c \in 1..MaxChanges : (changes >= c) ~> (planned >= c \/ c \in gap)

\* "On every re-scheduling event, the scheduler comes out with a scheduling
\* plan": an event that is taken leads to an allocation or its retry.
TakenIsServed == (runPc = "limited") ~> (runPc \in {"applying", "retry"})
=============================================================================
