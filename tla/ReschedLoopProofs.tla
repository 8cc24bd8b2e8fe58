-------------------------- MODULE ReschedLoopProofs --------------------------
(***************************************************************************)
(* Two promises of the rescheduling loop for any number of senders, any    *)
(* size of the channel and any number of failed allocations: a wake-up is  *)
(* lost in one window only, and nobody is locked in before there have been *)
(* more changes than the channel can hold.                                 *)
(***************************************************************************)
EXTENDS ReschedLoop, FiniteSetTheorems, SequenceTheorems, TLAPS

(***************************************************************************)
(* The inductive invariant.                                                *)
(***************************************************************************)

\* A retry is in the channel.
RetryPending == \E i \in DOMAIN ch : ch[i].stamp = "future"

\* What becomes of changes that no allocation has seen.  While resched() holds the
\* lock there are none; after that they are stamped in the gap, or not stamped yet.
NoneLost ==
    /\ LostOnlyInGap
    /\ runPc = "applying" => planned = changes
    /\ runPc \in {"unlocked", "placing", "placed"} =>
          \A c \in (planned+1)..changes :
              c \in gap \/ \E s \in Senders : pc[s] = "changed" /\ hand[s].change = c
    /\ runPc = "failed" => RetryPending

\* Events that are in the channel, held by senders, taken by Run(), or owed by a
\* restart: none without a change, since a retry replaces an event taken.
Busy == { s \in Senders : pc[s] # "out" }
Owed == IF runPc = "restoring" THEN restored + 1
        ELSE IF runPc \in {"limited", "lock", "retry"} THEN 1 ELSE 0
EventsOfChanges == Len(ch) + Cardinality(Busy) + Owed <= changes

\* A handler holds the lock from its change to its send, resched() while it applies
\* and while it places.
LockHeld ==
    /\ \A s \in Handlers : pc[s] # "out" => lock = s
    /\ runPc \in {"applying", "placing"} => lock = "Run"

LoopInv == TypeOK /\ NoneLost /\ EventsOfChanges /\ LockHeld

(***************************************************************************)
(* The channel and the senders.                                            *)
(***************************************************************************)

\* A send adds an event at the end.
LEMMA SendAdds ==
    ASSUME ch \in Seq(Event), Capacity \in Nat, NEW e \in Event, Send(e)
    PROVE  /\ ch' \in Seq(Event) /\ Len(ch') = Len(ch) + 1 /\ Len(ch') <= Capacity
           /\ Len(ch) \in Nat
           /\ \A i \in DOMAIN ch : i \in DOMAIN ch' /\ ch'[i] = ch[i]
           /\ Len(ch) + 1 \in DOMAIN ch' /\ ch'[Len(ch) + 1] = e
  <1>1. /\ ch' \in Seq(Event) /\ Len(ch') = Len(ch) + 1
        /\ \A i \in 1..Len(ch) : ch'[i] = ch[i]
        /\ ch'[Len(ch) + 1] = e
    BY AppendProperties DEF Send
  <1> QED BY <1>1, LenProperties DEF Send

\* A receive takes the first event.
LEMMA ReceiveTakes ==
    ASSUME ch \in Seq(Event), ch # <<>>, ch' = Tail(ch)
    PROVE  /\ ch' \in Seq(Event) /\ Len(ch') = Len(ch) - 1 /\ Len(ch) \in Nat \ {0}
           /\ \A i \in DOMAIN ch : i # 1 => i - 1 \in DOMAIN ch' /\ ch'[i - 1] = ch[i]
           /\ Head(ch) = ch[1]
  <1>1. /\ ch' \in Seq(Event) /\ Len(ch') = Len(ch) - 1
        /\ \A i \in 1..Len(ch') : ch'[i] = ch[i + 1]
        /\ Head(ch) = ch[1] /\ Len(ch) \in Nat \ {0}
    BY HeadTailProperties, EmptySeq
  <1>2. ASSUME NEW i \in 1..Len(ch), i # 1 PROVE i - 1 \in 1..Len(ch') /\ ch'[i - 1] = ch[i]
    <2>1. i - 1 \in 1..Len(ch') /\ (i - 1) + 1 = i
      BY <1>1, <1>2
    <2> QED BY <1>1, <2>1
  <1> QED BY <1>1, <1>2, LenProperties

\* Senders that are busy are finitely many.
LEMMA BusyFinite == IsFiniteSet(Busy) /\ Cardinality(Busy) \in Nat
  BY SendersAssumption, FS_Subset, FS_CardinalityType DEF Busy

\* Senders whose pc stays are as busy as before.
LEMMA SameBusy ==
    ASSUME UNCHANGED pc PROVE Cardinality(Busy)' = Cardinality(Busy)
  <1>1. Busy' = Busy
    BY DEF Busy
  <1> QED BY <1>1

(***************************************************************************)
(* LoopInv is inductive.                                                   *)
(***************************************************************************)

\* Initially a restart owes one event for each change.
LEMMA InitLoop == ASSUME Init PROVE LoopInv
  <1> USE BoundAssumption, CapacityAssumption
  <1>1. restored \in Nat /\ ch = <<>> /\ Len(ch) = 0 /\ ch \in Seq(Event)
    BY DEF Init
  <1>2. TypeOK
    <2>1. NoEvent \in Event
      BY DEF NoEvent, Event, Stamps
    <2>2. Len(ch) <= Capacity /\ changes \in Nat
      BY <1>1 DEF Init
    <2> QED BY <1>1, <2>1, <2>2 DEF Init, TypeOK, RunStates
  <1>3. Busy = {}
    BY DEF Init, Busy
  <1>4. Cardinality(Busy) = 0
    BY <1>3, FS_EmptySet
  <1>5. EventsOfChanges
    BY <1>1, <1>4 DEF Init, EventsOfChanges, Owed
  <1>6. NoneLost
    BY DEF Init, NoneLost, LostOnlyInGap
  <1>7. LockHeld
    BY DEF Init, LockHeld, Senders
  <1> QED BY <1>2, <1>5, <1>6, <1>7 DEF LoopInv

\* A change is in the hands of its sender until it is stamped.
LEMMA ChangeLoop == ASSUME LoopInv, NEW s \in Senders, Change(s) PROVE LoopInv'
  <1> USE DEF LoopInv
  <1>1. /\ pc' = [pc EXCEPT ![s] = "changed"] /\ pc[s] = "out"
        /\ hand' = [hand EXCEPT ![s].change = changes + 1]
        /\ changes' = changes + 1 /\ changes \in Nat /\ planned \in Nat
        /\ UNCHANGED <<ch, runPc, blocked, restored, planned, gap, failures>>
        /\ lock = "free" /\ lock' = (IF s \in Handlers THEN s ELSE "free")
    BY DEF Change, TypeOK
  <1>2. TypeOK'
    <2>1. changes + 1 \in Nat /\ hand \in [Senders -> [change : Nat, stamp : Stamps]]
      BY <1>1 DEF TypeOK, Event
    <2>2. hand' \in [Senders -> [change : Nat, stamp : Stamps]]
      BY <1>1, <2>1
    <2>3. pc' \in [Senders -> {"out", "changed", "sending"}]
      BY <1>1 DEF TypeOK
    <2> QED BY <1>1, <2>1, <2>2, <2>3 DEF TypeOK, Event
  <1>3. pc'[s] = "changed" /\ hand'[s].change = changes + 1
    BY <1>1 DEF TypeOK, Event
  <1>4. \A t \in Senders : pc[t] = "changed" => pc'[t] = "changed" /\ hand'[t] = hand[t]
    BY <1>1 DEF TypeOK
  <1>5. runPc # "applying" /\ LockHeld'
    BY <1>1, SendersAssumption DEF LockHeld, TypeOK, Senders
  <1>6. NoneLost'
    <2>1. LostOnlyInGap'
      BY <1>3 DEF LostOnlyInGap, WakeUpPending
    <2>2. ASSUME NEW c \in (planned+1)..changes', runPc \in {"unlocked", "placing", "placed"}
          PROVE  c \in gap \/ \E t \in Senders : pc'[t] = "changed" /\ hand'[t].change = c
      <3>1. CASE c = changes + 1
        BY <1>3, <3>1
      <3>2. CASE c # changes + 1
        <4>1. c \in (planned+1)..changes
          BY <1>1, <3>2
        <4> QED BY <1>4, <2>2, <4>1 DEF NoneLost
      <3> QED BY <3>1, <3>2
    <2>3. RetryPending' <=> RetryPending
      BY <1>1 DEF RetryPending
    <2> QED BY <1>1, <1>5, <2>1, <2>2, <2>3 DEF NoneLost
  <1>7. EventsOfChanges'
    <2>1. Busy' = Busy \cup {s} /\ s \notin Busy
      BY <1>1 DEF Busy, TypeOK
    <2>2. Cardinality(Busy') = Cardinality(Busy) + 1
      BY <2>1, BusyFinite, FS_AddElement
    <2>3. Len(ch) \in Nat /\ Owed' = Owed /\ Owed \in Nat
      BY <1>1, LenProperties DEF TypeOK, Owed
    <2> QED BY <1>1, <2>2, <2>3, BusyFinite DEF EventsOfChanges
  <1> QED BY <1>2, <1>5, <1>6, <1>7

\* A stamp that will be stale before it is looked at is one of the gap.
LEMMA StampLoop == ASSUME LoopInv, NEW s \in Senders, Stamp(s) PROVE LoopInv'
  <1> USE DEF LoopInv
  <1>1. /\ pc' = [pc EXCEPT ![s] = "sending"] /\ pc[s] = "changed"
        /\ hand' = [hand EXCEPT ![s].stamp = "fresh"]
        /\ gap' = IF InGap THEN gap \cup {hand[s].change} ELSE gap
        /\ UNCHANGED <<ch, lock, runPc, blocked, restored, changes, planned, failures>>
    BY DEF Stamp
  <1>2. TypeOK'
    BY <1>1 DEF TypeOK, Event, Stamps
  <1>3. pc'[s] = "sending" /\ ~Stale(hand'[s])
    BY <1>1 DEF TypeOK, Event, Stale
  <1>4. NoneLost'
    <2>1. LostOnlyInGap'
      BY <1>3 DEF LostOnlyInGap, WakeUpPending
    <2>2. ASSUME NEW c \in (planned+1)..changes, runPc \in {"unlocked", "placing", "placed"}
          PROVE  c \in gap' \/ \E t \in Senders : pc'[t] = "changed" /\ hand'[t].change = c
      <3>1. CASE c \in gap
        BY <1>1, <3>1
      <3>2. CASE \E t \in Senders : pc[t] = "changed" /\ hand[t].change = c
        <4>1. PICK t \in Senders : pc[t] = "changed" /\ hand[t].change = c
          BY <3>2
        <4>2. CASE t = s
          BY <1>1, <2>2, <4>1, <4>2 DEF InGap
        <4>3. CASE t # s
          BY <1>1, <4>1, <4>3 DEF TypeOK
        <4> QED BY <4>2, <4>3
      <3> QED BY <2>2, <3>1, <3>2 DEF NoneLost
    <2>3. RetryPending' <=> RetryPending
      BY <1>1 DEF RetryPending
    <2> QED BY <1>1, <2>1, <2>2, <2>3 DEF NoneLost
  <1>5. EventsOfChanges'
    <2>1. Busy' = Busy /\ Owed' = Owed
      BY <1>1 DEF Busy, TypeOK, Owed
    <2> QED BY <1>1, <2>1 DEF EventsOfChanges
  <1>6. LockHeld'
    BY <1>1 DEF LockHeld, TypeOK, Senders
  <1> QED BY <1>2, <1>4, <1>5, <1>6

\* An event goes from its sender to the channel as it is.
LEMMA SendEventLoop == ASSUME LoopInv, NEW s \in Senders, SendEvent(s) PROVE LoopInv'
  <1> USE DEF LoopInv
  <1>1. /\ pc' = [pc EXCEPT ![s] = "out"] /\ pc[s] = "sending"
        /\ hand' = [hand EXCEPT ![s] = NoEvent]
        /\ lock' = (IF s \in Handlers THEN "free" ELSE lock)
        /\ UNCHANGED <<runPc, blocked, restored, changes, gap, planned, failures>>
        /\ hand[s] \in Event /\ Send(hand[s])
    BY DEF SendEvent, TypeOK
  <1>2. /\ ch' \in Seq(Event) /\ Len(ch') = Len(ch) + 1 /\ Len(ch') <= Capacity
        /\ Len(ch) \in Nat
        /\ \A i \in DOMAIN ch : i \in DOMAIN ch' /\ ch'[i] = ch[i]
        /\ Len(ch) + 1 \in DOMAIN ch' /\ ch'[Len(ch) + 1] = hand[s]
    BY <1>1, SendAdds, CapacityAssumption DEF TypeOK
  <1>3. TypeOK'
    BY <1>1, <1>2 DEF TypeOK, NoEvent, Event, Stamps
  <1>4. \A t \in Senders : t # s => pc'[t] = pc[t] /\ hand'[t] = hand[t]
    BY <1>1 DEF TypeOK
  <1>5. NoneLost'
    <2>1. WakeUpPending => WakeUpPending'
      <3>1. CASE \E i \in DOMAIN ch : ~Stale(ch[i])
        BY <1>2, <3>1 DEF WakeUpPending, Stale
      <3>2. CASE \E t \in Senders : pc[t] = "changed" \/ (pc[t] = "sending" /\ ~Stale(hand[t]))
        <4>1. PICK t \in Senders : pc[t] = "changed" \/ (pc[t] = "sending" /\ ~Stale(hand[t]))
          BY <3>2
        <4>2. CASE t = s
          BY <1>1, <1>2, <4>1, <4>2 DEF WakeUpPending, Stale
        <4>3. CASE t # s
          BY <1>4, <4>1, <4>3 DEF WakeUpPending, Stale
        <4> QED BY <4>2, <4>3
      <3> QED BY <3>1, <3>2 DEF WakeUpPending
    <2>2. LostOnlyInGap'
      BY <1>1, <2>1 DEF NoneLost, LostOnlyInGap
    <2>3. \A t \in Senders : pc[t] = "changed" => pc'[t] = "changed" /\ hand'[t] = hand[t]
      BY <1>1, <1>4
    <2>4. RetryPending => RetryPending'
      BY <1>2 DEF RetryPending
    <2> QED BY <1>1, <2>2, <2>3, <2>4 DEF NoneLost
  <1>6. EventsOfChanges'
    <2>1. Busy' = Busy \ {s} /\ s \in Busy
      BY <1>1 DEF Busy, TypeOK
    <2>2. Cardinality(Busy') = Cardinality(Busy) - 1
      BY <2>1, BusyFinite, FS_RemoveElement
    <2>3. Owed' = Owed /\ Owed \in Nat
      BY <1>1 DEF TypeOK, Owed
    <2> QED BY <1>1, <1>2, <2>2, <2>3, BusyFinite DEF EventsOfChanges, TypeOK
  <1>7. LockHeld'
    BY <1>1, <1>4, SendersAssumption DEF LockHeld, TypeOK, Senders
  <1> QED BY <1>3, <1>5, <1>6, <1>7

\* A step of Run() that leaves the senders and the changes alone, and the channel
\* too or takes a stale event from it.
LEMMA WakeUpsStay ==
    ASSUME LoopInv, UNCHANGED sender,
           ch' = ch \/ (ch # <<>> /\ Stale(Head(ch)) /\ ch' = Tail(ch))
    PROVE  (WakeUpPending => WakeUpPending') /\ (RetryPending => RetryPending')
  <1> USE DEF LoopInv
  <1>1. CASE ch' = ch
    BY <1>1 DEF WakeUpPending, RetryPending, Stale, sender
  <1>2. CASE ch # <<>> /\ Stale(Head(ch)) /\ ch' = Tail(ch)
    <2>1. /\ \A i \in DOMAIN ch : i # 1 => i - 1 \in DOMAIN ch' /\ ch'[i - 1] = ch[i]
          /\ Head(ch) = ch[1]
      BY <1>2, ReceiveTakes DEF TypeOK
    <2> QED BY <1>2, <2>1 DEF WakeUpPending, RetryPending, Stale, sender
  <1> QED BY <1>1, <1>2

\* The events that a restart sends are fresh.
LEMMA RestoreLoop == ASSUME LoopInv, Restore PROVE LoopInv'
  <1> USE DEF LoopInv
  <1> DEFINE e == [change |-> changes - restored, stamp |-> "fresh"]
  <1>1. changes - restored \in Nat
    BY BusyFinite, LenProperties DEF Restore, EventsOfChanges, Owed, TypeOK
  <1>2. e \in Event /\ ~Stale(e)
    BY <1>1 DEF Event, Stamps, Stale
  <1>3. Send(e)
    BY DEF Restore
  <1> HIDE DEF e
  <1>4. /\ ch' \in Seq(Event) /\ Len(ch') = Len(ch) + 1 /\ Len(ch') <= Capacity
        /\ Len(ch) \in Nat /\ ~Stale(ch'[Len(ch) + 1]) /\ Len(ch) + 1 \in DOMAIN ch'
    BY <1>2, <1>3, SendAdds, CapacityAssumption DEF TypeOK
  <1>5. /\ runPc = "restoring"
        /\ UNCHANGED <<lock, pc, hand, changes, gap, blocked, planned, failures>>
        /\ \/ restored > 0 /\ restored' = restored - 1 /\ runPc' = runPc
           \/ ~(restored > 0) /\ runPc' = "select" /\ restored' = restored
    BY DEF Restore, sender
  <1>6. TypeOK'
    BY <1>4, <1>5 DEF TypeOK, RunStates
  <1>7. NoneLost'
    BY <1>4, <1>5 DEF NoneLost, LostOnlyInGap, WakeUpPending
  <1>8. EventsOfChanges'
    BY <1>4, <1>5, SameBusy, BusyFinite DEF EventsOfChanges, Owed, TypeOK
  <1>9. LockHeld'
    BY <1>5 DEF LockHeld
  <1> QED BY <1>6, <1>7, <1>8, <1>9

\* A stale event is not what a change waits for; a taken one is owed from then on.
LEMMA ReceiveLoop == ASSUME LoopInv, Ignore \/ Take PROVE LoopInv'
  <1> USE DEF LoopInv
  <1>1. /\ runPc = "select" /\ ch # <<>> /\ ch' = Tail(ch)
        /\ UNCHANGED <<lock, sender, blocked, restored, planned, failures>>
        /\ \/ Stale(Head(ch)) /\ runPc' = runPc
           \/ runPc' = "limited"
    BY DEF Ignore, Take
  <1>2. ch' \in Seq(Event) /\ Len(ch') = Len(ch) - 1 /\ Len(ch) \in Nat \ {0}
    BY <1>1, ReceiveTakes DEF TypeOK
  <1>3. TypeOK'
    BY <1>1, <1>2, CapacityAssumption DEF TypeOK, RunStates, sender
  <1>4. NoneLost'
    BY <1>1, WakeUpsStay DEF NoneLost, LostOnlyInGap, sender
  <1>5. EventsOfChanges'
    BY <1>1, <1>2, SameBusy, BusyFinite DEF EventsOfChanges, Owed, TypeOK, sender
  <1>6. LockHeld'
    BY <1>1 DEF LockHeld, sender
  <1> QED BY <1>3, <1>4, <1>5, <1>6

\* Time, and the steps around an allocation, leave the channel and the senders alone.
LEMMA AllocationLoop ==
    ASSUME LoopInv, RateLimitPasses \/ WakeUp \/ Allocate \/ AllocationFails \/ Unlock \/ Place
    PROVE  LoopInv'
  <1> USE DEF LoopInv
  <1>1. UNCHANGED <<ch, sender, restored>>
    BY DEF RateLimitPasses, WakeUp, Allocate, AllocationFails, Unlock, Place
  <1>2. TypeOK'
    <2>1. /\ lock' \in Senders \cup {"Run", "free"} /\ runPc' \in RunStates /\ blocked' \in BOOLEAN
          /\ planned' \in Nat /\ failures' \in Nat
      <3>1. CASE RateLimitPasses \/ WakeUp
        BY <3>1 DEF TypeOK, RunStates, RateLimitPasses, WakeUp
      <3>2. CASE Allocate
        BY <3>2 DEF TypeOK, RunStates, Allocate
      <3>3. CASE AllocationFails
        BY <3>3 DEF TypeOK, RunStates, AllocationFails
      <3>4. CASE Unlock \/ Place
        BY <3>4 DEF TypeOK, RunStates, Unlock, Place, Release
      <3> QED BY <3>1, <3>2, <3>3, <3>4
    <2> QED BY <1>1, <2>1 DEF TypeOK, sender
  <1>3. (WakeUpPending => WakeUpPending') /\ (RetryPending => RetryPending')
    BY <1>1, WakeUpsStay
  <1>4. NoneLost'
    BY <1>1, <1>3 DEF NoneLost, LostOnlyInGap, TypeOK, sender, RateLimitPasses, WakeUp, Allocate,
                      AllocationFails, Unlock, Place
  <1>5. EventsOfChanges'
    <2>1. Owed' <= Owed /\ Owed \in Nat /\ Owed' \in Nat
      BY <1>1 DEF Owed, TypeOK, RateLimitPasses, WakeUp, Allocate, AllocationFails, Unlock, Place
    <2>2. Cardinality(Busy)' = Cardinality(Busy) /\ Len(ch) \in Nat
      BY <1>1, SameBusy, LenProperties DEF sender, TypeOK
    <2> QED BY <1>1, <2>1, <2>2, BusyFinite DEF EventsOfChanges, sender, TypeOK
  <1>6. LockHeld'
    BY <1>1, SendersAssumption
    DEF LockHeld, sender, Senders, TypeOK, RateLimitPasses, WakeUp, Allocate, AllocationFails,
        Unlock, Place, Release
  <1> QED BY <1>2, <1>4, <1>5, <1>6

\* A retry replaces the event that was taken.
LEMMA RetryLoop == ASSUME LoopInv, SendRetry PROVE LoopInv'
  <1> USE DEF LoopInv
  <1> DEFINE e == [change |-> changes, stamp |-> "future"]
  <1>1. e \in Event /\ e.stamp = "future" /\ Send(e)
    BY DEF Event, Stamps, TypeOK, SendRetry
  <1> HIDE DEF e
  <1>2. /\ ch' \in Seq(Event) /\ Len(ch') = Len(ch) + 1 /\ Len(ch') <= Capacity
        /\ Len(ch) \in Nat /\ ch'[Len(ch) + 1].stamp = "future" /\ Len(ch) + 1 \in DOMAIN ch'
    BY <1>1, SendAdds, CapacityAssumption DEF TypeOK
  <1>3. /\ runPc = "retry" /\ runPc' = "failed"
        /\ UNCHANGED <<lock, pc, hand, changes, gap, blocked, restored, planned, failures>>
    BY DEF SendRetry, sender
  <1>4. TypeOK'
    BY <1>2, <1>3 DEF TypeOK, RunStates
  <1>5. NoneLost'
    BY <1>2, <1>3 DEF NoneLost, LostOnlyInGap, RetryPending
  <1>6. EventsOfChanges'
    BY <1>2, <1>3, SameBusy, BusyFinite DEF EventsOfChanges, Owed, TypeOK
  <1>7. LockHeld'
    BY <1>3 DEF LockHeld
  <1> QED BY <1>4, <1>5, <1>6, <1>7

\* When events become stale, a retry that was just sent does not, and after an
\* allocation only changes of the gap are behind them.
LEMMA StaleLoop == ASSUME LoopInv, SetLastResched PROVE LoopInv'
  <1> USE DEF LoopInv
  <1>1. PICK retry \in {"future", "stale"} :
            /\ ch' = [i \in DOMAIN ch |-> Aged(ch[i], retry)]
            /\ runPc = "failed" => retry = "future"
    BY DEF SetLastResched
  <1>2. /\ runPc \in {"placed", "failed"} /\ runPc' = "select" /\ blocked' = TRUE
        /\ hand' = [s \in Senders |-> Aged(hand[s], "future")]
        /\ UNCHANGED <<lock, pc, changes, gap, restored, planned, failures>>
    BY DEF SetLastResched
  <1>3. ASSUME NEW e \in Event, NEW r \in {"future", "stale"}
        PROVE  Aged(e, r) \in Event /\ (e.stamp = "future" => Aged(e, r).stamp = r)
    BY DEF Aged, Event, Stamps
  <1>4. /\ ch' \in Seq(Event) /\ Len(ch') = Len(ch) /\ Len(ch) \in Nat
        /\ DOMAIN ch' = DOMAIN ch
    <2>1. Len(ch) \in Nat /\ DOMAIN ch = 1..Len(ch) /\ \A i \in 1..Len(ch) : ch[i] \in Event
      BY LenProperties, ElementOfSeq DEF TypeOK
    <2>2. ch' = [i \in 1..Len(ch) |-> Aged(ch[i], retry)]
      BY <1>1, <2>1
    <2>3. \A i \in 1..Len(ch) : Aged(ch[i], retry) \in Event
      BY <1>3, <2>1
    <2>4. ch' \in Seq(Event)
      BY <2>1, <2>2, <2>3, IsASeq
    <2> QED BY <2>1, <2>2, <2>4, LenProperties
  <1>5. TypeOK'
    <2>1. hand' \in [Senders -> Event]
      BY <1>2, <1>3 DEF TypeOK
    <2> QED BY <1>2, <1>4, <2>1 DEF TypeOK, RunStates
  <1>6. NoneLost'
    <2>1. CASE runPc = "failed"
      <3>1. PICK i \in DOMAIN ch : ch[i].stamp = "future"
        BY <2>1 DEF NoneLost, RetryPending
      <3>2. ch[i] \in Event
        BY ElementOfSeq, LenProperties DEF TypeOK
      <3>3. i \in DOMAIN ch' /\ ch'[i].stamp = "future"
        BY <1>1, <1>3, <1>4, <2>1, <3>1, <3>2
      <3> QED BY <1>2, <3>3 DEF NoneLost, LostOnlyInGap, WakeUpPending, Stale
    <2>2. CASE runPc = "placed"
      <3>1. (planned+1)..changes \subseteq gap \/ \E s \in Senders : pc[s] = "changed"
        BY <2>2 DEF NoneLost
      <3> QED BY <1>2, <3>1 DEF NoneLost, LostOnlyInGap, WakeUpPending
    <2> QED BY <1>2, <2>1, <2>2
  <1>7. EventsOfChanges'
    BY <1>2, <1>4, SameBusy, BusyFinite DEF EventsOfChanges, Owed, TypeOK
  <1>8. LockHeld'
    BY <1>2 DEF LockHeld
  <1> QED BY <1>5, <1>6, <1>7, <1>8

\* Every step preserves LoopInv.
LEMMA NextLoop == ASSUME LoopInv, [Next]_vars PROVE LoopInv'
  <1>1. CASE UNCHANGED vars
    <2>1. Busy' = Busy /\ Owed' = Owed
      BY <1>1 DEF vars, Busy, Owed
    <2>2. (WakeUpPending <=> WakeUpPending') /\ (RetryPending <=> RetryPending')
      BY <1>1 DEF vars, WakeUpPending, RetryPending, Stale
    <2> QED BY <1>1, <2>1, <2>2
            DEF vars, LoopInv, TypeOK, NoneLost, LostOnlyInGap, EventsOfChanges, LockHeld
  <1> QED BY <1>1, ChangeLoop, StampLoop, SendEventLoop, RestoreLoop, ReceiveLoop, AllocationLoop,
             RetryLoop, StaleLoop DEF Next, SenderStep, RunStep

(***************************************************************************)
(* The theorems.                                                           *)
(***************************************************************************)

\* LoopInv holds in every state.
LEMMA LoopAlways == Spec => []LoopInv
  <1>1. Init => LoopInv
    BY InitLoop
  <1>2. LoopInv /\ [Next]_vars => LoopInv'
    BY NextLoop
  <1> QED BY <1>1, <1>2, PTL DEF Spec

\* Whenever Run() waits for an event, every change that no allocation has seen will
\* wake it up, unless it was stamped in the gap before lastResched was set.
THEOREM WakeUpsAreKept == Spec => []LostOnlyInGap
  <1>1. LoopInv => LostOnlyInGap
    BY DEF LoopInv, NoneLost
  <1> QED BY <1>1, LoopAlways, PTL

\* Nobody waits for room in the channel that only a waiting Run() could make, before
\* there have been more changes than the channel can hold.
THEOREM NobodyIsLockedIn == Spec => []NoCircularWait
  <1>1. ASSUME LoopInv, changes <= Capacity, CircularWait PROVE FALSE
    <2>1. Len(ch) = Capacity /\ Len(ch) \in Nat /\ changes \in Nat /\ restored \in Nat
      BY <1>1, CapacityAssumption DEF LoopInv, TypeOK, CircularWait
    <2>2. Cardinality(Busy) + Owed > 0
      <3>1. CASE runPc \in {"restoring", "retry"}
        BY <2>1, <3>1, BusyFinite DEF Owed
      <3>2. CASE \E s \in Handlers : pc[s] = "sending"
        <4>1. Busy # {}
          BY <3>2 DEF Busy, Senders
        <4>2. Cardinality(Busy) > 0
          BY <4>1, BusyFinite, FS_EmptySet
        <4> QED BY <2>1, <4>2, BusyFinite DEF Owed
      <3> QED BY <1>1, <3>1, <3>2 DEF CircularWait
    <2> QED BY <1>1, <2>1, <2>2, BusyFinite DEF LoopInv, EventsOfChanges, Owed
  <1>2. LoopInv => NoCircularWait
    BY <1>1 DEF NoCircularWait
  <1> QED BY <1>2, LoopAlways, PTL
=============================================================================
