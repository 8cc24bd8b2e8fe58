------------------------ MODULE TrainingServiceProofs ------------------------
(***************************************************************************)
(* Requests to the training service, however many there are at the same    *)
(* time: what its users have been told of their jobs remains true.         *)
(***************************************************************************)
EXTENDS TrainingService, SequenceTheorems, TLAPS

(***************************************************************************)
(* The inductive invariant.                                                *)
(***************************************************************************)

HasName(r) == creations[r].name.reading # <<>>

\* A job has its name from the record on that the request inserts for it.
NamesInTime ==
    \A r \in Creations :
        /\ creations[r].step \in {"insertMetadata", "publish", "removeInfo", "removeMetadata", "created"}
              => HasName(r)
        /\ creations[r].step \in {"idle", "find", "insertBase", "insertInfo"} => ~HasName(r)

\* Documents are those of the requests that have inserted them.
OwnDocuments ==
    \A document \in documents \cup held \cup accepted :
        /\ HasName(document.by)
        /\ document.name = creations[document.by].name
        /\ document.GpuType = creations[document.by].GpuType
        /\ creations[document.by].step \in {"publish", "removeInfo", "removeMetadata", "created", "refused"}

\* What is asked and said about a job is about one whose user knows its name.
Known ==
    /\ \A d \in Deletions : deletions[d].step # "idle" =>
          \E r \in Creations : At(r, "created") /\ deletions[d].name = creations[r].name
    /\ \A type \in GpuTypes : \A m \in Range(queues[type]) :
          /\ m.verb = "create" =>
                \E r \in Creations : At(r, "created") /\ m.name = creations[r].name
          /\ m.verb = "delete" =>
                \E d \in Deletions : deletions[d].step = "deleted" /\ m.name = deletions[d].name

NoDocument(r) == \A document \in documents : document.by # r

\* CreatedIsServed from the first record of the job on.
Served(r) ==
    DeletionOf(r) = {} =>
        /\ creations[r].step \in {"insertMetadata", "publish", "created"} => Named(infos, creations[r].name) # {}
        /\ creations[r].step \in {"publish", "created"} => ~NoDocument(r)
        /\ At(r, "created") => HeldBy(r) \/ Pending(r, "create") \/ Lost(r, "create")

\* A scheduler has taken the job up.
Taken(r) == HeldBy(r) \/ \E document \in accepted : document.by = r

\* RefusedLeavesNothing: what a scheduler has taken up was announced to it.
Refused(r) ==
    /\ Taken(r) => At(r, "created")
    /\ At(r, "refused") /\ r \notin leftovers => NoDocument(r)

\* DeletedIsDropped from the removal of the document on.
Dropped(r) ==
    \A d \in DeletionOf(r) :
        /\ deletions[d].step \in {"remove", "publish", "deleted"} => deletions[d].GpuType = creations[r].GpuType
        /\ deletions[d].step \in {"publish", "deleted"} => NoDocument(r)
        /\ deletions[d].step = "deleted" => (HeldBy(r) => Pending(r, "delete") \/ Lost(r, "delete"))

Promises(r) == Served(r) /\ Refused(r) /\ Dropped(r)

ServiceInv ==
    /\ TypeOK /\ NamesInTime /\ OwnDocuments /\ Known
    /\ \A r \in Creations : ~Shared(r) => Promises(r)

(***************************************************************************)
(* Sequences and sets of records.                                          *)
(***************************************************************************)

\* Appending keeps what is there and adds one element.
LEMMA RangeAppend ==
    ASSUME NEW S, NEW s \in Seq(S), NEW e \in S
    PROVE  Append(s, e) \in Seq(S) /\ Range(Append(s, e)) = Range(s) \cup {e}
  <1>1. /\ Append(s, e) \in Seq(S) /\ Len(Append(s, e)) = Len(s) + 1
        /\ \A i \in 1..Len(s) : Append(s, e)[i] = s[i]
        /\ Append(s, e)[Len(s) + 1] = e
    BY AppendProperties
  <1>2. Range(s) \cup {e} \subseteq Range(Append(s, e))
    BY <1>1, LenProperties DEF Range
  <1>3. Range(Append(s, e)) \subseteq Range(s) \cup {e}
    BY <1>1, LenProperties DEF Range
  <1> QED BY <1>1, <1>2, <1>3

\* A sequence is its head and its tail.
LEMMA RangeHeadTail ==
    ASSUME NEW S, NEW s \in Seq(S), s # <<>>
    PROVE  /\ Tail(s) \in Seq(S) /\ Head(s) \in S
           /\ Range(s) = {Head(s)} \cup Range(Tail(s))
  <1>1. /\ Tail(s) \in Seq(S) /\ Len(Tail(s)) = Len(s) - 1 /\ Head(s) \in S
        /\ \A i \in 1..Len(Tail(s)) : Tail(s)[i] = s[i + 1]
        /\ Head(s) = s[1] /\ Len(s) \in Nat \ {0}
    BY HeadTailProperties, EmptySeq
  <1>2. {Head(s)} \cup Range(Tail(s)) \subseteq Range(s)
    BY <1>1, LenProperties DEF Range
  <1>3. ASSUME NEW i \in 1..Len(s), i # 1 PROVE s[i] \in Range(Tail(s))
    <2>1. i - 1 \in 1..Len(Tail(s)) /\ (i - 1) + 1 = i
      BY <1>1, <1>3
    <2>2. Tail(s)[i - 1] = s[i]
      BY <1>1, <2>1
    <2> QED BY <1>1, <2>1, <2>2, LenProperties DEF Range
  <1> QED BY <1>1, <1>2, <1>3, LenProperties DEF Range

\* A sequence is what comes up to a place in it and what follows.
LEMMA RangeSplit ==
    ASSUME NEW S, NEW s \in Seq(S), NEW n \in 0..Len(s)
    PROVE  /\ SubSeq(s, n + 1, Len(s)) \in Seq(S)
           /\ Range(s) = Range(SubSeq(s, 1, n)) \cup Range(SubSeq(s, n + 1, Len(s)))
  <1>1. Len(s) \in Nat /\ \A i \in 1..Len(s) : s[i] \in S
    BY LenProperties, ElementOfSeq
  <1>2. /\ SubSeq(s, 1, n) \in Seq(S) /\ Len(SubSeq(s, 1, n)) = n
        /\ \A i \in 1..n : SubSeq(s, 1, n)[i] = s[i]
    BY <1>1, SubSeqProperties
  <1>3. /\ SubSeq(s, n + 1, Len(s)) \in Seq(S) /\ Len(SubSeq(s, n + 1, Len(s))) = Len(s) - n
        /\ \A i \in 1..(Len(s) - n) : SubSeq(s, n + 1, Len(s))[i] = s[n + i]
    BY <1>1, SubSeqProperties
  <1>4. Range(SubSeq(s, 1, n)) \subseteq Range(s) /\ Range(SubSeq(s, n + 1, Len(s))) \subseteq Range(s)
    BY <1>1, <1>2, <1>3, LenProperties DEF Range
  <1>5. ASSUME NEW i \in 1..Len(s)
        PROVE  s[i] \in Range(SubSeq(s, 1, n)) \cup Range(SubSeq(s, n + 1, Len(s)))
    <2>1. CASE i <= n
      <3>1. i \in 1..n /\ SubSeq(s, 1, n)[i] = s[i]
        BY <1>1, <1>2, <2>1
      <3> QED BY <1>2, <3>1, LenProperties DEF Range
    <2>2. CASE i > n
      <3>1. i - n \in 1..(Len(s) - n) /\ n + (i - n) = i
        BY <1>1, <2>2
      <3>2. SubSeq(s, n + 1, Len(s))[i - n] = s[i]
        BY <1>3, <3>1
      <3> QED BY <1>1, <1>3, <3>1, <3>2, LenProperties DEF Range
    <2> QED BY <1>1, <2>1, <2>2
  <1> QED BY <1>3, <1>4, <1>5, LenProperties DEF Range

\* Removing one record leaves a part of the others, and all that have another name.
LEMMA RemoveOneRemoves ==
    ASSUME NEW records, NEW rest, NEW name, RemoveOne(records, rest, name)
    PROVE  /\ rest \subseteq records
           /\ \A record \in records : record.name # name => record \in rest
           /\ \A record \in records :
                 (\A other \in records : other.name = name => other = record) /\ record.name = name
                     => record \notin rest
  BY DEF RemoveOne, Named

(***************************************************************************)
(* Type correctness.                                                       *)
(***************************************************************************)

Creation == [step : CreationSteps, name : Name, GpuType : GpuTypes]
Deletion == [step : DeletionSteps, name : Name, GpuType : GpuTypes]

\* The name of a category is a name, without a reading.
LEMMA BaseNameType ==
    ASSUME NEW category \in Categories
    PROVE  BaseName(category) \in Name /\ BaseName(category).reading = <<>>
  BY DEF BaseName, Name

LEMMA AnyTypes == AnyName \in Name /\ AnyName.reading = <<>> /\ AnyType \in GpuTypes
  <1>1. (CHOOSE category \in Categories : TRUE) \in Categories
    BY NamesAssumption
  <1> QED BY <1>1, NamesAssumption, BaseNameType DEF AnyName, AnyType

\* A time is formatted as a date and a reading of the clock.
LEMMA FormatType ==
    ASSUME NEW time \in Nat
    PROVE  Format(time) \in Seq(Nat) /\ Format(time) # <<>>
  <1>1. 2 * HalfDay \in Nat \ {0} /\ HalfDay \in Nat \ {0}
    BY TimeAssumption
  <1>2. time \div (2 * HalfDay) \in Nat /\ time % HalfDay \in Nat
    BY <1>1
  <1> QED BY <1>2 DEF Format

\* The types hold initially.
LEMMA InitType == ASSUME Init PROVE TypeOK
  <1>1. [step |-> "idle", name |-> AnyName, GpuType |-> AnyType] \in Creation \cap Deletion
    BY AnyTypes DEF Creation, Deletion, CreationSteps, DeletionSteps
  <1>2. <<>> \in Seq(Message)
    BY EmptySeq
  <1> QED BY <1>1, <1>2 DEF Init, TypeOK, Creation, Deletion

\* A step of a creation leaves its job and the other creations alone.
LEMMA GotoType ==
    ASSUME TypeOK, NEW r \in Creations, NEW step \in CreationSteps, Goto(r, step)
    PROVE  /\ creations' \in [Creations -> Creation]
           /\ creations'[r].step = step /\ creations'[r].name = creations[r].name
           /\ creations'[r].GpuType = creations[r].GpuType
           /\ \A q \in Creations \ {r} : creations'[q] = creations[q]
  <1>1. creations \in [Creations -> Creation]
    BY DEF TypeOK, Creation
  <1> QED BY <1>1 DEF Goto, Creation

\* A message goes to the end of one queue, or is lost.
LEMMA PublishType ==
    ASSUME TypeOK, NEW type \in GpuTypes, NEW verb \in {"create", "delete"}, NEW name \in Name,
           Publish(type, verb, name)
    PROVE  /\ queues' \in [GpuTypes -> Seq(Message)] /\ lost' \in [GpuTypes -> SUBSET Message]
           /\ failures' \in Nat
           /\ \A t \in GpuTypes \ {type} : queues'[t] = queues[t] /\ lost'[t] = lost[t]
           /\ \/ /\ Range(queues'[type]) = Range(queues[type]) \cup {[verb |-> verb, name |-> name]}
                 /\ lost'[type] = lost[type]
              \/ /\ lost'[type] = lost[type] \cup {[verb |-> verb, name |-> name]}
                 /\ queues'[type] = queues[type]
  <1>1. /\ queues \in [GpuTypes -> Seq(Message)] /\ queues[type] \in Seq(Message)
        /\ lost \in [GpuTypes -> SUBSET Message]
    BY DEF TypeOK
  <1>2. PICK m \in Message : m = [verb |-> verb, name |-> name]
    BY DEF Message
  <1>3. \/ /\ queues' = [queues EXCEPT ![type] = Append(queues[type], m)]
           /\ UNCHANGED <<lost, failures>>
        \/ /\ lost' = [lost EXCEPT ![type] = lost[type] \cup {m}]
           /\ failures' = failures + 1 /\ UNCHANGED queues
    BY <1>2 DEF Publish, Lose, Succeeds, Fails
  <1>4. /\ Append(queues[type], m) \in Seq(Message)
        /\ Range(Append(queues[type], m)) = Range(queues[type]) \cup {m}
    BY <1>1, <1>2, RangeAppend
  <1>5. failures' \in Nat
    BY <1>3 DEF TypeOK
  <1> QED BY ONLY <1>1, <1>2, <1>3, <1>4, <1>5

(***************************************************************************)
(* Names and documents.                                                    *)
(***************************************************************************)

\* A job that shares its name goes on to do so.
LEMMA SharedForGood ==
    ASSUME NEW r \in Creations, Shared(r),
           \A q \in Creations : HasName(q) => creations'[q].name = creations[q].name
    PROVE  Shared(r)'
  BY DEF Shared, HasName

\* Two jobs of the same name are one, or share it.
LEMMA Alone ==
    ASSUME NEW r \in Creations, ~Shared(r), NEW q \in Creations, HasName(q),
           creations[q].name = creations[r].name
    PROVE  q = r
  BY DEF Shared, HasName

\* A job has one document, and is the only one with a document of its name.
LEMMA OnlyDocument ==
    ASSUME TypeOK, OwnDocuments, NEW r \in Creations, ~Shared(r), NEW document \in documents \cup held \cup accepted,
           document.by = r \/ document.name = creations[r].name
    PROVE  document = [name |-> creations[r].name, GpuType |-> creations[r].GpuType, by |-> r]
  <1>1. document \in Document
    BY DEF TypeOK
  <1>2. document.by = r
    BY <1>1, Alone DEF OwnDocuments, Document
  <1> QED BY <1>1, <1>2 DEF OwnDocuments, Document

\* Nobody deletes a job before it is created.
LEMMA NotDeletedYet ==
    ASSUME Known, NamesInTime, NEW r \in Creations, ~Shared(r), ~At(r, "created")
    PROVE  DeletionOf(r) = {}
  <1> SUFFICES ASSUME NEW d \in DeletionOf(r) PROVE FALSE
    OBVIOUS
  <1>1. PICK q \in Creations : At(q, "created") /\ creations[q].name = creations[r].name
    BY DEF DeletionOf, Known
  <1> QED BY <1>1, Alone DEF NamesInTime, At

\* Whose job is left alone keeps what it was promised, when messages come in.
LEMMA SamePromises ==
    ASSUME NEW r \in Creations, Promises(r), creations'[r] = creations[r], creations[r].GpuType \in GpuTypes,
           UNCHANGED <<deletions, schedulers>>, leftovers \subseteq leftovers',
           Named(infos, creations[r].name) \subseteq infos', NoDocument(r)' <=> NoDocument(r),
           \A type \in GpuTypes : Range(queues[type]) \subseteq Range(queues'[type]) /\ lost[type] \subseteq lost'[type]
    PROVE  Promises(r)'
  <1>1. /\ DeletionOf(r)' = DeletionOf(r) /\ (HeldBy(r)' <=> HeldBy(r)) /\ (Taken(r)' <=> Taken(r))
        /\ \A step : At(r, step)' <=> At(r, step)
    BY DEF DeletionOf, HeldBy, Taken, At, schedulers
  <1>2. \A verb : Pending(r, verb) \/ Lost(r, verb) => Pending(r, verb)' \/ Lost(r, verb)'
    BY DEF Pending, Lost
  <1>3. Named(infos, creations[r].name) # {} => Named(infos', creations'[r].name) # {}
    BY DEF Named
  <1>4. Served(r)'
    BY <1>1, <1>2, <1>3 DEF Promises, Served
  <1>5. Refused(r)'
    BY <1>1 DEF Promises, Refused
  <1>6. Dropped(r)'
    BY <1>1, <1>2 DEF Promises, Dropped
  <1> QED BY <1>4, <1>5, <1>6 DEF Promises

\* What is asked and said remains so while creations go on.
LEMMA SameKnown ==
    ASSUME Known, UNCHANGED <<deletions, queues>>,
           \A r \in Creations : At(r, "created") => At(r, "created")' /\ creations'[r].name = creations[r].name
    PROVE  Known'
  <1>1. \A d \in Deletions : deletions'[d].step # "idle" =>
            \E r \in Creations : At(r, "created")' /\ deletions'[d].name = creations'[r].name
    BY DEF Known
  <1>2. ASSUME NEW type \in GpuTypes, NEW m \in Range(queues'[type])
        PROVE  /\ m.verb = "create" => \E r \in Creations : At(r, "created")' /\ m.name = creations'[r].name
               /\ m.verb = "delete" => \E d \in Deletions : deletions'[d].step = "deleted" /\ m.name = deletions'[d].name
    BY <1>2 DEF Known
  <1> QED BY <1>1, <1>2 DEF Known

(***************************************************************************)
(* CreateTrainingJob.                                                      *)
(***************************************************************************)

Nameless == {"idle", "find", "insertBase", "insertInfo"}

\* Up to the record of the job nobody knows of it.
LEMMA EarlySteps ==
    ASSUME ServiceInv, NEW r \in Creations, creations[r].step \in Nameless,
           creations' \in [Creations -> Creation],
           \A q \in Creations \ {r} : creations'[q] = creations[q],
           \/ creations'[r].step \in Nameless \cup {"refused"} /\ ~HasName(r)'
           \/ /\ creations'[r].step = "insertMetadata" /\ HasName(r)'
              /\ Named(infos', creations'[r].name) # {},
           infos \subseteq infos', TypeOK',
           UNCHANGED <<deletions, documents, broker, schedulers, leftovers>>
    PROVE  ServiceInv'
  <1>1. ~HasName(r) /\ ~At(r, "created")
    BY DEF ServiceInv, NamesInTime, Nameless, At
  <1>2. NamesInTime'
    <2>1. ASSUME NEW q \in Creations \ {r}
          PROVE  creations'[q] = creations[q] /\ (HasName(q)' <=> HasName(q))
      BY DEF HasName
    <2> QED BY <2>1 DEF ServiceInv, NamesInTime, Nameless
  <1>3. \A document \in documents \cup held \cup accepted : document.by # r /\ document.by \in Creations
    BY <1>1 DEF ServiceInv, OwnDocuments, TypeOK, Document
  <1>4. OwnDocuments'
    <2>1. \A q \in Creations \ {r} : creations'[q] = creations[q] /\ (HasName(q)' <=> HasName(q))
      BY DEF HasName
    <2> QED BY <1>3, <2>1 DEF ServiceInv, OwnDocuments, schedulers
  <1>5. Known'
    <2>1. \A q \in Creations : At(q, "created") => At(q, "created")' /\ creations'[q].name = creations[q].name
      BY <1>1 DEF At
    <2> QED BY <2>1, SameKnown DEF ServiceInv, broker
  <1>6. ASSUME NEW q \in Creations, ~Shared(q)' PROVE Promises(q)'
    <2>1. CASE q # r
      <3>1. ~Shared(q)
        BY <1>1, <1>6, SharedForGood
      <3>2. creations'[q] = creations[q] /\ creations[q].GpuType \in GpuTypes
        BY <2>1 DEF ServiceInv, TypeOK
      <3> QED BY <3>1, <3>2, SamePromises DEF ServiceInv, Named, NoDocument, broker
    <2>2. CASE q = r
      <3>1. ~At(r, "created")'
        BY DEF At, Nameless
      <3>2. DeletionOf(r)' = {}
        <4>1. ASSUME NEW d \in DeletionOf(r)' PROVE FALSE
          <5>1. PICK p \in Creations : At(p, "created")' /\ creations'[p].name = creations'[r].name
            BY <1>5 DEF DeletionOf, Known
          <5>2. p # r /\ HasName(p)'
            BY <1>2, <3>1, <5>1 DEF NamesInTime, At
          <5> QED BY <1>6, <2>2, <5>1, <5>2 DEF Shared, HasName
        <4> QED BY <4>1
      <3>3. NoDocument(r)' /\ ~Taken(r)'
        BY <1>3 DEF NoDocument, HeldBy, Taken, schedulers
      <3>4. Served(r)'
        BY <3>1 DEF Served, At, Nameless
      <3> QED BY <2>2, <3>2, <3>3, <3>4 DEF Promises, Refused, Dropped
    <2> QED BY <2>1, <2>2
  <1> QED BY <1>2, <1>4, <1>5, <1>6 DEF ServiceInv

\* The user's request, and the base record of the category.
LEMMA BaseInfoSteps ==
    ASSUME ServiceInv, NEW r \in Creations,
           \/ \E category \in Categories, type \in GpuTypes : Receive(r, category, type)
           \/ FindBaseInfo(r) \/ InsertBaseInfo(r)
    PROVE  ServiceInv'
  <1>1. creations \in [Creations -> Creation]
    BY DEF ServiceInv, TypeOK, Creation
  <1>2. creations[r].step \in Nameless /\ ~HasName(r)
    BY DEF ServiceInv, NamesInTime, Nameless, Receive, FindBaseInfo, InsertBaseInfo, At
  <1>3. /\ creations' \in [Creations -> Creation]
        /\ creations'[r].step \in Nameless \cup {"refused"} /\ ~HasName(r)'
        /\ \A q \in Creations \ {r} : creations'[q] = creations[q]
    <2>1. CASE \E step \in Nameless \cup {"refused"} : Goto(r, step)
      <3>1. PICK step \in Nameless \cup {"refused"} : Goto(r, step)
        BY <2>1
      <3>2. step \in CreationSteps
        BY DEF Nameless, CreationSteps
      <3> QED BY <1>2, <3>1, <3>2, GotoType DEF ServiceInv, HasName
    <2>2. CASE \E category \in Categories, type \in GpuTypes : Receive(r, category, type)
      <3>1. PICK category \in Categories, type \in GpuTypes : Receive(r, category, type)
        BY <2>2
      <3>2. [step |-> "find", name |-> BaseName(category), GpuType |-> type] \in Creation
        BY BaseNameType DEF Creation, CreationSteps
      <3> QED BY <1>1, <3>1, <3>2, BaseNameType DEF Receive, HasName, Nameless
    <2> QED BY <2>1, <2>2 DEF FindBaseInfo, InsertBaseInfo, Nameless
  <1>4. infos \subseteq infos' /\ infos' \subseteq Info
    <2>1. [name |-> creations[r].name, by |-> r] \in Info
      BY <1>1 DEF Info, Creation
    <2> QED BY <2>1 DEF Receive, FindBaseInfo, InsertBaseInfo, ServiceInv, TypeOK
  <1>5. /\ UNCHANGED <<now, deletions, documents, broker, schedulers, leftovers>>
        /\ failures' \in Nat
    BY DEF Receive, FindBaseInfo, InsertBaseInfo, Succeeds, Fails, ServiceInv, TypeOK
  <1>6. TypeOK'
    BY <1>3, <1>4, <1>5 DEF ServiceInv, TypeOK, Creation, broker, schedulers
  <1> QED BY <1>2, <1>3, <1>4, <1>5, <1>6, EarlySteps

\* The job gets its name and its record, or is not valid.
LEMMA InsertJobInfoStep == ASSUME ServiceInv, NEW r \in Creations, InsertJobInfo(r) PROVE ServiceInv'
  <1> DEFINE name == [creations[r].name EXCEPT !.reading = Format(now)]
  <1>1. /\ creations \in [Creations -> Creation] /\ creations[r] \in Creation /\ now \in Nat
        /\ creations[r].step = "insertInfo" /\ ~HasName(r)
    BY DEF ServiceInv, TypeOK, Creation, InsertJobInfo, At, NamesInTime
  <1>2. /\ UNCHANGED <<now, deletions, documents, broker, schedulers, leftovers>>
        /\ failures' \in Nat
    BY DEF InsertJobInfo, Succeeds, Fails, ServiceInv, TypeOK
  <1>3. CASE Goto(r, "refused") /\ infos' \in {infos, infos \cup {[name |-> name, by |-> r]}}
    <2>1. /\ creations' \in [Creations -> Creation] /\ creations'[r].step = "refused" /\ ~HasName(r)'
          /\ \A q \in Creations \ {r} : creations'[q] = creations[q]
      BY <1>1, <1>3, GotoType DEF ServiceInv, HasName, CreationSteps
    <2>2. infos \subseteq infos' /\ infos' \subseteq Info
      <3>1. name \in Name
        BY <1>1, FormatType DEF Name, Creation
      <3> HIDE DEF name
      <3> QED BY <1>3, <3>1 DEF Info, ServiceInv, TypeOK
    <2>3. TypeOK'
      BY <1>2, <2>1, <2>2 DEF ServiceInv, TypeOK, Creation, broker, schedulers
    <2> QED BY <1>1, <1>2, <2>1, <2>2, <2>3, EarlySteps DEF Nameless
  <1>4. CASE /\ creations' = [creations EXCEPT ![r].name = name, ![r].step = "insertMetadata"]
             /\ infos' = infos \cup {[name |-> name, by |-> r]}
    <2>1. name \in Name /\ name.reading # <<>>
      BY <1>1, FormatType DEF Name, Creation
    <2> HIDE DEF name
    <2>2. /\ creations' \in [Creations -> Creation]
          /\ creations'[r].step = "insertMetadata" /\ creations'[r].name = name
          /\ \A q \in Creations \ {r} : creations'[q] = creations[q]
      BY <1>1, <1>4, <2>1 DEF Creation, CreationSteps
    <2>3. HasName(r)' /\ Named(infos', creations'[r].name) # {}
      <3>1. [name |-> name, by |-> r] \in Named(infos', creations'[r].name)
        BY <1>4, <2>2 DEF Named
      <3>2. HasName(r)'
        BY <2>1, <2>2 DEF HasName
      <3> QED BY <3>1, <3>2
    <2>4. infos \subseteq infos' /\ infos' \subseteq Info
      BY <1>4, <2>1 DEF Info, ServiceInv, TypeOK
    <2>5. TypeOK'
      BY <1>2, <2>2, <2>4 DEF ServiceInv, TypeOK, Creation, broker, schedulers
    <2> QED BY <1>1, <1>2, <2>2, <2>3, <2>4, <2>5, EarlySteps DEF Nameless
  <1> QED BY <1>3, <1>4 DEF InsertJobInfo

\* What a later step of a creation may do to the others: nothing, if they do not
\* share its name.
LEMMA LateSteps ==
    ASSUME ServiceInv, NEW r \in Creations, HasName(r), ~At(r, "created"), TypeOK',
           NEW step, creations'[r].step = step, step \in {"publish", "removeInfo", "removeMetadata", "created", "refused"},
           creations'[r].name = creations[r].name, creations'[r].GpuType = creations[r].GpuType,
           \A q \in Creations \ {r} : creations'[q] = creations[q],
           UNCHANGED <<deletions, schedulers>>, leftovers \subseteq leftovers',
           \A info \in infos : info.name # creations[r].name => info \in infos',
           \A document \in documents' : document \in documents \/ document = 
               [name |-> creations[r].name, GpuType |-> creations[r].GpuType, by |-> r],
           \A document \in documents : document.name # creations[r].name => document \in documents',
           \A type \in GpuTypes : Range(queues[type]) \subseteq Range(queues'[type]) /\ lost[type] \subseteq lost'[type],
           ~Shared(r) /\ DeletionOf(r) = {} => Promises(r)', Known'
    PROVE  ServiceInv'
  <1>1. NamesInTime'
    <2>1. \A q \in Creations \ {r} : creations'[q] = creations[q] /\ (HasName(q)' <=> HasName(q))
      BY DEF HasName
    <2>2. HasName(r)'
      BY DEF HasName
    <2> QED BY <2>1, <2>2 DEF ServiceInv, NamesInTime
  <1>2. \A q \in Creations : HasName(q) => HasName(q)'
    BY DEF HasName
  <1>3. OwnDocuments'
    <2>1. ASSUME NEW document \in documents \cup held \cup accepted
          PROVE  /\ document.by \in Creations
                 /\ HasName(document.by)' /\ document.name = creations'[document.by].name
                 /\ document.GpuType = creations'[document.by].GpuType
                 /\ creations'[document.by].step \in {"publish", "removeInfo", "removeMetadata", "created", "refused"}
      <3>1. document.by \in Creations
        BY DEF ServiceInv, TypeOK, Document
      <3> QED BY <1>2, <3>1 DEF ServiceInv, OwnDocuments
    <2>2. ASSUME NEW document \in documents' \cup held' \cup accepted'
          PROVE  \/ document \in documents \cup held \cup accepted
                 \/ document = [name |-> creations[r].name, GpuType |-> creations[r].GpuType, by |-> r]
      BY <2>2 DEF schedulers
    <2> QED BY <1>2, <2>1, <2>2 DEF OwnDocuments
  <1>4. ASSUME NEW q \in Creations, ~Shared(q)' PROVE Promises(q)'
    <2>1. ~Shared(q)
      BY <1>4, SharedForGood
    <2>2. CASE q = r
      <3>1. DeletionOf(r) = {}
        BY <2>1, <2>2, NotDeletedYet DEF ServiceInv
      <3> QED BY <2>1, <2>2, <3>1
    <2>3. CASE q # r
      <3>1. creations[q].name # creations[r].name
        BY <2>1, <2>3, Alone
      <3>2. NoDocument(q)' <=> NoDocument(q)
        <4>1. \A document \in documents : document.by = q => document \in documents'
          BY <3>1 DEF ServiceInv, OwnDocuments
        <4> QED BY <2>3, <4>1 DEF NoDocument
      <3>3. Named(infos, creations[q].name) \subseteq infos'
        BY <3>1 DEF Named
      <3>4. Promises(q) /\ creations'[q] = creations[q] /\ creations[q].GpuType \in GpuTypes
        BY <2>1, <2>3 DEF ServiceInv, TypeOK
      <3> QED BY <3>2, <3>3, <3>4, SamePromises
    <2> QED BY <2>2, <2>3
  <1> QED BY <1>1, <1>3, <1>4 DEF ServiceInv

\* The document is inserted, or the request ends with a record that nobody uses.
LEMMA InsertMetadataStep == ASSUME ServiceInv, NEW r \in Creations, InsertMetadata(r) PROVE ServiceInv'
  <1> DEFINE document == [name |-> creations[r].name, GpuType |-> creations[r].GpuType, by |-> r]
  <1>1. PICK step \in {"publish", "refused"} :
            /\ Goto(r, step)
            /\ \/ documents' = documents \cup {document} /\ (step = "publish" \/ r \in leftovers')
               \/ UNCHANGED documents /\ step = "refused"
    BY DEF InsertMetadata
  <1>2. /\ creations' \in [Creations -> Creation] /\ creations'[r].step = step
        /\ creations'[r].name = creations[r].name /\ creations'[r].GpuType = creations[r].GpuType
        /\ \A q \in Creations \ {r} : creations'[q] = creations[q]
    BY <1>1, GotoType DEF ServiceInv, CreationSteps
  <1>3. /\ UNCHANGED <<now, deletions, infos, broker, schedulers>> /\ failures' \in Nat
        /\ leftovers \subseteq leftovers' /\ leftovers' \subseteq Creations
    BY DEF InsertMetadata, Succeeds, Fails, ServiceInv, TypeOK
  <1>4. creations[r].step = "insertMetadata" /\ HasName(r) /\ ~At(r, "created")
    BY DEF InsertMetadata, At, ServiceInv, NamesInTime
  <1>5. document \in Document
    BY DEF Document, ServiceInv, TypeOK
  <1>6. TypeOK'
    BY <1>1, <1>2, <1>3, <1>5 DEF ServiceInv, TypeOK, Creation, broker, schedulers
  <1>7. Known'
    <2>1. \A q \in Creations : At(q, "created") => At(q, "created")' /\ creations'[q].name = creations[q].name
      BY <1>2, <1>4 DEF At
    <2> QED BY <1>3, <2>1, SameKnown DEF ServiceInv, broker
  <1>8. ASSUME ~Shared(r), DeletionOf(r) = {} PROVE Promises(r)'
    <2>1. NoDocument(r) /\ ~Taken(r)
      BY <1>4 DEF ServiceInv, OwnDocuments, NoDocument, HeldBy, Taken
    <2>2. DeletionOf(r)' = {} /\ ~Taken(r)'
      BY <1>2, <1>3, <1>8, <2>1 DEF DeletionOf, HeldBy, Taken, schedulers
    <2>3. Named(infos', creations'[r].name) # {}
      BY <1>2, <1>3, <1>4, <1>8 DEF ServiceInv, Promises, Served
    <2>4. IF step = "publish" THEN ~NoDocument(r)' ELSE r \notin leftovers' => NoDocument(r)'
      <3>1. CASE documents' = documents \cup {document}
        <4>1. document \in documents' /\ document.by = r
          BY <3>1
        <4> QED BY <1>1, <2>1, <4>1 DEF NoDocument
      <3>2. CASE UNCHANGED documents /\ step = "refused"
        BY <2>1, <3>2 DEF NoDocument
      <3> QED BY <1>1, <3>1, <3>2
    <2> QED BY <1>2, <2>2, <2>3, <2>4 DEF Promises, Served, Refused, Dropped, At
  <1>9. /\ \A info \in infos : info.name # creations[r].name => info \in infos'
        /\ \A other \in documents' : other \in documents \/ other = document
        /\ \A other \in documents : other.name # creations[r].name => other \in documents'
        /\ \A type \in GpuTypes : Range(queues[type]) \subseteq Range(queues'[type]) /\ lost[type] \subseteq lost'[type]
    BY <1>1, <1>3 DEF broker
  <1> QED BY <1>2, <1>3, <1>4, <1>6, <1>7, <1>8, <1>9, LateSteps

\* The message is published, or everything is to be removed again.
LEMMA PublishCreationStep == ASSUME ServiceInv, NEW r \in Creations, PublishCreation(r) PROVE ServiceInv'
  <1>1. PICK step \in {"created", "removeInfo"} :
            /\ Goto(r, step)
            /\ IF step = "created" THEN Publish(creations[r].GpuType, "create", creations[r].name)
               ELSE Fails /\ UNCHANGED broker
    BY DEF PublishCreation, RollsBack
  <1>2. /\ creations' \in [Creations -> Creation] /\ creations'[r].step = step
        /\ creations'[r].name = creations[r].name /\ creations'[r].GpuType = creations[r].GpuType
        /\ \A q \in Creations \ {r} : creations'[q] = creations[q]
    BY <1>1, GotoType DEF ServiceInv, CreationSteps
  <1>3. /\ UNCHANGED <<now, deletions, infos, documents, schedulers, leftovers>>
    BY DEF PublishCreation
  <1>4. creations[r].step = "publish" /\ HasName(r) /\ ~At(r, "created")
    BY DEF PublishCreation, At, ServiceInv, NamesInTime
  <1> DEFINE m == [verb |-> "create", name |-> creations[r].name]
             type == creations[r].GpuType
  <1>a. type \in GpuTypes /\ creations[r].name \in Name
    BY DEF ServiceInv, TypeOK
  <1>5. /\ queues' \in [GpuTypes -> Seq(Message)] /\ lost' \in [GpuTypes -> SUBSET Message]
        /\ failures' \in Nat
        /\ \A t \in GpuTypes :
              /\ lost[t] \subseteq lost'[t]
              /\ \/ Range(queues'[t]) = Range(queues[t])
                 \/ step = "created" /\ Range(queues'[t]) = Range(queues[t]) \cup {m}
        /\ step = "created" => m \in Range(queues'[type]) \cup lost'[type]
    <2>1. CASE step = "created"
      <3>1. /\ queues' \in [GpuTypes -> Seq(Message)] /\ lost' \in [GpuTypes -> SUBSET Message]
            /\ failures' \in Nat
            /\ \A t \in GpuTypes \ {type} : queues'[t] = queues[t] /\ lost'[t] = lost[t]
            /\ \/ Range(queues'[type]) = Range(queues[type]) \cup {m} /\ lost'[type] = lost[type]
               \/ lost'[type] = lost[type] \cup {m} /\ queues'[type] = queues[type]
        BY <1>1, <1>a, <2>1, PublishType DEF ServiceInv
      <3> HIDE DEF m, type
      <3> QED BY <1>a, <2>1, <3>1
    <2>2. CASE step = "removeInfo"
      BY <1>1, <2>2 DEF broker, Fails, ServiceInv, TypeOK
    <2> QED BY <2>1, <2>2
  <1>6. TypeOK'
    BY <1>2, <1>3, <1>5 DEF ServiceInv, TypeOK, Creation, schedulers
  <1>7. Known'
    <2>1. \A q \in Creations : At(q, "created") => At(q, "created")' /\ creations'[q].name = creations[q].name
      BY <1>2, <1>4 DEF At
    <2>2. \A d \in Deletions : deletions'[d].step # "idle" =>
              \E q \in Creations : At(q, "created")' /\ deletions'[d].name = creations'[q].name
      BY <1>3, <2>1 DEF ServiceInv, Known
    <2>3. ASSUME NEW t \in GpuTypes, NEW n \in Range(queues'[t])
          PROVE  /\ n.verb = "create" => \E q \in Creations : At(q, "created")' /\ n.name = creations'[q].name
                 /\ n.verb = "delete" => \E d \in Deletions : deletions'[d].step = "deleted" /\ n.name = deletions'[d].name
      <3>1. CASE n \in Range(queues[t])
        BY <1>3, <2>1, <3>1 DEF ServiceInv, Known
      <3>2. CASE step = "created" /\ n = m
        BY <1>2, <3>2 DEF At
      <3>3. n \in Range(queues[t]) \/ (step = "created" /\ n = m)
        <4> HIDE DEF m
        <4> QED BY <1>5, <2>3
      <3> QED BY <3>1, <3>2, <3>3
    <2> QED BY <2>2, <2>3 DEF Known
  <1>8. ASSUME ~Shared(r), DeletionOf(r) = {} PROVE Promises(r)'
    <2>1. Named(infos, creations[r].name) # {} /\ ~NoDocument(r) /\ ~Taken(r)
      BY <1>4, <1>8 DEF ServiceInv, Promises, Served, Refused, At
    <2>2. DeletionOf(r)' = {} /\ ~Taken(r)' /\ ~NoDocument(r)' /\ Named(infos', creations'[r].name) # {}
      BY <1>2, <1>3, <1>8, <2>1 DEF DeletionOf, HeldBy, Taken, NoDocument, schedulers
    <2>3. step = "created" => Pending(r, "create")' \/ Lost(r, "create")'
      BY <1>2, <1>5 DEF Pending, Lost
    <2> QED BY <1>2, <2>2, <2>3 DEF Promises, Served, Refused, Dropped, At
  <1>9. /\ \A info \in infos : info.name # creations[r].name => info \in infos'
        /\ \A other \in documents' : other \in documents
        /\ \A other \in documents : other.name # creations[r].name => other \in documents'
    BY <1>3
  <1>10. \A t \in GpuTypes : Range(queues[t]) \subseteq Range(queues'[t]) /\ lost[t] \subseteq lost'[t]
    <2> HIDE DEF m
    <2> QED BY <1>5
  <1> QED BY <1>2, <1>3, <1>4, <1>6, <1>7, <1>8, <1>9, <1>10, LateSteps

\* The roll back removes the record and the document by their name.
LEMMA RollBackSteps == ASSUME ServiceInv, NEW r \in Creations, RemoveInfo(r) \/ RemoveMetadata(r) PROVE ServiceInv'
  <1>1. PICK step \in {"removeMetadata", "refused"} :
            /\ Goto(r, step)
            /\ step = "removeMetadata" => UNCHANGED documents
            /\ \/ UNCHANGED infos
               \/ RemoveOne(infos, infos', creations[r].name)
            /\ \/ UNCHANGED documents
               \/ RemoveOne(documents, documents', creations[r].name)
            /\ \/ step = "removeMetadata"
               \/ r \in leftovers'
               \/ RemoveOne(documents, documents', creations[r].name)
    BY DEF RemoveInfo, RemoveMetadata
  <1>2. /\ creations' \in [Creations -> Creation] /\ creations'[r].step = step
        /\ creations'[r].name = creations[r].name /\ creations'[r].GpuType = creations[r].GpuType
        /\ \A q \in Creations \ {r} : creations'[q] = creations[q]
    BY <1>1, GotoType DEF ServiceInv, CreationSteps
  <1>3. /\ UNCHANGED <<now, deletions, broker, schedulers>> /\ failures' \in Nat
        /\ leftovers \subseteq leftovers' /\ leftovers' \subseteq Creations
    BY DEF RemoveInfo, RemoveMetadata, Succeeds, Fails, ServiceInv, TypeOK
  <1>4. HasName(r) /\ ~At(r, "created") /\ creations[r].step \in {"removeInfo", "removeMetadata"}
    BY DEF RemoveInfo, RemoveMetadata, At, ServiceInv, NamesInTime
  <1>5. /\ infos' \subseteq infos /\ \A info \in infos : info.name # creations[r].name => info \in infos'
        /\ documents' \subseteq documents
        /\ \A other \in documents : other.name # creations[r].name => other \in documents'
    BY <1>1, RemoveOneRemoves
  <1>6. TypeOK'
    BY <1>2, <1>3, <1>5 DEF ServiceInv, TypeOK, Creation, broker, schedulers
  <1>7. Known'
    <2>1. \A q \in Creations : At(q, "created") => At(q, "created")' /\ creations'[q].name = creations[q].name
      BY <1>2, <1>4 DEF At
    <2> QED BY <1>3, <2>1, SameKnown DEF ServiceInv, broker
  <1>8. ASSUME ~Shared(r), DeletionOf(r) = {} PROVE Promises(r)'
    <2>1. DeletionOf(r)' = {} /\ ~Taken(r)'
      BY <1>2, <1>3, <1>4, <1>8 DEF DeletionOf, HeldBy, Taken, ServiceInv, Promises, Refused, schedulers
    <2>2. step = "refused" /\ r \notin leftovers' => NoDocument(r)'
      <3> SUFFICES ASSUME RemoveOne(documents, documents', creations[r].name),
                          NEW document \in documents', document.by = r
                   PROVE  FALSE
        BY <1>1 DEF NoDocument
      <3>1. document \in documents
        BY <1>5
      <3>2. document.name = creations[r].name
        BY <3>1 DEF ServiceInv, OwnDocuments
      <3>3. \A other \in documents : other.name = creations[r].name => other = document
        BY <1>8, <3>1, OnlyDocument DEF ServiceInv
      <3> QED BY <3>1, <3>2, <3>3, RemoveOneRemoves
    <2> QED BY <1>2, <2>1, <2>2 DEF Promises, Served, Refused, Dropped, At
  <1>9. \A type \in GpuTypes : Range(queues[type]) \subseteq Range(queues'[type]) /\ lost[type] \subseteq lost'[type]
    BY <1>3 DEF broker
  <1> QED BY <1>2, <1>3, <1>4, <1>5, <1>6, <1>7, <1>8, <1>9, LateSteps

(***************************************************************************)
(* DeleteTrainingJob.                                                      *)
(***************************************************************************)

\* What a deletion may do to the jobs of other names: nothing.
LEMMA DeletionKeeps ==
    ASSUME ServiceInv, NEW d \in Deletions, TypeOK',
           UNCHANGED <<creations, infos, schedulers, leftovers>>,
           deletions[d].step # "deleted", deletions'[d].step # "idle",
           deletions[d].step # "idle" => deletions'[d].name = deletions[d].name,
           \A e \in Deletions \ {d} : deletions'[e] = deletions[e],
           \E r \in Creations : At(r, "created") /\ deletions'[d].name = creations[r].name,
           documents' \subseteq documents,
           \A document \in documents : document.name # deletions'[d].name => document \in documents',
           \A type \in GpuTypes :
               /\ Range(queues[type]) \subseteq Range(queues'[type]) /\ lost[type] \subseteq lost'[type]
               /\ \A m \in Range(queues'[type]) :
                     \/ m \in Range(queues[type])
                     \/ deletions'[d].step = "deleted" /\ m = [verb |-> "delete", name |-> deletions'[d].name],
           \A r \in Creations : ~Shared(r) /\ creations[r].name = deletions'[d].name =>
               /\ deletions'[d].step \in {"remove", "publish", "deleted"} => deletions'[d].GpuType = creations[r].GpuType
               /\ deletions'[d].step \in {"publish", "deleted"} => NoDocument(r)'
               /\ deletions'[d].step = "deleted" => Pending(r, "delete")' \/ Lost(r, "delete")'
    PROVE  ServiceInv'
  <1>1. \A r \in Creations : /\ HasName(r)' = HasName(r) /\ Shared(r)' = Shared(r)
                             /\ \A step : At(r, step)' = At(r, step)
    BY DEF HasName, Shared, At
  <1>2. NamesInTime' /\ OwnDocuments'
    BY <1>1 DEF ServiceInv, NamesInTime, OwnDocuments, HasName, schedulers
  <1>3. Known'
    <2>1. ASSUME NEW e \in Deletions, deletions'[e].step # "idle"
          PROVE  \E r \in Creations : At(r, "created")' /\ deletions'[e].name = creations'[r].name
      BY <1>1, <2>1 DEF ServiceInv, Known
    <2>2. ASSUME NEW type \in GpuTypes, NEW m \in Range(queues'[type])
          PROVE  /\ m.verb = "create" => \E r \in Creations : At(r, "created")' /\ m.name = creations'[r].name
                 /\ m.verb = "delete" => \E e \in Deletions : deletions'[e].step = "deleted" /\ m.name = deletions'[e].name
      <3>1. CASE m \in Range(queues[type])
        <4>1. \A e \in Deletions : deletions[e].step = "deleted" => deletions'[e] = deletions[e]
          OBVIOUS
        <4> QED BY <1>1, <3>1, <4>1 DEF ServiceInv, Known
      <3>2. CASE deletions'[d].step = "deleted" /\ m = [verb |-> "delete", name |-> deletions'[d].name]
        BY <3>2
      <3> QED BY <2>2, <3>1, <3>2
    <2> QED BY <2>1, <2>2 DEF Known
  <1>4. ASSUME NEW r \in Creations, ~Shared(r)' PROVE Promises(r)'
    <2>1. ~Shared(r) /\ Promises(r) /\ creations[r].GpuType \in GpuTypes
      BY <1>1, <1>4 DEF ServiceInv, TypeOK
    <2>2. /\ NoDocument(r) => NoDocument(r)'
          /\ (HeldBy(r)' <=> HeldBy(r)) /\ (Taken(r)' <=> Taken(r))
          /\ \A verb : Pending(r, verb) \/ Lost(r, verb) => Pending(r, verb)' \/ Lost(r, verb)'
      BY <2>1 DEF NoDocument, HeldBy, Taken, Pending, Lost, schedulers
    <2>3. Refused(r)'
      BY <1>1, <2>1, <2>2 DEF Promises, Refused
    <2>4. Served(r)'
      <3> SUFFICES ASSUME DeletionOf(r)' = {} PROVE Served(r)'
        BY DEF Served
      <3>1. DeletionOf(r) = {} /\ deletions'[d].name # creations[r].name
        BY DEF DeletionOf
      <3>2. ~NoDocument(r) => ~NoDocument(r)'
        BY <3>1 DEF NoDocument, ServiceInv, OwnDocuments
      <3> QED BY <1>1, <2>1, <2>2, <3>1, <3>2 DEF Promises, Served
    <2>5. ASSUME NEW e \in DeletionOf(r)'
          PROVE  /\ deletions'[e].step \in {"remove", "publish", "deleted"} => deletions'[e].GpuType = creations'[r].GpuType
                 /\ deletions'[e].step \in {"publish", "deleted"} => NoDocument(r)'
                 /\ deletions'[e].step = "deleted" => (HeldBy(r)' => Pending(r, "delete")' \/ Lost(r, "delete")')
      <3>1. CASE e = d
        BY <2>1, <2>5, <3>1 DEF DeletionOf
      <3>2. CASE e # d
        <4>1. e \in DeletionOf(r) /\ deletions'[e] = deletions[e]
          BY <2>5, <3>2 DEF DeletionOf
        <4> QED BY <2>1, <2>2, <4>1 DEF Promises, Dropped
      <3> QED BY <3>1, <3>2
    <2> QED BY <2>3, <2>4, <2>5 DEF Promises, Dropped
  <1> QED BY <1>2, <1>3, <1>4 DEF ServiceInv

\* The document that is found tells the queue of the job.
LEMMA FindDocumentStep ==
    ASSUME ServiceInv, NEW d \in Deletions, NEW q \in Creations, At(q, "created"),
           FindDocument(d, creations[q].name)
    PROVE  ServiceInv'
  <1> DEFINE name == creations[q].name
  <1>1. PICK deletion \in Deletion :
            /\ deletions' = [deletions EXCEPT ![d] = deletion]
            /\ deletion.step \in {"remove", "refused"} /\ deletion.name = name
            /\ deletion.step = "remove" =>
                  \E document \in Named(documents, name) : deletion.GpuType = document.GpuType
    <2>1. name \in Name
      BY DEF ServiceInv, TypeOK
    <2>2. CASE \E document \in Named(documents, name) :
                  deletions' = [deletions EXCEPT ![d] =
                      [step |-> "remove", name |-> name, GpuType |-> document.GpuType]]
      <3>1. PICK document \in Named(documents, name) :
                  deletions' = [deletions EXCEPT ![d] =
                      [step |-> "remove", name |-> name, GpuType |-> document.GpuType]]
        BY <2>2
      <3>2. document.GpuType \in GpuTypes
        BY DEF ServiceInv, TypeOK, Document, Named
      <3>3. [step |-> "remove", name |-> name, GpuType |-> document.GpuType] \in Deletion
        BY <2>1, <3>2 DEF Deletion, DeletionSteps
      <3> QED BY <3>1, <3>3
    <2>3. CASE deletions' = [deletions EXCEPT ![d] =
                    [step |-> "refused", name |-> name, GpuType |-> AnyType]]
      <3>1. [step |-> "refused", name |-> name, GpuType |-> AnyType] \in Deletion
        BY <2>1, AnyTypes DEF Deletion, DeletionSteps
      <3> QED BY <2>3, <3>1
    <2> QED BY <2>2, <2>3 DEF FindDocument
  <1>2. /\ UNCHANGED <<now, creations, infos, documents, broker, schedulers, leftovers>> /\ failures' \in Nat
        /\ deletions[d].step = "idle"
    BY DEF FindDocument, Succeeds, Fails, ServiceInv, TypeOK
  <1>3. deletions \in [Deletions -> Deletion]
    BY DEF ServiceInv, TypeOK, Deletion
  <1>4. /\ deletions' \in [Deletions -> Deletion] /\ deletions'[d] = deletion
        /\ \A e \in Deletions \ {d} : deletions'[e] = deletions[e]
    BY <1>1, <1>3
  <1>5. TypeOK'
    BY <1>2, <1>4 DEF ServiceInv, TypeOK, Deletion, broker, schedulers
  <1>6. ASSUME NEW r \in Creations, ~Shared(r), creations[r].name = name, deletion.step = "remove"
        PROVE  deletion.GpuType = creations[r].GpuType
    <2>1. PICK document \in documents : document.name = name /\ deletion.GpuType = document.GpuType
      BY <1>1, <1>6 DEF Named
    <2>2. document.GpuType = creations[r].GpuType
      BY <1>6, <2>1, OnlyDocument DEF ServiceInv
    <2> QED BY <2>1, <2>2
  <1>7. /\ deletions'[d].step # "idle" /\ deletions'[d].name = name
        /\ deletions'[d].step \notin {"publish", "deleted"}
    BY <1>1, <1>4
  <1>8. \A r \in Creations : ~Shared(r) /\ creations[r].name = deletions'[d].name =>
            (deletions'[d].step \in {"remove", "publish", "deleted"} => deletions'[d].GpuType = creations[r].GpuType)
    BY <1>4, <1>6, <1>7
  <1> QED BY <1>2, <1>4, <1>5, <1>7, <1>8, DeletionKeeps DEF broker

\* A deletion goes on, with the same job.
LEMMA DeletionGoesOn ==
    ASSUME TypeOK, NEW d \in Deletions, NEW step \in DeletionSteps, deletions' = [deletions EXCEPT ![d].step = step]
    PROVE  /\ deletions' \in [Deletions -> Deletion]
           /\ deletions'[d].step = step /\ deletions'[d].name = deletions[d].name
           /\ deletions'[d].GpuType = deletions[d].GpuType
           /\ \A e \in Deletions \ {d} : deletions'[e] = deletions[e]
  <1>1. deletions \in [Deletions -> Deletion]
    BY DEF TypeOK, Deletion
  <1> QED BY <1>1 DEF Deletion

\* The document of that name is removed, by this request or by another one.
LEMMA RemoveDocumentStep == ASSUME ServiceInv, NEW d \in Deletions, RemoveDocument(d) PROVE ServiceInv'
  <1>1. PICK step \in {"publish", "refused"} :
            /\ deletions' = [deletions EXCEPT ![d].step = step]
            /\ \/ RemoveOne(documents, documents', deletions[d].name)
               \/ step = "refused" /\ UNCHANGED documents
    BY DEF RemoveDocument
  <1>2. /\ UNCHANGED <<now, creations, infos, broker, schedulers, leftovers>> /\ failures' \in Nat
        /\ deletions[d].step = "remove"
    BY DEF RemoveDocument, Succeeds, Fails, ServiceInv, TypeOK
  <1>3. /\ deletions' \in [Deletions -> Deletion]
        /\ deletions'[d].step = step /\ deletions'[d].name = deletions[d].name
        /\ deletions'[d].GpuType = deletions[d].GpuType
        /\ \A e \in Deletions \ {d} : deletions'[e] = deletions[e]
    BY <1>1, DeletionGoesOn DEF ServiceInv, DeletionSteps
  <1>4. /\ documents' \subseteq documents
        /\ \A document \in documents : document.name # deletions[d].name => document \in documents'
    BY <1>1, RemoveOneRemoves
  <1>5. TypeOK'
    BY <1>2, <1>3, <1>4 DEF ServiceInv, TypeOK, Deletion, broker, schedulers
  <1>6. \E r \in Creations : At(r, "created") /\ deletions[d].name = creations[r].name
    BY <1>2 DEF ServiceInv, Known
  <1>7. ASSUME NEW r \in Creations, ~Shared(r), creations[r].name = deletions[d].name
        PROVE  /\ deletions[d].GpuType = creations[r].GpuType
               /\ step = "publish" => NoDocument(r)'
    <2>1. d \in DeletionOf(r)
      BY <1>2, <1>7 DEF DeletionOf
    <2>2. deletions[d].GpuType = creations[r].GpuType
      BY <1>2, <1>7, <2>1 DEF ServiceInv, Promises, Dropped
    <2>3. ASSUME step = "publish", NEW document \in documents', document.by = r PROVE FALSE
      <3>1. document \in documents /\ document.name = deletions[d].name
        BY <1>4, <1>7, <2>3 DEF ServiceInv, OwnDocuments
      <3>2. \A other \in documents : other.name = deletions[d].name => other = document
        BY <1>7, <2>3, <3>1, OnlyDocument DEF ServiceInv
      <3> QED BY <1>1, <2>3, <3>1, <3>2, RemoveOneRemoves
    <2> QED BY <2>2, <2>3 DEF NoDocument
  <1> QED BY <1>2, <1>3, <1>4, <1>5, <1>6, <1>7, DeletionKeeps DEF broker

\* The scheduler of the job is told, if the publication does not fail.
LEMMA PublishDeletionStep == ASSUME ServiceInv, NEW d \in Deletions, PublishDeletion(d) PROVE ServiceInv'
  <1> DEFINE m == [verb |-> "delete", name |-> deletions[d].name]
             type == deletions[d].GpuType
  <1>1. PICK step \in {"deleted", "refused"} :
            /\ deletions' = [deletions EXCEPT ![d].step = step]
            /\ IF step = "deleted" THEN Publish(type, "delete", deletions[d].name) ELSE Fails /\ UNCHANGED broker
    BY DEF PublishDeletion, QueueOf
  <1>2. /\ UNCHANGED <<now, creations, infos, documents, schedulers, leftovers>>
        /\ deletions[d].step = "publish"
    BY DEF PublishDeletion
  <1>3. /\ deletions' \in [Deletions -> Deletion]
        /\ deletions'[d].step = step /\ deletions'[d].name = deletions[d].name
        /\ deletions'[d].GpuType = deletions[d].GpuType
        /\ \A e \in Deletions \ {d} : deletions'[e] = deletions[e]
    BY <1>1, DeletionGoesOn DEF ServiceInv, DeletionSteps
  <1>4. type \in GpuTypes /\ deletions[d].name \in Name /\ queues \in [GpuTypes -> Seq(Message)]
    BY DEF ServiceInv, TypeOK
  <1>5. /\ queues' \in [GpuTypes -> Seq(Message)] /\ lost' \in [GpuTypes -> SUBSET Message]
        /\ failures' \in Nat
        /\ \A t \in GpuTypes :
              /\ lost[t] \subseteq lost'[t]
              /\ \/ Range(queues'[t]) = Range(queues[t])
                 \/ step = "deleted" /\ Range(queues'[t]) = Range(queues[t]) \cup {m}
        /\ step = "deleted" => m \in Range(queues'[type]) \cup lost'[type]
    <2>1. CASE step = "deleted"
      <3>1. /\ queues' \in [GpuTypes -> Seq(Message)] /\ lost' \in [GpuTypes -> SUBSET Message]
            /\ failures' \in Nat
            /\ \A t \in GpuTypes \ {type} : queues'[t] = queues[t] /\ lost'[t] = lost[t]
            /\ \/ Range(queues'[type]) = Range(queues[type]) \cup {m} /\ lost'[type] = lost[type]
               \/ lost'[type] = lost[type] \cup {m} /\ queues'[type] = queues[type]
        BY <1>1, <1>4, <2>1, PublishType DEF ServiceInv
      <3> HIDE DEF m, type
      <3> QED BY <1>4, <2>1, <3>1
    <2>2. CASE step = "refused"
      BY <1>1, <1>4, <2>2 DEF broker, Fails, ServiceInv, TypeOK
    <2> QED BY <2>1, <2>2
  <1>6. TypeOK'
    BY <1>2, <1>3, <1>5 DEF ServiceInv, TypeOK, Deletion, schedulers
  <1>7. \E r \in Creations : At(r, "created") /\ deletions[d].name = creations[r].name
    BY <1>2 DEF ServiceInv, Known
  <1>8. ASSUME NEW r \in Creations, ~Shared(r), creations[r].name = deletions[d].name
        PROVE  /\ deletions[d].GpuType = creations[r].GpuType /\ NoDocument(r)'
               /\ step = "deleted" => Pending(r, "delete")' \/ Lost(r, "delete")'
    <2>1. d \in DeletionOf(r)
      BY <1>2, <1>8 DEF DeletionOf
    <2>2. deletions[d].GpuType = creations[r].GpuType /\ NoDocument(r)
      BY <1>2, <1>8, <2>1 DEF ServiceInv, Promises, Dropped
    <2> QED BY <1>2, <1>5, <1>8, <2>2 DEF NoDocument, Pending, Lost
  <1>9. \A t \in GpuTypes :
            /\ Range(queues[t]) \subseteq Range(queues'[t]) /\ lost[t] \subseteq lost'[t]
            /\ \A n \in Range(queues'[t]) : n \in Range(queues[t]) \/ (step = "deleted" /\ n = m)
    <2> HIDE DEF m
    <2> QED BY <1>5
  <1> QED BY <1>2, <1>3, <1>6, <1>7, <1>8, <1>9, DeletionKeeps

(***************************************************************************)
(* The schedulers.                                                         *)
(***************************************************************************)

\* A scheduler takes up a job of which it has read, forgets it, or drops it.
LEMMA TakeStep == ASSUME ServiceInv, NEW type \in GpuTypes, Take(type) PROVE ServiceInv'
  <1> DEFINE own(m)  == Of(Named(documents, m.name), type)
             mine(m) == Of(Named(held, m.name), type)
  <1>1. queues \in [GpuTypes -> Seq(Message)] /\ queues[type] # <<>> /\ lost \in [GpuTypes -> SUBSET Message]
    BY DEF ServiceInv, TypeOK, Take
  <1>2. PICK m \in Message : m = Head(queues[type])
    BY <1>1, RangeHeadTail
  <1>3. /\ queues' \in [GpuTypes -> Seq(Message)]
        /\ Range(queues[type]) = {m} \cup Range(queues'[type])
        /\ \A t \in GpuTypes \ {type} : queues'[t] = queues[t]
    <2>1. queues' = [queues EXCEPT ![type] = Tail(queues[type])]
      BY DEF Take
    <2> QED BY <1>1, <1>2, <2>1, RangeHeadTail
  <1>4. \/ /\ m.verb = "create" /\ own(m) # {} /\ mine(m) = {}
           /\ \E document \in own(m) :
                 held' = held \cup {document} /\ accepted' \in {accepted, accepted \cup {document}}
           /\ UNCHANGED lost
        \/ m.verb = "create" /\ mine(m) = {} /\ UNCHANGED schedulers /\ Lose(type, {m})
        \/ m.verb = "create" /\ (own(m) = {} \/ mine(m) # {}) /\ UNCHANGED <<schedulers, lost>>
        \/ m.verb = "delete" /\ held' = held \ mine(m) /\ UNCHANGED <<accepted, lost>>
    BY <1>2 DEF Take
  <1>5. UNCHANGED <<now, creations, deletions, infos, documents, leftovers>> /\ failures' \in Nat
    BY DEF Take, Succeeds, Fails, ServiceInv, TypeOK
  <1>6. held' \subseteq held \cup documents /\ accepted' \subseteq accepted \cup documents
    BY <1>4 DEF Named, Of, schedulers
  <1>a. /\ lost' \in [GpuTypes -> SUBSET Message] /\ \A t \in GpuTypes : lost[t] \subseteq lost'[t]
        /\ Lose(type, {m}) => m \in lost'[type]
    BY <1>1, <1>4 DEF Lose
  <1>7. TypeOK'
    BY <1>3, <1>5, <1>6, <1>a DEF ServiceInv, TypeOK
  <1>8. \A r \in Creations : /\ HasName(r)' = HasName(r) /\ Shared(r)' = Shared(r)
                             /\ NoDocument(r)' = NoDocument(r) /\ DeletionOf(r)' = DeletionOf(r)
                             /\ \A step : At(r, step)' = At(r, step)
    BY <1>5 DEF HasName, Shared, NoDocument, DeletionOf, At
  <1>9. NamesInTime' /\ OwnDocuments'
    BY <1>5, <1>6, <1>8 DEF ServiceInv, NamesInTime, OwnDocuments, HasName
  <1>10. Known'
    <2>1. \A t \in GpuTypes : Range(queues'[t]) \subseteq Range(queues[t])
      BY <1>3
    <2> QED BY <1>5, <1>8, <2>1 DEF ServiceInv, Known
  <1>11. ASSUME NEW r \in Creations, ~Shared(r)' PROVE Promises(r)'
    <2> DEFINE document == [name |-> creations[r].name, GpuType |-> creations[r].GpuType, by |-> r]
    <2>1. ~Shared(r) /\ Promises(r) /\ creations[r].GpuType \in GpuTypes
      BY <1>8, <1>11 DEF ServiceInv, TypeOK
    <2>2. \A other \in documents \cup held \cup accepted :
              other.by = r \/ other.name = creations[r].name => other = document
      BY <2>1, OnlyDocument DEF ServiceInv
    <2>3. /\ HeldBy(r) <=> document \in held
          /\ HeldBy(r)' <=> document \in held'
          /\ Taken(r) <=> document \in held \cup accepted
          /\ Taken(r)' <=> document \in held' \cup accepted'
          /\ ~NoDocument(r) <=> document \in documents
      BY <1>6, <2>2 DEF HeldBy, Taken, NoDocument
    <2>4. /\ own(m) \subseteq documents /\ mine(m) \subseteq held
          /\ document \in own(m) <=> document \in documents /\ m.name = creations[r].name /\ creations[r].GpuType = type
          /\ document \in mine(m) <=> document \in held /\ m.name = creations[r].name /\ creations[r].GpuType = type
      BY DEF Named, Of
    <2>5. m.name = creations[r].name => own(m) \subseteq {document} /\ mine(m) \subseteq {document}
      BY <2>2 DEF Named, Of
    <2>6. \A verb : Pending(r, verb) \/ Lost(r, verb) =>
              \/ Pending(r, verb)' \/ Lost(r, verb)'
              \/ m.verb = verb /\ m.name = creations[r].name /\ creations[r].GpuType = type
      BY <1>3, <1>5, <1>a, <2>1 DEF Pending, Lost
    <2>7. m.verb = "create" => \E q \in Creations : At(q, "created") /\ m.name = creations[q].name
      BY <1>3 DEF ServiceInv, Known
    <2>8. m.verb = "delete" /\ m.name = creations[r].name => DeletionOf(r) # {}
      <3> SUFFICES ASSUME m.verb = "delete", m.name = creations[r].name PROVE DeletionOf(r) # {}
        OBVIOUS
      <3>1. PICK d \in Deletions : deletions[d].step = "deleted" /\ m.name = deletions[d].name
        BY <1>3 DEF ServiceInv, Known
      <3> QED BY <3>1 DEF DeletionOf
    <2>9. ASSUME document \in held' \cup accepted', document \notin held \cup accepted
          PROVE  m.verb = "create" /\ m.name = creations[r].name /\ document \in documents /\ At(r, "created")
      <3>1. m.verb = "create" /\ document \in own(m)
        BY <1>4, <2>9 DEF schedulers
      <3>2. m.name = creations[r].name /\ document \in documents
        BY <2>4, <3>1
      <3>3. PICK q \in Creations : At(q, "created") /\ creations[q].name = creations[r].name
        BY <2>7, <3>1, <3>2
      <3>4. q = r
        BY <2>1, <3>3, Alone DEF ServiceInv, NamesInTime, At
      <3> QED BY <3>1, <3>2, <3>3, <3>4
    <2>a. m.verb = "create" /\ m.name = creations[r].name /\ creations[r].GpuType = type /\ m \in lost'[type]
              => Lost(r, "create")'
      BY <1>2, <1>5 DEF Lost, Message
    <2>b. ASSUME HeldBy(r)', ~HeldBy(r)
          PROVE  m.verb = "create" /\ document \in documents
      <3>1. m.verb = "create" /\ document \in own(m)
        BY <1>4, <2>3, <2>b DEF schedulers
      <3> QED BY <2>4, <3>1
    <2> HIDE DEF own, mine, document
    <2>10. Refused(r)'
      BY <1>5, <1>8, <2>1, <2>3, <2>9 DEF Promises, Refused
    <2>11. Served(r)'
      <3> SUFFICES ASSUME DeletionOf(r) = {}, At(r, "created"), ~NoDocument(r)
                   PROVE  HeldBy(r)' \/ Pending(r, "create")' \/ Lost(r, "create")'
        BY <1>5, <1>8, <2>1 DEF Promises, Served, At
      <3>1. HeldBy(r) \/ Pending(r, "create") \/ Lost(r, "create")
        BY <2>1 DEF Promises, Served
      <3>2. CASE HeldBy(r)
        BY <1>4, <2>3, <2>4, <2>8, <3>2 DEF schedulers
      <3>3. CASE /\ Pending(r, "create") \/ Lost(r, "create")
                 /\ ~Pending(r, "create")' /\ ~Lost(r, "create")'
        <4>1. m.verb = "create" /\ m.name = creations[r].name /\ creations[r].GpuType = type
          BY <2>6, <3>3
        <4>2. document \in own(m)
          BY <2>3, <2>4, <4>1
        <4>3. mine(m) # {} => document \in held
          BY <2>4, <2>5, <4>1
        <4>4. ~Lose(type, {m})
          BY <1>a, <2>a, <3>3, <4>1
        <4> QED BY <1>4, <2>3, <2>5, <4>1, <4>2, <4>3, <4>4 DEF schedulers
      <3> QED BY <3>1, <3>2, <3>3
    <2>12. Dropped(r)'
      <3> SUFFICES ASSUME NEW d \in DeletionOf(r), deletions[d].step = "deleted", HeldBy(r)'
                   PROVE  Pending(r, "delete")' \/ Lost(r, "delete")'
        BY <1>5, <1>8, <2>1 DEF Promises, Dropped
      <3>1. NoDocument(r)
        BY <2>1 DEF Promises, Dropped
      <3>2. HeldBy(r)
        BY <2>3, <2>b, <3>1
      <3>3. Pending(r, "delete") \/ Lost(r, "delete")
        BY <2>1, <3>2 DEF Promises, Dropped
      <3>4. ASSUME m.verb = "delete", m.name = creations[r].name, creations[r].GpuType = type PROVE FALSE
        <4>1. document \in mine(m) /\ held' = held \ mine(m)
          BY <1>4, <2>3, <2>4, <3>2, <3>4
        <4> QED BY <2>3, <4>1
      <3> QED BY <2>6, <3>3, <3>4
    <2> QED BY <2>10, <2>11, <2>12 DEF Promises
  <1> QED BY <1>7, <1>9, <1>10, <1>11 DEF ServiceInv

\* The document of a job that a scheduler has is updated.
LEMMA UpdateDocumentStep ==
    ASSUME ServiceInv, NEW document \in held, UpdateDocument(document) PROVE ServiceInv'
  <1>1. /\ UNCHANGED <<now, creations, deletions, infos, documents, broker, held, leftovers, failures>>
        /\ accepted' = accepted \cup {document}
    BY DEF UpdateDocument
  <1>2. TypeOK' /\ NamesInTime' /\ OwnDocuments' /\ Known'
    BY <1>1 DEF ServiceInv, TypeOK, NamesInTime, OwnDocuments, Known, HasName, At, broker
  <1>3. ASSUME NEW r \in Creations, ~Shared(r)' PROVE Promises(r)'
    <2>1. ~Shared(r) /\ Promises(r)
      BY <1>1, <1>3 DEF Shared, ServiceInv
    <2>2. /\ Taken(r)' => Taken(r)
          /\ HeldBy(r)' = HeldBy(r) /\ NoDocument(r)' = NoDocument(r) /\ DeletionOf(r)' = DeletionOf(r)
          /\ \A step : At(r, step)' = At(r, step)
          /\ \A verb : Pending(r, verb)' = Pending(r, verb) /\ Lost(r, verb)' = Lost(r, verb)
      BY <1>1 DEF Taken, HeldBy, NoDocument, DeletionOf, At, Pending, Lost, broker
    <2>3. Served(r)' /\ Refused(r)'
      BY <1>1, <2>1, <2>2 DEF Promises, Served, Refused
    <2>4. Dropped(r)'
      BY <1>1, <2>1, <2>2 DEF Promises, Dropped
    <2> QED BY <2>3, <2>4 DEF Promises
  <1> QED BY <1>2, <1>3 DEF ServiceInv

\* A scheduler starts again with the jobs it has saved, and without the messages that
\* it had been sent.
LEMMA RestartSchedulerStep ==
    ASSUME ServiceInv, NEW type \in GpuTypes, RestartScheduler(type) PROVE ServiceInv'
  <1> DEFINE gone == { [verb |-> "create", name |-> document.name] : document \in held \ held' }
  <1>1. /\ queues \in [GpuTypes -> Seq(Message)] /\ lost \in [GpuTypes -> SUBSET Message]
        /\ held \subseteq Document /\ accepted \subseteq Document
    BY DEF ServiceInv, TypeOK
  <1>2. /\ UNCHANGED <<now, creations, deletions, infos, documents, accepted, leftovers>>
        /\ failures' \in Nat
        /\ held' = (held \ Of(held, type)) \cup Of(accepted \cap documents, type)
    BY DEF RestartScheduler, Fails, ServiceInv, TypeOK
  <1>3. PICK n \in 0..Len(queues[type]) :
            /\ queues' = [queues EXCEPT ![type] = SubSeq(queues[type], n + 1, Len(queues[type]))]
            /\ lost' = [lost EXCEPT ![type] =
                           lost[type] \cup (Range(SubSeq(queues[type], 1, n)) \cup gone)]
    BY DEF RestartScheduler, Lose
  <1>4. /\ SubSeq(queues[type], n + 1, Len(queues[type])) \in Seq(Message)
        /\ Range(queues[type]) = Range(SubSeq(queues[type], 1, n))
                                     \cup Range(SubSeq(queues[type], n + 1, Len(queues[type])))
    BY <1>1, RangeSplit
  <1>5. gone \subseteq Message
    BY <1>1 DEF Message, Document
  <1>6. /\ queues' \in [GpuTypes -> Seq(Message)] /\ lost' \in [GpuTypes -> SUBSET Message]
        /\ \A t \in GpuTypes : /\ lost[t] \subseteq lost'[t]
                               /\ Range(queues'[t]) \subseteq Range(queues[t])
                               /\ Range(queues[t]) \subseteq Range(queues'[t]) \cup lost'[t]
        /\ gone \subseteq lost'[type]
    <2>1. Range(queues[type]) \subseteq Message
      BY <1>1 DEF Range
    <2> HIDE DEF gone
    <2> QED BY <1>1, <1>3, <1>4, <1>5, <2>1
  <1>7. held' \subseteq held \cup accepted
    BY <1>2 DEF Of
  <1>8. TypeOK'
    BY <1>1, <1>2, <1>6, <1>7 DEF ServiceInv, TypeOK
  <1>9. \A r \in Creations : /\ HasName(r)' = HasName(r) /\ Shared(r)' = Shared(r)
                             /\ NoDocument(r)' = NoDocument(r) /\ DeletionOf(r)' = DeletionOf(r)
                             /\ \A step : At(r, step)' = At(r, step)
    BY <1>2 DEF HasName, Shared, NoDocument, DeletionOf, At
  <1>10. NamesInTime' /\ OwnDocuments'
    BY <1>2, <1>7, <1>9 DEF ServiceInv, NamesInTime, OwnDocuments, HasName
  <1>11. Known'
    BY <1>2, <1>6, <1>9 DEF ServiceInv, Known
  <1>12. ASSUME NEW r \in Creations, ~Shared(r)' PROVE Promises(r)'
    <2> DEFINE document == [name |-> creations[r].name, GpuType |-> creations[r].GpuType, by |-> r]
    <2>1. ~Shared(r) /\ Promises(r) /\ creations[r].GpuType \in GpuTypes
      BY <1>9, <1>12 DEF ServiceInv, TypeOK
    <2>2. \A other \in documents \cup held \cup accepted :
              other.by = r \/ other.name = creations[r].name => other = document
      BY <2>1, OnlyDocument DEF ServiceInv
    <2>3. /\ HeldBy(r) <=> document \in held
          /\ HeldBy(r)' <=> document \in held'
          /\ ~NoDocument(r) <=> document \in documents
          /\ Taken(r)' => Taken(r)
      BY <1>2, <1>7, <2>2 DEF HeldBy, Taken, NoDocument
    <2>4. \A verb : Pending(r, verb) \/ Lost(r, verb) => Pending(r, verb)' \/ Lost(r, verb)'
      BY <1>2, <1>6, <2>1 DEF Pending, Lost
    <2>5. Refused(r)'
      BY <1>2, <1>9, <2>1, <2>3 DEF Promises, Refused
    <2>6. ASSUME document \in held, document \notin held' PROVE Lost(r, "create")'
      <3>1. document \in Of(held, type) /\ document.GpuType = type
        BY <1>2, <2>6 DEF Of
      <3>2. [verb |-> "create", name |-> document.name] \in gone
        BY <2>6
      <3>3. document.name = creations[r].name /\ document.GpuType = creations[r].GpuType
        OBVIOUS
      <3> HIDE DEF document, gone
      <3> QED BY <1>2, <1>6, <3>1, <3>2, <3>3 DEF Lost
    <2>7. Served(r)'
      <3> SUFFICES ASSUME DeletionOf(r) = {}, At(r, "created")
                   PROVE  HeldBy(r)' \/ Pending(r, "create")' \/ Lost(r, "create")'
        BY <1>2, <1>9, <2>1 DEF Promises, Served, At
      <3>1. HeldBy(r) \/ Pending(r, "create") \/ Lost(r, "create")
        BY <2>1 DEF Promises, Served
      <3> QED BY <2>3, <2>4, <2>6, <3>1
    <2>8. Dropped(r)'
      <3> SUFFICES ASSUME NEW d \in DeletionOf(r), deletions[d].step = "deleted", HeldBy(r)'
                   PROVE  Pending(r, "delete")' \/ Lost(r, "delete")'
        BY <1>2, <1>9, <2>1 DEF Promises, Dropped
      <3>1. document \notin documents
        BY <2>1, <2>3 DEF Promises, Dropped
      <3>2. HeldBy(r)
        BY <1>2, <2>3, <3>1 DEF Of
      <3> QED BY <2>1, <2>4, <3>2 DEF Promises, Dropped
    <2> QED BY <2>5, <2>7, <2>8 DEF Promises
  <1> QED BY <1>8, <1>10, <1>11, <1>12 DEF ServiceInv

(***************************************************************************)
(* The theorems.                                                           *)
(***************************************************************************)

\* ServiceInv holds initially.
LEMMA InitService == ASSUME Init PROVE ServiceInv
  <1>1. \A r \in Creations : creations[r].step = "idle" /\ ~HasName(r)
    BY AnyTypes DEF Init, HasName
  <1>2. \A d \in Deletions : deletions[d].step = "idle"
    BY DEF Init
  <1>3. \A type \in GpuTypes : Range(queues[type]) = {}
    BY DEF Init, Range
  <1>4. documents = {} /\ held = {} /\ accepted = {}
    BY DEF Init
  <1>5. NamesInTime /\ OwnDocuments /\ Known
    BY <1>1, <1>2, <1>3, <1>4 DEF NamesInTime, OwnDocuments, Known
  <1>6. \A r \in Creations : Promises(r)
    BY <1>1, <1>2, <1>4 DEF Promises, Served, Refused, Dropped, DeletionOf, HeldBy, Taken, NoDocument, At
  <1> QED BY <1>5, <1>6, InitType DEF ServiceInv

\* ServiceInv is inductive.
LEMMA NextService == ASSUME ServiceInv, [Next]_vars PROVE ServiceInv'
  <1>1. CASE Tick \/ UNCHANGED vars
    <2>1. /\ UNCHANGED <<creations, deletions, infos, documents, queues, lost, held, accepted, leftovers, failures>>
          /\ now' \in Nat
      BY <1>1 DEF Tick, vars, broker, schedulers, ServiceInv, TypeOK
    <2>2. TypeOK' /\ NamesInTime' /\ OwnDocuments' /\ Known'
      BY <2>1 DEF ServiceInv, TypeOK, NamesInTime, OwnDocuments, Known, HasName, At
    <2>3. \A r \in Creations : Shared(r)' = Shared(r) /\ Promises(r)' = Promises(r)
      BY <2>1 DEF Shared, Promises, Served, Refused, Dropped, DeletionOf, HeldBy, Taken, NoDocument, Pending, Lost, At, Named
    <2> QED BY <2>2, <2>3 DEF ServiceInv
  <1>2. CASE \E r \in Creations, category \in Categories, type \in GpuTypes : Receive(r, category, type)
    BY <1>2, BaseInfoSteps
  <1>3. CASE \E r \in Creations : Create(r)
    BY <1>3, BaseInfoSteps, InsertJobInfoStep, InsertMetadataStep, PublishCreationStep, RollBackSteps DEF Create
  <1>4. CASE \E d \in Deletions : Delete(d)
    BY <1>4, RemoveDocumentStep, PublishDeletionStep DEF Delete
  <1>5. CASE \E d \in Deletions, r \in Creations : At(r, "created") /\ FindDocument(d, creations[r].name)
    BY <1>5, FindDocumentStep
  <1>6. CASE \E type \in GpuTypes : Take(type) \/ RestartScheduler(type)
    BY <1>6, TakeStep, RestartSchedulerStep
  <1>7. CASE \E document \in held : UpdateDocument(document)
    BY <1>7, UpdateDocumentStep
  <1> QED BY <1>1, <1>2, <1>3, <1>4, <1>5, <1>6, <1>7 DEF Next

LEMMA ServiceAlways == Spec => []ServiceInv
  <1>1. Init => ServiceInv
    BY InitService
  <1>2. ServiceInv /\ [Next]_vars => ServiceInv'
    BY NextService
  <1> QED BY <1>1, <1>2, PTL DEF Spec

\* A job that the service has created, and nobody deletes, keeps its document and a
\* record for the allocator, and a scheduler has it or will be told, whatever requests
\* fail and are rolled back meanwhile and whatever schedulers die, if no other job has
\* got its name and the message of its creation is not one of those that are lost.
THEOREM CreationsAreServed == Spec => []CreatedIsServed
  <1>1. ServiceInv => CreatedIsServed
    <2> SUFFICES ASSUME ServiceInv, NEW r \in Creations, At(r, "created"), ~Shared(r), DeletionOf(r) = {}
                 PROVE  /\ \E document \in documents :
                              document.by = r /\ document.GpuType = creations[r].GpuType
                        /\ Named(infos, creations[r].name) # {}
                        /\ HeldBy(r) \/ Pending(r, "create") \/ Lost(r, "create")
      BY DEF CreatedIsServed
    <2>1. Served(r)
      BY DEF ServiceInv, Promises
    <2> QED BY <2>1 DEF Served, At, NoDocument, ServiceInv, OwnDocuments
  <1> QED BY <1>1, ServiceAlways, PTL

\* A job that the service has refused is announced to no scheduler and has no document,
\* unless that was inserted by a call that failed or could not be removed again, if no
\* other job has got its name.
THEOREM RefusalsLeaveNothing == Spec => []RefusedLeavesNothing
  <1>1. ServiceInv => RefusedLeavesNothing
    <2> SUFFICES ASSUME ServiceInv, NEW r \in Creations, At(r, "refused"), ~Shared(r)
                 PROVE  /\ ~HeldBy(r) /\ ~Pending(r, "create")
                        /\ r \notin leftovers => NoDocument(r)
      BY DEF RefusedLeavesNothing, NoDocument
    <2>1. Refused(r) /\ ~At(r, "created")
      BY DEF ServiceInv, Promises, At
    <2>2. ASSUME Pending(r, "create") PROVE FALSE
      <3>1. PICK q \in Creations : At(q, "created") /\ creations[r].name = creations[q].name
        BY <2>2 DEF Pending, ServiceInv, Known, TypeOK
      <3> QED BY <2>1, <3>1, Alone DEF ServiceInv, NamesInTime, At
    <2> QED BY <2>1, <2>2 DEF Refused, Taken
  <1> QED BY <1>1, ServiceAlways, PTL

\* A job that the service has deleted has no document, and the scheduler that may have
\* it has yet to read of its deletion, if no other job has got its name and the message
\* is not lost.
THEOREM DeletionsAreDelivered == Spec => []DeletedIsDropped
  <1>1. ServiceInv => DeletedIsDropped
    BY DEF ServiceInv, Promises, Dropped, DeletedIsDropped, NoDocument
  <1> QED BY <1>1, ServiceAlways, PTL
=============================================================================
