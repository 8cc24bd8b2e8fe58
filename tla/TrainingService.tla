--------------------------- MODULE TrainingService ---------------------------
(***************************************************************************)
(* The training service (handlers.go): requests that create and delete     *)
(* training jobs, each a chain of calls to MongoDB and RabbitMQ that may   *)
(* fail, many of them at the same time, with roll backs and deletions that *)
(* find their records by the name of the job alone.                        *)
(*                                                                         *)
(* Module Scheduler has the other end of the queues in full; here the      *)
(* schedulers, one for each type of GPU, only take up and drop jobs.       *)
(***************************************************************************)
EXTENDS Naturals, Sequences, FiniteSets, SequencesExt

CONSTANTS
    Creations,    \* requests to create a job
    Deletions,    \* requests to delete a job
    Categories,   \* metadata.name in job specifications
    GpuTypes,     \* types of GPUs, each with a queue and a scheduler
    HalfDay,      \* clock readings in twelve hours
    MaxTime,      \* bound on time
    MaxFailures   \* bound on calls that fail

ASSUME RequestsAssumption == IsFiniteSet(Creations) /\ IsFiniteSet(Deletions)
ASSUME NamesAssumption == Categories # {} /\ GpuTypes # {}
ASSUME TimeAssumption == HalfDay \in Nat \ {0} /\ {MaxTime, MaxFailures} \subseteq Nat

VARIABLES
    now,
    creations,   \* how far each creation is, with its job
    deletions,   \* how far each deletion is, with its job
    infos,       \* database job_info: records of jobs, and base records of categories
    documents,   \* database job_metadata
    queues,      \* the message queue of each type of GPU
    held,        \* documents that the schedulers have taken up
    accepted,    \* documents whose Status says so
    (* history *)
    leftovers,   \* creations whose document is there although they were refused
    lost,        \* messages to each type of GPU that have no effect (any more)
    failures

broker == <<queues, lost>>
schedulers == <<held, accepted>>
vars == <<now, creations, deletions, infos, documents, broker, schedulers, leftovers, failures>>

\* What follows the category in the name of a job; nothing in that of a base record.
Name     == [category : Categories, reading : Seq(Nat)]
BaseName(category) == [category |-> category, reading |-> <<>>]
AnyName  == BaseName(CHOOSE category \in Categories : TRUE)
AnyType  == CHOOSE type \in GpuTypes : TRUE

\* Records have no key that is unique: by is the request that has inserted one.
Info     == [name : Name, by : Creations]
Document == [name : Name, GpuType : GpuTypes, by : Creations]
Message  == [verb : {"create", "delete"}, name : Name]

CreationSteps == {"idle", "find", "insertBase", "insertInfo", "insertMetadata", "publish",
                  "removeInfo", "removeMetadata", "created", "refused"}
DeletionSteps == {"idle", "remove", "publish", "deleted", "refused"}

TypeOK ==
    /\ {now, failures} \subseteq Nat
    /\ creations \in [Creations -> [step : CreationSteps, name : Name, GpuType : GpuTypes]]
    /\ deletions \in [Deletions -> [step : DeletionSteps, name : Name, GpuType : GpuTypes]]
    /\ infos \subseteq Info /\ documents \subseteq Document
    /\ held \subseteq Document /\ accepted \subseteq Document
    /\ queues \in [GpuTypes -> Seq(Message)]
    /\ leftovers \subseteq Creations
    /\ lost \in [GpuTypes -> SUBSET Message]

Init ==
    LET idle == [step |-> "idle", name |-> AnyName, GpuType |-> AnyType]
    IN /\ now = 0 /\ failures = 0
       /\ creations = [r \in Creations |-> idle]
       /\ deletions = [d \in Deletions |-> idle]
       /\ infos = {} /\ documents = {} /\ held = {} /\ accepted = {} /\ leftovers = {}
       /\ queues = [type \in GpuTypes |-> <<>>]
       /\ lost = [type \in GpuTypes |-> {}]

-----------------------------------------------------------------------------
Tick ==
    /\ now < MaxTime
    /\ now' = now + 1
    /\ UNCHANGED <<creations, deletions, infos, documents, broker, schedulers, leftovers, failures>>

\* A call to MongoDB or RabbitMQ fails.  It may have had its effect all the same:
\* where that is another outcome than success and failure, the action says so.  If
\* the service dies, its requests get no further, which Next allows at any step.
Fails == failures < MaxFailures /\ failures' = failures + 1

Succeeds == UNCHANGED failures

At(r, step) == creations[r].step = step

Goto(r, step) == creations' = [creations EXCEPT ![r].step = step]

Named(records, name) == { record \in records : record.name = name }

-----------------------------------------------------------------------------
(* CreateTrainingJob.                                                       *)

\* A user asks for a job.
Receive(r, category, type) ==
    /\ At(r, "idle")
    /\ creations' = [creations EXCEPT ![r] =
                        [step |-> "find", name |-> BaseName(category), GpuType |-> type]]
    /\ UNCHANGED <<now, deletions, infos, documents, broker, schedulers, leftovers, failures>>

\* getOrCreateBaseJobInfo, up to the answer to Find.
FindBaseInfo(r) ==
    /\ At(r, "find")
    /\ \/ /\ Succeeds
          /\ Goto(r, IF Named(infos, creations[r].name) = {} THEN "insertBase" ELSE "insertInfo")
       \/ Fails /\ Goto(r, "refused")
    /\ UNCHANGED <<now, deletions, infos, documents, broker, schedulers, leftovers>>

\* getOrCreateBaseJobInfo inserts what may have been inserted since.
InsertBaseInfo(r) ==
    /\ At(r, "insertBase")
    /\ \/ /\ Succeeds /\ Goto(r, "insertInfo")
          /\ infos' = infos \cup {[name |-> creations[r].name, by |-> r]}
       \/ /\ Fails /\ Goto(r, "refused")
          /\ infos' \in {infos, infos \cup {[name |-> creations[r].name, by |-> r]}}
    /\ UNCHANGED <<now, deletions, documents, broker, schedulers, leftovers>>

\* Format("20060102-030405"): a date, and the time on a clock of twelve hours.
Format(time) == <<time \div (2 * HalfDay), time % HalfDay>>

\* The job gets its name; NewTrainingJob may find the specification invalid.
InsertJobInfo(r) ==
    /\ At(r, "insertInfo")
    /\ LET name == [creations[r].name EXCEPT !.reading = Format(now)]
       IN \/ /\ Succeeds
             /\ creations' = [creations EXCEPT ![r].name = name, ![r].step = "insertMetadata"]
             /\ infos' = infos \cup {[name |-> name, by |-> r]}
          \/ /\ Fails /\ Goto(r, "refused")
             /\ infos' \in {infos, infos \cup {[name |-> name, by |-> r]}}
          \/ Succeeds /\ Goto(r, "refused") /\ UNCHANGED infos
    /\ UNCHANGED <<now, deletions, documents, broker, schedulers, leftovers>>

\* An error rolls nothing back, though the document may have been inserted.
InsertMetadata(r) ==
    /\ At(r, "insertMetadata")
    /\ LET document == [name |-> creations[r].name, GpuType |-> creations[r].GpuType, by |-> r]
       IN \/ /\ Succeeds /\ Goto(r, "publish")
             /\ documents' = documents \cup {document} /\ UNCHANGED leftovers
          \/ Fails /\ Goto(r, "refused") /\ UNCHANGED <<documents, leftovers>>
          \/ /\ Fails /\ Goto(r, "refused")
             /\ documents' = documents \cup {document} /\ leftovers' = leftovers \cup {r}
    /\ UNCHANGED <<now, deletions, infos, broker, schedulers>>

Lose(type, messages) == lost' = [lost EXCEPT ![type] = @ \cup messages]

\* PublishToQueue without an error.  It does not ask the broker for a confirmation:
\* the message may be lost on its way.
Publish(type, verb, name) ==
    LET m == [verb |-> verb, name |-> name]
    IN \/ /\ Succeeds
          /\ queues' = [queues EXCEPT ![type] = Append(@, m)]
          /\ UNCHANGED lost
       \/ Fails /\ Lose(type, {m}) /\ UNCHANGED queues

\* Mutant: a failed publication does not lead to the roll back.
RollsBackNot == "refused"

RollsBack == "removeInfo"

PublishCreation(r) ==
    /\ At(r, "publish")
    /\ \/ Goto(r, "created") /\ Publish(creations[r].GpuType, "create", creations[r].name)
       \/ Fails /\ Goto(r, RollsBack) /\ UNCHANGED broker
    /\ UNCHANGED <<now, deletions, infos, documents, schedulers, leftovers>>

\* Mutant: any record of the category is removed.
RemoveOneOfCategory(records, rest, name) ==
    LET found == { record \in records : record.name.category = name.category }
    IN IF found = {} THEN rest = records ELSE \E record \in found : rest = records \ {record}

\* Remove: one of the records of that name, if there is one.
RemoveOne(records, rest, name) ==
    IF Named(records, name) = {} THEN rest = records
    ELSE \E record \in Named(records, name) : rest = records \ {record}

\* The roll back goes on after a removal that fails, or that finds nothing.
RemoveInfo(r) ==
    /\ At(r, "removeInfo")
    /\ \/ Succeeds /\ RemoveOne(infos, infos', creations[r].name)
       \/ Fails /\ UNCHANGED infos
    /\ Goto(r, "removeMetadata")
    /\ UNCHANGED <<now, deletions, documents, broker, schedulers, leftovers>>

RemoveMetadata(r) ==
    /\ At(r, "removeMetadata")
    /\ \/ /\ Succeeds /\ RemoveOne(documents, documents', creations[r].name)
          /\ UNCHANGED leftovers
       \/ Fails /\ leftovers' = leftovers \cup {r} /\ UNCHANGED documents
    /\ Goto(r, "refused")
    /\ UNCHANGED <<now, deletions, infos, broker, schedulers>>

-----------------------------------------------------------------------------
(* DeleteTrainingJob.                                                       *)

\* A user asks to delete a job that has been created, and Find gets a document of
\* that name.
FindDocument(d, name) ==
    /\ deletions[d].step = "idle"
    /\ \/ /\ Succeeds
          /\ \E document \in Named(documents, name) :
                deletions' = [deletions EXCEPT ![d] =
                    [step |-> "remove", name |-> name, GpuType |-> document.GpuType]]
       \/ /\ Fails \/ (Succeeds /\ Named(documents, name) = {})
          /\ deletions' = [deletions EXCEPT ![d] =
                    [step |-> "refused", name |-> name, GpuType |-> AnyType]]
    /\ UNCHANGED <<now, creations, infos, documents, broker, schedulers, leftovers>>

\* Another request may have removed the document since, and the call may have done
\* so before it fails.
RemoveDocument(d) ==
    /\ deletions[d].step = "remove"
    /\ \/ /\ Succeeds /\ Named(documents, deletions[d].name) # {}
          /\ RemoveOne(documents, documents', deletions[d].name)
          /\ deletions' = [deletions EXCEPT ![d].step = "publish"]
       \/ /\ Succeeds /\ Named(documents, deletions[d].name) = {}
          /\ deletions' = [deletions EXCEPT ![d].step = "refused"]
          /\ UNCHANGED documents
       \/ /\ Fails
          /\ deletions' = [deletions EXCEPT ![d].step = "refused"]
          /\ UNCHANGED documents \/ RemoveOne(documents, documents', deletions[d].name)
    /\ UNCHANGED <<now, creations, infos, broker, schedulers, leftovers>>

\* Mutant: the message goes to another queue.
QueueOfOther(d) == CHOOSE type \in GpuTypes : type # deletions[d].GpuType

QueueOf(d) == deletions[d].GpuType

\* Nothing is rolled back here.
PublishDeletion(d) ==
    /\ deletions[d].step = "publish"
    /\ \/ /\ deletions' = [deletions EXCEPT ![d].step = "deleted"]
          /\ Publish(QueueOf(d), "delete", deletions[d].name)
       \/ Fails /\ deletions' = [deletions EXCEPT ![d].step = "refused"] /\ UNCHANGED broker
    /\ UNCHANGED <<now, creations, infos, documents, schedulers, leftovers>>

-----------------------------------------------------------------------------
Of(records, type) == { document \in records : document.GpuType = type }

\* The scheduler of a type of GPU takes a message, which it will not see again.  It
\* looks up its document by name and type, takes it up and updates its Status, or
\* drops the job.  If the document cannot be read the job is forgotten; if the
\* update fails the job is held all the same.
Take(type) ==
    /\ queues[type] # <<>>
    /\ queues' = [queues EXCEPT ![type] = Tail(@)]
    /\ LET m    == Head(queues[type])
           own  == Of(Named(documents, m.name), type)
           mine == Of(Named(held, m.name), type)
       IN \/ /\ m.verb = "create" /\ own # {} /\ mine = {}
             /\ \E document \in own :
                   /\ held' = held \cup {document}
                   /\ \/ Succeeds /\ accepted' = accepted \cup {document}
                      \/ Fails /\ UNCHANGED accepted
             /\ UNCHANGED lost
          \/ /\ m.verb = "create" /\ mine = {}
             /\ Fails /\ Lose(type, {m}) /\ UNCHANGED schedulers
          \/ /\ m.verb = "create" /\ (own = {} \/ mine # {})
             /\ Succeeds /\ UNCHANGED <<schedulers, lost>>
          \/ /\ m.verb = "delete" /\ held' = held \ mine
             /\ Succeeds /\ UNCHANGED <<accepted, lost>>
    /\ UNCHANGED <<now, creations, deletions, infos, documents, leftovers>>

\* When the job is done the scheduler updates its document again.
UpdateDocument(document) ==
    /\ document \in held \cap documents
    /\ accepted' = accepted \cup {document}
    /\ UNCHANGED <<now, creations, deletions, infos, documents, broker, held, leftovers, failures>>

\* The scheduler of a type of GPU dies and starts again.  The messages that have
\* been delivered to it are lost, and so are the jobs it has not saved: it holds
\* the accepted documents that are still there.
RestartScheduler(type) ==
    /\ Fails
    /\ held' = (held \ Of(held, type)) \cup Of(accepted \cap documents, type)
    /\ \E n \in 0..Len(queues[type]) :
          /\ queues' = [queues EXCEPT ![type] = SubSeq(@, n + 1, Len(@))]
          /\ Lose(type, Range(SubSeq(queues[type], 1, n)) \cup
                       { [verb |-> "create", name |-> document.name] : document \in held \ held' })
    /\ UNCHANGED <<now, creations, deletions, infos, documents, accepted, leftovers>>

Create(r) ==
    \/ FindBaseInfo(r) \/ InsertBaseInfo(r) \/ InsertJobInfo(r) \/ InsertMetadata(r)
    \/ PublishCreation(r) \/ RemoveInfo(r) \/ RemoveMetadata(r)

Delete(d) == RemoveDocument(d) \/ PublishDeletion(d)

Next ==
    \/ Tick
    \/ \E r \in Creations : Create(r)
    \/ \E r \in Creations, category \in Categories, type \in GpuTypes : Receive(r, category, type)
    \/ \E d \in Deletions : Delete(d)
    \/ \E d \in Deletions, r \in Creations : At(r, "created") /\ FindDocument(d, creations[r].name)
    \/ \E type \in GpuTypes : Take(type) \/ RestartScheduler(type)
    \/ \E document \in held : UpdateDocument(document)

Spec == Init /\ [][Next]_vars

-----------------------------------------------------------------------------
\* Another request has given its job the same name: in the same second, or twelve
\* hours earlier or later on the same day.
Shared(r) ==
    \E q \in Creations \ {r} :
        creations[q].name = creations[r].name /\ creations[r].name.reading # <<>>

DeletionOf(r) == { d \in Deletions : deletions[d].step # "idle" /\ deletions[d].name = creations[r].name }

Pending(r, verb) ==
    [verb |-> verb, name |-> creations[r].name] \in Range(queues[creations[r].GpuType])

HeldBy(r) == \E document \in held : document.by = r

Lost(r, verb) == [verb |-> verb, name |-> creations[r].name] \in lost[creations[r].GpuType]

\* A job whose user has been told of its creation is not lost, whatever other
\* requests are rolled back: as long as nobody deletes it, it has its document and
\* the record that the allocator reads, and its scheduler has it or a message
\* about it.  It is broken only by a job of the same name, and by the ways to lose
\* a message: on its way to the broker, with the scheduler it was delivered to,
\* by a scheduler that could not read the document, or by one that could not
\* update it and died.
CreatedIsServed ==
    \A r \in Creations :
        At(r, "created") /\ ~Shared(r) /\ DeletionOf(r) = {} =>
            /\ \E document \in documents :
                  document.by = r /\ document.GpuType = creations[r].GpuType
            /\ Named(infos, creations[r].name) # {}
            /\ HeldBy(r) \/ Pending(r, "create") \/ Lost(r, "create")

\* A job whose user has been told of an error is not there: no scheduler has it or
\* a message about it, crash or not, and its document is gone, unless its insertion
\* took effect and failed, or its removal failed after the publication had.
RefusedLeavesNothing ==
    \A r \in Creations :
        At(r, "refused") /\ ~Shared(r) =>
            /\ ~HeldBy(r) /\ ~Pending(r, "create")
            /\ r \notin leftovers => \A document \in documents : document.by # r

\* A job whose user has been told of its deletion has no document, and its
\* scheduler drops it when it comes to the message, unless the message is lost; a
\* second deletion at the same time does not matter.
DeletedIsDropped ==
    \A r \in Creations : \A d \in DeletionOf(r) :
        deletions[d].step = "deleted" /\ ~Shared(r) =>
            /\ \A document \in documents : document.by # r
            /\ HeldBy(r) => Pending(r, "delete") \/ Lost(r, "delete")
=============================================================================
