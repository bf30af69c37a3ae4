--------------------------- MODULE ChannelLifecycle ---------------------------
(***************************************************************************)
(* How a channel comes to be and goes away: Producer::Create, which makes  *)
(* a segment, initialises the layout and writes the coordination file;     *)
(* Consumer::Attach, which reads the file and opens the segment it names;  *)
(* the clean-up of both, the failure of any step and the death of either   *)
(* process.  The messages are in module PhoenixChannel.                    *)
(*                                                                         *)
(* A segment outlives its name as long as somebody has it mapped, and a    *)
(* name can be given to another segment: they are kept apart.  A segment   *)
(* is identified with the producer that created it.  Sizes and capacities  *)
(* are the defaults everywhere.                                            *)
(***************************************************************************)
EXTENDS Naturals

CONSTANTS
    Producers,  \* Producer objects; each is created once
    Consumers,  \* consumer processes; each has one Consumer at a time
    Processes,  \* producer processes: what getpid() returns
    ProcOf,     \* the process of each producer
    Paths,      \* coordination files
    MaxTime,    \* bound on the clock
    NoSegment,  \* no segment, no file
    NoPid       \* the pid 0

ASSUME ProcOfAssumption == ProcOf \in [Producers -> Processes]
ASSUME NoSegmentAssumption == NoSegment \notin Producers
ASSUME ProcessesAssumption == Processes # {} /\ NoPid \notin Processes
ASSUME PathsAssumption == Paths # {}
ASSUME MaxTimeAssumption == MaxTime \in Nat

Seconds == 0 .. MaxTime
Names == Processes \X Seconds       \* "/phoenix_ipc_<pid>_<time>"

VARIABLES
    clock,     \* time(nullptr)
    linked,    \* /dev/shm: the segment each name stands for
    segment,   \* the header of each segment
    file,      \* each coordination file: the producer whose metadata it holds
    producer,  \* the Producer objects
    consumer,  \* the Consumer objects
    read       \* history: the names a consumer has read in a coordination file

vars == <<clock, linked, segment, file, producer, consumer, read>>

Segment == [sized : BOOLEAN,                 \* ftruncate has given it its size
            valid : BOOLEAN,                 \* what IsValid() looks at
            pid   : Processes \cup {NoPid}]  \* producer_pid

Producer == [pc   : {"new", "named", "opened", "sized", "zeroed", "typed", "laid out",
                     "valid", "closed", "dead", "never"},
             path : Paths,                    \* coord_file_path
             name : Names,                    \* shm_name
             seg  : Producers \cup {NoSegment}] \* shm_fd, shm_addr

Consumer == [pc   : {"detached", "read", "opened", "checked", "attached", "unlinking"},
             name : Names,
             seg  : Producers \cup {NoSegment},
             pid  : Processes \cup {NoPid}]   \* producer_pid

TypeOK ==
    /\ clock \in Seconds
    /\ linked \in [Names -> Producers \cup {NoSegment}]
    /\ segment \in [Producers -> Segment]
    /\ file \in [Paths -> Producers \cup {NoSegment}]
    /\ producer \in [Producers -> Producer]
    /\ consumer \in [Consumers -> Consumer]
    /\ read \subseteq Names

AnyName == CHOOSE n \in Names : TRUE
Blank == [sized |-> FALSE, valid |-> FALSE, pid |-> NoPid]
Detached == [pc |-> "detached", name |-> AnyName, seg |-> NoSegment, pid |-> NoPid]

Init ==
    /\ clock = 0
    /\ linked = [n \in Names |-> NoSegment]
    /\ segment = [s \in Producers |-> Blank]
    /\ file = [p \in Paths |-> NoSegment]
    /\ producer = [q \in Producers |->
           [pc |-> "new", path |-> CHOOSE p \in Paths : TRUE, name |-> AnyName,
            seg |-> NoSegment]]
    /\ consumer = [c \in Consumers |-> Detached]
    /\ read = {}

Tick ==
    /\ clock < MaxTime
    /\ clock' = clock + 1
    /\ UNCHANGED <<linked, segment, file, producer, consumer, read>>

----------------------------------------------------------------------------
\* Producer::Create

\* Slip: the name does not say which process it is.
GenerateShmNameOfAnyone(q) == <<CHOOSE p \in Processes : TRUE, clock>>

GenerateShmName(q) == <<ProcOf[q], clock>>

ProducerTo(q, pc) == producer' = [producer EXCEPT ![q].pc = pc]

\* Initialize takes the path and generates the name.
CreateStart(q, path) ==
    /\ producer[q].pc = "new"
    /\ producer' = [producer EXCEPT ![q].pc = "named", ![q].path = path,
                                    ![q].name = GenerateShmName(q)]
    /\ UNCHANGED <<clock, linked, segment, file, consumer, read>>

\* shm_open with O_CREAT and without O_EXCL: an existing segment is opened.
OpenSegment(q) ==
    LET name == producer[q].name
    IN  /\ producer[q].pc = "named"
        /\ linked' = IF linked[name] = NoSegment THEN [linked EXCEPT ![name] = q] ELSE linked
        /\ producer' = [producer EXCEPT ![q].pc = "opened", ![q].seg = linked'[name]]
        /\ UNCHANGED <<clock, segment, file, consumer, read>>

\* ftruncate and mmap
SizeSegment(q) ==
    /\ producer[q].pc = "opened"
    /\ segment' = [segment EXCEPT ![producer[q].seg].sized = TRUE]
    /\ ProducerTo(q, "sized")
    /\ UNCHANGED <<clock, linked, file, consumer, read>>

\* new (address) SimplifiedShmLayout() clears the header and the indices.
ZeroLayout(q) ==
    /\ producer[q].pc = "sized"
    /\ segment' = [segment EXCEPT ![producer[q].seg].valid = FALSE,
                                  ![producer[q].seg].pid = NoPid]
    /\ ProducerTo(q, "zeroed")
    /\ UNCHANGED <<clock, linked, file, consumer, read>>

\* Initialize of the layout stores magic, version, size and capacity ...
TypeLayout(q) ==
    /\ producer[q].pc = "zeroed"
    /\ segment' = [segment EXCEPT ![producer[q].seg].valid = TRUE]
    /\ ProducerTo(q, "typed")
    /\ UNCHANGED <<clock, linked, file, consumer, read>>

\* Slip: the creation time lands in the field of the pid.
OwnLayoutWithTime(q) ==
    /\ producer[q].pc = "typed"
    /\ segment' = [segment EXCEPT ![producer[q].seg].pid = clock]
    /\ ProducerTo(q, "laid out")
    /\ UNCHANGED <<clock, linked, file, consumer, read>>

\* ... and then the pid.  It cannot refuse the size CalculateSize returned.
OwnLayout(q) ==
    /\ producer[q].pc = "typed"
    /\ segment' = [segment EXCEPT ![producer[q].seg].pid = ProcOf[q]]
    /\ ProducerTo(q, "laid out")
    /\ UNCHANGED <<clock, linked, file, consumer, read>>

\* Slip: the coordination file is written before the pid is.
PublishTooEarly(q) ==
    /\ producer[q].pc \in {"typed", "laid out"}
    /\ file' = [file EXCEPT ![producer[q].path] = q]
    /\ ProducerTo(q, "valid")
    /\ UNCHANGED <<clock, linked, segment, consumer, read>>

\* CoordinationFile::Create: nobody sees the temporary file, the rename puts the
\* complete one in place of whatever was there.  valid = true.
Publish(q) ==
    /\ producer[q].pc = "laid out"
    /\ file' = [file EXCEPT ![producer[q].path] = q]
    /\ ProducerTo(q, "valid")
    /\ UNCHANGED <<clock, linked, segment, consumer, read>>

\* Slip: Cleanup does not delete the coordination file.
CleanupKeepsFile(q) ==
    /\ producer' = [producer EXCEPT ![q].pc = "closed", ![q].seg = NoSegment]
    /\ UNCHANGED <<clock, linked, segment, file, consumer, read>>

\* Slip: Cleanup unlinks the segment as well.
CleanupUnlinks(q) ==
    /\ file' = [file EXCEPT ![producer[q].path] = NoSegment]
    /\ linked' = [linked EXCEPT ![producer[q].name] = NoSegment]
    /\ producer' = [producer EXCEPT ![q].pc = "closed", ![q].seg = NoSegment]
    /\ UNCHANGED <<clock, segment, consumer, read>>

\* Cleanup of the producer: the file at its path is deleted, whoever's it is; the
\* segment is unmapped and its name is left to the consumer.
Cleanup(q) ==
    /\ file' = [file EXCEPT ![producer[q].path] = NoSegment]
    /\ producer' = [producer EXCEPT ![q].pc = "closed", ![q].seg = NoSegment]
    /\ UNCHANGED <<clock, linked, segment, consumer, read>>

\* A system call of Create fails: shm_open, ftruncate, mmap, or one of mkstemp,
\* write and rename.  Create drops the object, whose destructor cleans up.
CreateFails(q) ==
    /\ producer[q].pc \in {"named", "opened", "sized", "laid out"}
    /\ Cleanup(q)

\* The Producer is destroyed.
CloseProducer(q) ==
    /\ producer[q].pc = "valid"
    /\ Cleanup(q)

\* A producer process dies, and every Producer in it; the others never come.
ProcessDies(p) ==
    /\ \E q \in Producers : ProcOf[q] = p /\ producer[q].pc \notin {"new", "closed", "dead", "never"}
    /\ producer' = [q \in Producers |->
           IF ProcOf[q] = p
           THEN [producer[q] EXCEPT !.pc = CASE @ = "new" -> "never"
                                             [] @ \in {"closed", "never"} -> @
                                             [] OTHER -> "dead",
                                    !.seg = NoSegment]
           ELSE producer[q]]
    /\ UNCHANGED <<clock, linked, segment, file, consumer, read>>

----------------------------------------------------------------------------
\* Consumer::Attach

ConsumerTo(c, pc) == consumer' = [consumer EXCEPT ![c].pc = pc]

\* CoordinationFile::Read.  Without a file Attach returns nullptr and nothing
\* has changed; the timeout is not used.
ReadFile(c, path) ==
    /\ consumer[c].pc = "detached"
    /\ file[path] # NoSegment
    /\ LET name == producer[file[path]].name
       IN  /\ consumer' = [consumer EXCEPT ![c].pc = "read", ![c].name = name]
           /\ read' = read \cup {name}
    /\ UNCHANGED <<clock, linked, segment, file, producer>>

\* shm_open without O_CREAT, and mmap.  Either can fail, shm_open must without
\* the name.
OpenNamed(c) ==
    LET seg == linked[consumer[c].name]
    IN  /\ consumer[c].pc = "read"
        /\ seg # NoSegment
        /\ consumer' = [consumer EXCEPT ![c].pc = "opened", ![c].seg = seg]
        /\ UNCHANGED <<clock, linked, segment, file, producer, read>>

OpenFails(c) ==
    /\ consumer[c].pc = "read"
    /\ ConsumerTo(c, "unlinking")
    /\ UNCHANGED <<clock, linked, segment, file, producer, read>>

\* SimplifiedShmLayoutFactory::Get
GetLayout(c) ==
    /\ consumer[c].pc = "opened" /\ segment[consumer[c].seg].sized
    /\ consumer' = [consumer EXCEPT
           ![c].pc = IF segment[consumer[c].seg].valid THEN "checked" ELSE "unlinking",
           ![c].seg = IF segment[consumer[c].seg].valid THEN @ ELSE NoSegment]
    /\ UNCHANGED <<clock, linked, segment, file, producer, read>>

\* There is nothing behind the mapping yet: the process dies of SIGBUS.
GetLayoutFaults(c) ==
    /\ consumer[c].pc = "opened" /\ ~segment[consumer[c].seg].sized
    /\ consumer' = [consumer EXCEPT ![c] = Detached]
    /\ UNCHANGED <<clock, linked, segment, file, producer, read>>

\* Slip: producer_pid keeps its initial value.
AttachReturnsPidForgotten(c) ==
    /\ consumer[c].pc = "checked"
    /\ ConsumerTo(c, "attached")
    /\ UNCHANGED <<clock, linked, segment, file, producer, read>>

\* producer_pid is taken from the layout; valid = true.
AttachReturns(c) ==
    /\ consumer[c].pc = "checked"
    /\ consumer' = [consumer EXCEPT ![c].pc = "attached",
                                    ![c].pid = segment[consumer[c].seg].pid]
    /\ UNCHANGED <<clock, linked, segment, file, producer, read>>

\* Cleanup of the consumer, on request or from the destructor: unmapped, not yet
\* unlinked.
CloseConsumer(c) ==
    /\ consumer[c].pc = "attached"
    /\ consumer' = [consumer EXCEPT ![c].pc = "unlinking", ![c].seg = NoSegment,
                                    ![c].pid = NoPid]
    /\ UNCHANGED <<clock, linked, segment, file, producer, read>>

\* Slip: the coordination file goes with the segment.
UnlinkWithFile(c) ==
    /\ consumer[c].pc = "unlinking"
    /\ linked' = [linked EXCEPT ![consumer[c].name] = NoSegment]
    /\ file' = [p \in Paths |->
           IF file[p] # NoSegment /\ producer[file[p]].name = consumer[c].name
           THEN NoSegment ELSE file[p]]
    /\ consumer' = [consumer EXCEPT ![c] = Detached]
    /\ UNCHANGED <<clock, segment, producer, read>>

\* shm_unlink of the name that was read, whatever it stands for by now.  Also
\* after an Attach that failed.
Unlink(c) ==
    /\ consumer[c].pc = "unlinking"
    /\ linked' = [linked EXCEPT ![consumer[c].name] = NoSegment]
    /\ consumer' = [consumer EXCEPT ![c] = Detached]
    /\ UNCHANGED <<clock, segment, file, producer, read>>

\* The consumer process dies; another one takes its place.
ConsumerDies(c) ==
    /\ consumer[c].pc # "detached"
    /\ consumer' = [consumer EXCEPT ![c] = Detached]
    /\ UNCHANGED <<clock, linked, segment, file, producer, read>>

----------------------------------------------------------------------------
ProducerStep(q) ==
    \/ \E path \in Paths : CreateStart(q, path)
    \/ OpenSegment(q) \/ SizeSegment(q) \/ ZeroLayout(q) \/ TypeLayout(q)
    \/ OwnLayout(q) \/ Publish(q)
    \/ CreateFails(q) \/ CloseProducer(q)

ConsumerStep(c) ==
    \/ \E path \in Paths : ReadFile(c, path)
    \/ OpenNamed(c) \/ OpenFails(c) \/ GetLayout(c) \/ GetLayoutFaults(c)
    \/ AttachReturns(c) \/ CloseConsumer(c) \/ Unlink(c) \/ ConsumerDies(c)

Next ==
    \/ Tick
    \/ \E q \in Producers : ProducerStep(q)
    \/ \E p \in Processes : ProcessDies(p)
    \/ \E c \in Consumers : ConsumerStep(c)

Spec == Init /\ [][Next]_vars

----------------------------------------------------------------------------
\* Create was called for q.
Begun(q) == producer[q].pc \notin {"new", "never"}

\* q and another producer were given the same name.
HasTwin(q) == \E r \in Producers \ {q} : Begun(r) /\ producer[r].name = producer[q].name

(***************************************************************************)
(* "Unique shm name with PID and timestamp" (coordination_file.hpp:123) is *)
(* not unique: shm_open lacks O_EXCL (phoenix_producer.cpp:49), and a      *)
(* second producer clears the layout of the first.  But only one of the    *)
(* same process and the same second can do so.                             *)
(***************************************************************************)
SegmentsSharedOnlyByTwins ==
    \A q, r \in Producers :
        producer[q].seg # NoSegment /\ producer[q].seg = producer[r].seg
            => producer[q].name = producer[r].name /\ ProcOf[q] = ProcOf[r]

(***************************************************************************)
(* The coordination file is written last (phoenix_producer.cpp:91), so     *)
(* that whoever reads it and opens the segment finds the complete layout   *)
(* of that producer.  A twin breaks this: it clears the layout, or creates *)
(* it again, under a name that is already in a file.                       *)
(***************************************************************************)
PublishedIsComplete ==
    \A path \in Paths : LET q == file[path] IN
        q # NoSegment => LET s == linked[producer[q].name] IN
            s = NoSegment \/ HasTwin(q) \/
                segment[s] = [sized |-> TRUE, valid |-> TRUE, pid |-> ProcOf[q]]

(***************************************************************************)
(* An attached consumer watches the process whose segment it has mapped    *)
(* (phoenix_consumer.cpp:75).  With a pid of 0 it would take its producer  *)
(* for dead for ever (line 81) and receive nothing: that takes an Attach   *)
(* that overlaps the Create of a twin.                                     *)
(***************************************************************************)
AttachedWatchesOwner ==
    \A c \in Consumers : consumer[c].pc = "attached" =>
        LET s == consumer[c].seg IN
        /\ producer[s].name = consumer[c].name
        /\ consumer[c].pid = ProcOf[s] \/ (consumer[c].pid = NoPid /\ HasTwin(s))

(***************************************************************************)
(* What a producer leaves behind: one that was destroyed, or that failed   *)
(* to come about, has no coordination file.  A file without a live         *)
(* producer is that of a process which died (phoenix_producer.cpp:107).    *)
(***************************************************************************)
StaleFilesAreOfTheDead ==
    \A path \in Paths : file[path] # NoSegment =>
        /\ producer[file[path]].pc \in {"valid", "dead"}
        /\ producer[file[path]].path = path

(***************************************************************************)
(* Cleanup deletes the file by its path, without a look at whose it is     *)
(* (phoenix_producer.cpp:107), also after a Create that failed: a live     *)
(* producer can lose its file and become unreachable.  Nothing but another *)
(* producer on the same path does that; no consumer does.                  *)
(***************************************************************************)
LostFilesWereContested ==
    \A q \in Producers :
        producer[q].pc = "valid" /\ file[producer[q].path] # q
            => \E r \in Producers \ {q} :
                   /\ producer[r].path = producer[q].path
                   /\ producer[r].pc \in {"valid", "closed", "dead"}

(***************************************************************************)
(* A producer leaves the unlinking to "the consumer when it's done"        *)
(* (phoenix_producer.cpp:124).  A valid producer whose segment has lost    *)
(* its name, so that nobody can attach again, was read of in a file by a   *)
(* consumer: one that finished, or that merely failed to attach.           *)
(***************************************************************************)
UnlinkedWasRead ==
    \A q \in Producers :
        producer[q].pc = "valid" /\ linked[producer[q].name] # producer[q].seg
            => producer[q].name \in read
=============================================================================
