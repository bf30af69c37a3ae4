------------------------ MODULE ChannelLifecycleProofs ------------------------
(***************************************************************************)
(* The safety properties of module ChannelLifecycle for all sets of        *)
(* producers, processes, consumers and paths.  The invariants form a       *)
(* ladder: each is inductive given those before it.                        *)
(***************************************************************************)
EXTENDS ChannelLifecycle, TLAPS

Holding == {"opened", "sized", "zeroed", "typed", "laid out", "valid"}

(* A producer has the name of its process, and maps the segment of a       *)
(* producer with the same name, from shm_open to Cleanup.                  *)
ProducerShape ==
    \A q \in Producers :
        /\ producer[q].seg # NoSegment <=> producer[q].pc \in Holding
        /\ Begun(q) => producer[q].name[1] = ProcOf[q]
        /\ producer[q].seg # NoSegment =>
               /\ Begun(producer[q].seg)
               /\ producer[producer[q].seg].name = producer[q].name

(* A name stands for a segment whose producer has it.                      *)
LinkedShape ==
    \A n \in Names : linked[n] # NoSegment =>
        Begun(linked[n]) /\ producer[linked[n]].name = n

(* A consumer has read the name it works on, of a producer that had it;    *)
(* the segment it maps is the one of a producer with that name.            *)
ConsumerShape ==
    \A c \in Consumers :
        /\ consumer[c].seg # NoSegment <=> consumer[c].pc \in {"opened", "checked", "attached"}
        /\ consumer[c].pc # "detached" => consumer[c].name \in read
        /\ consumer[c].seg # NoSegment =>
               /\ Begun(consumer[c].seg)
               /\ producer[consumer[c].seg].name = consumer[c].name

(* Every name that was read was given to somebody.                         *)
ReadShape == \A n \in read : \E q \in Producers : Begun(q) /\ producer[q].name = n

Shape == /\ TypeOK /\ ProducerShape /\ LinkedShape /\ ConsumerShape
         /\ StaleFilesAreOfTheDead /\ ReadShape

Complete(q) == segment[q].sized /\ segment[q].valid /\ segment[q].pid = ProcOf[q]

(* No segment is anybody else's.                                           *)
PidsAreOwners == \A s \in Producers : segment[s].pid \in {NoPid, ProcOf[s]}

(* How far the layout of a producer without a twin has come.               *)
Progress ==
    \A q \in Producers : ~HasTwin(q) =>
        /\ producer[q].pc \in Holding \ {"opened"} => segment[q].sized
        /\ producer[q].pc \in {"typed", "laid out", "valid"} => segment[q].valid
        /\ producer[q].pc \in {"laid out", "valid"} => segment[q].pid = ProcOf[q]

(* What is in a file is complete, and stays so when its producer has died. *)
FilesComplete ==
    \A path \in Paths : LET q == file[path] IN
        q # NoSegment => HasTwin(q) \/ Complete(q)

(* The same of a name that was read, also after the file was deleted.      *)
ReadsComplete ==
    \A s \in Producers : Begun(s) /\ producer[s].name \in read =>
        HasTwin(s) \/ (Complete(s) /\ producer[s].pc \in {"valid", "closed", "dead"})

(* A segment that lost its name was read of, from the moment it is mapped. *)
MappedUnlinkedWasRead ==
    \A q \in Producers :
        producer[q].seg # NoSegment /\ linked[producer[q].name] # producer[q].seg
            => producer[q].name \in read
-----------------------------------------------------------------------------
(* What a step can do to each part of the state, for all actions at once.  *)
(* The invariants below follow from these facts and never look at an       *)
(* action again.                                                           *)

ProducerMoves(q) ==
    LET old == producer[q]  new == producer'[q] IN
    \/ new = old
    \/ old.pc \in {"new", "never"} /\ new.pc = "never" /\ new.seg = old.seg
    \/ /\ old.pc = "new" /\ new.pc = "named" /\ new.seg = old.seg
       /\ new.name[1] = ProcOf[q]
    \/ /\ Begun(q) /\ new.name = old.name /\ new.path = old.path
       /\ \/ /\ old.pc = "named" /\ new.pc = "opened"
             /\ new.seg = linked'[old.name] /\ new.seg # NoSegment
          \/ /\ new.seg = old.seg
             /\ \/ old.pc = "opened" /\ new.pc = "sized"  /\ segment'[old.seg].sized
                \/ old.pc = "sized"  /\ new.pc = "zeroed"
                \/ old.pc = "zeroed" /\ new.pc = "typed"  /\ segment'[old.seg].valid
                \/ old.pc = "typed"  /\ new.pc = "laid out"
                       /\ segment'[old.seg].pid = ProcOf[q]
                \/ old.pc = "laid out" /\ new.pc = "valid" /\ file'[old.path] = q
          \/ /\ new.seg = NoSegment
             /\ \/ new.pc = "dead"
                \/ new.pc = "closed" /\ (old.pc = "closed" \/ file'[old.path] = NoSegment)

SegmentMoves(s) ==
    LET old == segment[s]  new == segment'[s] IN
    \/ new = old
    \/ \E q \in Producers :
           /\ producer[q].seg = s /\ producer[q].pc # "valid"
           /\ \/ new.sized /\ new.valid = old.valid /\ new.pid = old.pid
              \/ /\ producer[q].pc = "sized" /\ producer'[q].pc = "zeroed"
                 /\ new.sized = old.sized /\ new.pid = NoPid
              \/ new.sized = old.sized /\ new.valid /\ new.pid = old.pid
              \/ new.sized = old.sized /\ new.valid = old.valid /\ new.pid = ProcOf[q]

FileMoves(path) ==
    \/ file'[path] = file[path]
    \/ \E q \in Producers :
           /\ producer[q].path = path
           /\ \/ producer[q].pc = "laid out" /\ producer'[q].pc = "valid" /\ file'[path] = q
              \/ Begun(q) /\ producer'[q].pc = "closed" /\ file'[path] = NoSegment

LinkedMoves(n) ==
    \/ linked'[n] = linked[n]
    \/ /\ linked[n] = NoSegment
       /\ \E q \in Producers : /\ producer[q].pc = "named" /\ producer'[q].pc = "opened"
                               /\ producer[q].name = n /\ linked'[n] = q
    \/ linked'[n] = NoSegment /\ n \in read

ConsumerMoves(c) ==
    LET old == consumer[c]  new == consumer'[c] IN
    \/ new = old
    \/ new.pc = "detached" /\ new.seg = NoSegment
    \/ /\ old.pc = "detached" /\ new.pc = "read" /\ new.seg = old.seg
       /\ new.name \in read'
    \/ /\ old.pc # "detached" /\ new.name = old.name
       /\ \/ /\ old.pc = "read" /\ new.pc = "opened"
             /\ new.seg = linked[old.name] /\ new.seg # NoSegment
          \/ old.pc = "opened" /\ new.pc = "checked" /\ new.seg = old.seg
          \/ /\ old.pc = "checked" /\ new.pc = "attached" /\ new.seg = old.seg
             /\ new.pid = segment[old.seg].pid
          \/ new.pc = "unlinking" /\ new.seg = NoSegment

ReadMoves ==
    /\ read \subseteq read'
    /\ \A n \in read' \ read : \E path \in Paths :
           file[path] # NoSegment /\ producer[file[path]].name = n

Moves ==
    /\ \A q \in Producers : ProducerMoves(q)
    /\ \A s \in Producers : SegmentMoves(s)
    /\ \A path \in Paths : FileMoves(path)
    /\ \A n \in Names : LinkedMoves(n)
    /\ \A c \in Consumers : ConsumerMoves(c)
    /\ ReadMoves

(* What stays the same has not moved.                                      *)
LEMMA Unmoved ==
    /\ producer' = producer => \A q \in Producers : ProducerMoves(q)
    /\ segment' = segment => \A s \in Producers : SegmentMoves(s)
    /\ file' = file => \A path \in Paths : FileMoves(path)
    /\ linked' = linked => \A n \in Names : LinkedMoves(n)
    /\ consumer' = consumer => \A c \in Consumers : ConsumerMoves(c)
    /\ read' = read => ReadMoves
<1>1. producer' = producer => \A q \in Producers : ProducerMoves(q)
  BY DEF ProducerMoves
<1>2. segment' = segment => \A s \in Producers : SegmentMoves(s)
  BY DEF SegmentMoves
<1>3. file' = file => \A path \in Paths : FileMoves(path)
  BY DEF FileMoves
<1>4. linked' = linked => \A n \in Names : LinkedMoves(n)
  BY DEF LinkedMoves
<1>5. consumer' = consumer => \A c \in Consumers : ConsumerMoves(c)
  BY DEF ConsumerMoves
<1>6. read' = read => ReadMoves
  BY DEF ReadMoves
<1> QED
  BY <1>1, <1>2, <1>3, <1>4, <1>5, <1>6

(* A step of one producer leaves the others where they are.                *)
LEMMA OthersUnmoved ==
    ASSUME NEW q \in Producers, ProducerMoves(q),
           \A r \in Producers \ {q} : producer'[r] = producer[r]
    PROVE  \A r \in Producers : ProducerMoves(r)
<1>1. ASSUME NEW r \in Producers \ {q} PROVE ProducerMoves(r)
  BY <1>1 DEF ProducerMoves
<1> QED
  BY <1>1

(* A step that only moves the program counter of a producer.               *)
LEMMA ProducerToFields ==
    ASSUME TypeOK, NEW q \in Producers, NEW pc, ProducerTo(q, pc)
    PROVE  /\ producer'[q].pc = pc
           /\ producer'[q].seg = producer[q].seg
           /\ producer'[q].name = producer[q].name
           /\ producer'[q].path = producer[q].path
           /\ \A r \in Producers \ {q} : producer'[r] = producer[r]
  BY DEF TypeOK, Producer, ProducerTo

(* The same of a consumer.                                                 *)
LEMMA ConsumerToFields ==
    ASSUME TypeOK, NEW c \in Consumers, NEW pc, ConsumerTo(c, pc)
    PROVE  /\ consumer'[c].pc = pc
           /\ consumer'[c].seg = consumer[c].seg
           /\ consumer'[c].name = consumer[c].name
           /\ \A d \in Consumers \ {c} : consumer'[d] = consumer[d]
  BY DEF TypeOK, Consumer, ConsumerTo

(* The fields have the types of TypeOK.                                    *)
LEMMA FieldTypes ==
    ASSUME TypeOK
    PROVE  /\ \A q \in Producers : /\ producer[q].path \in Paths
                                   /\ producer[q].name \in Names
                                   /\ producer[q].seg \in Producers \cup {NoSegment}
           /\ \A c \in Consumers : /\ consumer[c].name \in Names
                                   /\ consumer[c].seg \in Producers \cup {NoSegment}
           /\ \A s \in Producers : segment[s].pid \in Processes \cup {NoPid}
<1>1. \A q \in Producers : /\ producer[q].path \in Paths
                           /\ producer[q].name \in Names
                           /\ producer[q].seg \in Producers \cup {NoSegment}
  BY DEF TypeOK, Producer
<1>2. \A c \in Consumers : /\ consumer[c].name \in Names
                           /\ consumer[c].seg \in Producers \cup {NoSegment}
  BY DEF TypeOK, Consumer
<1>3. \A s \in Producers : segment[s].pid \in Processes \cup {NoPid}
  BY DEF TypeOK, Segment
<1> QED
  BY <1>1, <1>2, <1>3

(* The values chosen for what nobody has set yet are typed.                *)
LEMMA AnyTyped == AnyName \in Names /\ Detached \in Consumer
<1>1. PICK p \in Processes : TRUE
  BY ProcessesAssumption
<1>2. 0 \in Seconds
  BY MaxTimeAssumption DEF Seconds
<1>3. <<p, 0>> \in Names
  BY <1>1, <1>2 DEF Names
<1>4. AnyName \in Names
  BY <1>3 DEF AnyName
<1> QED
  BY <1>4 DEF Detached, Consumer

-----------------------------------------------------------------------------
(* Type correctness of a step, by action.                                  *)
LEMMA TypeStep ==
    ASSUME TypeOK, ProducerShape, ConsumerShape, [Next]_vars
    PROVE  TypeOK'
<1>1. ASSUME Tick PROVE TypeOK'
  BY <1>1, MaxTimeAssumption DEF TypeOK, Tick, Seconds
<1>2. ASSUME NEW q \in Producers, NEW path \in Paths, CreateStart(q, path) PROVE TypeOK'
  <2>1. GenerateShmName(q) \in Names
    BY ProcOfAssumption DEF TypeOK, GenerateShmName, Names
  <2> DEFINE new == [producer[q] EXCEPT !.pc = "named", !.path = path,
                                        !.name = GenerateShmName(q)]
  <2>2. new \in Producer
    BY <2>1 DEF TypeOK, Producer
  <2>3. producer' = [producer EXCEPT ![q] = new]
    BY <1>2 DEF CreateStart, TypeOK, Producer
  <2> HIDE DEF new
  <2>4. producer' \in [Producers -> Producer]
    BY <2>2, <2>3 DEF TypeOK
  <2> QED
    BY <1>2, <2>4 DEF TypeOK, CreateStart
<1>3. ASSUME NEW q \in Producers, OpenSegment(q) PROVE TypeOK'
  <2>1. linked' \in [Names -> Producers \cup {NoSegment}]
    BY <1>3, FieldTypes DEF TypeOK, OpenSegment
  <2>2. linked'[producer[q].name] \in Producers
    BY <1>3, FieldTypes DEF TypeOK, OpenSegment
  <2> DEFINE new == [producer[q] EXCEPT !.pc = "opened", !.seg = linked'[producer[q].name]]
  <2>3. new \in Producer
    BY <2>2 DEF TypeOK, Producer
  <2>4. producer' = [producer EXCEPT ![q] = new]
    BY <1>3 DEF OpenSegment, TypeOK, Producer
  <2> HIDE DEF new
  <2>5. producer' \in [Producers -> Producer]
    BY <2>3, <2>4 DEF TypeOK
  <2> QED
    BY <1>3, <2>1, <2>5 DEF TypeOK, OpenSegment
<1>4. ASSUME NEW q \in Producers, NEW pc \in {"sized", "zeroed", "typed", "laid out", "valid"},
             ProducerTo(q, pc)
      PROVE  producer' \in [Producers -> Producer]
  BY <1>4 DEF TypeOK, ProducerTo, Producer
<1>5. ASSUME NEW q \in Producers, SizeSegment(q) PROVE TypeOK'
  <2>1. segment' \in [Producers -> Segment]
    BY <1>5 DEF TypeOK, SizeSegment, Segment
  <2> QED
    BY <1>4, <1>5, <2>1 DEF TypeOK, SizeSegment
<1>6. ASSUME NEW q \in Producers, ZeroLayout(q) PROVE TypeOK'
  <2>1. segment' \in [Producers -> Segment]
    BY <1>6 DEF TypeOK, ZeroLayout, Segment
  <2> QED
    BY <1>4, <1>6, <2>1 DEF TypeOK, ZeroLayout
<1>7. ASSUME NEW q \in Producers, TypeLayout(q) PROVE TypeOK'
  <2>1. segment' \in [Producers -> Segment]
    BY <1>7 DEF TypeOK, TypeLayout, Segment
  <2> QED
    BY <1>4, <1>7, <2>1 DEF TypeOK, TypeLayout
<1>8. ASSUME NEW q \in Producers, OwnLayout(q) PROVE TypeOK'
  <2>1. segment' \in [Producers -> Segment]
    BY <1>8, ProcOfAssumption DEF TypeOK, OwnLayout, Segment
  <2> QED
    BY <1>4, <1>8, <2>1 DEF TypeOK, OwnLayout
<1>9. ASSUME NEW q \in Producers, Publish(q) PROVE TypeOK'
  BY <1>4, <1>9, FieldTypes DEF TypeOK, Publish
<1>10. ASSUME NEW q \in Producers, Cleanup(q) PROVE TypeOK'
  <2>1. producer' \in [Producers -> Producer]
    BY <1>10 DEF TypeOK, Cleanup, Producer
  <2> QED
    BY <1>10, <2>1, FieldTypes DEF TypeOK, Cleanup
<1>11. ASSUME NEW p \in Processes, ProcessDies(p) PROVE TypeOK'
  <2>1. producer' \in [Producers -> Producer]
    BY <1>11 DEF TypeOK, ProcessDies, Producer
  <2> QED
    BY <1>11, <2>1 DEF TypeOK, ProcessDies
<1>12. ASSUME NEW c \in Consumers, NEW path \in Paths, ReadFile(c, path) PROVE TypeOK'
  <2>1. producer[file[path]].name \in Names
    BY <1>12, FieldTypes DEF TypeOK, ReadFile
  <2>2. consumer' \in [Consumers -> Consumer]
    BY <1>12, <2>1 DEF TypeOK, ReadFile, Consumer
  <2> QED
    BY <1>12, <2>1, <2>2 DEF TypeOK, ReadFile
<1>13. Detached \in Consumer
  BY AnyTyped
<1>14. ASSUME NEW c \in Consumers, consumer' = [consumer EXCEPT ![c] = Detached]
       PROVE  consumer' \in [Consumers -> Consumer]
  BY <1>13, <1>14 DEF TypeOK
<1>15. ASSUME NEW c \in Consumers, OpenNamed(c) PROVE TypeOK'
  <2>1. consumer' \in [Consumers -> Consumer]
    BY <1>15 DEF TypeOK, OpenNamed, Consumer
  <2> QED
    BY <1>15, <2>1 DEF TypeOK, OpenNamed
<1>16. ASSUME NEW c \in Consumers, OpenFails(c) PROVE TypeOK'
  <2>1. consumer' \in [Consumers -> Consumer]
    BY <1>16 DEF TypeOK, OpenFails, ConsumerTo, Consumer
  <2> QED
    BY <1>16, <2>1 DEF TypeOK, OpenFails
<1>17. ASSUME NEW c \in Consumers, GetLayout(c) PROVE TypeOK'
  <2> DEFINE new(pc, seg) == [consumer[c] EXCEPT !.pc = pc, !.seg = seg]
             good == segment[consumer[c].seg].valid
  <2>1. /\ new("checked", consumer[c].seg) \in Consumer
        /\ new("unlinking", NoSegment) \in Consumer
        /\ consumer' = [consumer EXCEPT ![c] =
               new(IF good THEN "checked" ELSE "unlinking",
                   IF good THEN consumer[c].seg ELSE NoSegment)]
    BY <1>17 DEF TypeOK, GetLayout, Consumer
  <2> HIDE DEF new, good
  <2>2. consumer' \in [Consumers -> Consumer]
    BY <2>1 DEF TypeOK
  <2> QED
    BY <1>17, <2>2 DEF TypeOK, GetLayout
<1>18. ASSUME NEW c \in Consumers, GetLayoutFaults(c) PROVE TypeOK'
  BY <1>14, <1>18 DEF TypeOK, GetLayoutFaults
<1>19. ASSUME NEW c \in Consumers, AttachReturns(c) PROVE TypeOK'
  <2>1. segment[consumer[c].seg].pid \in Processes \cup {NoPid}
    BY <1>19, FieldTypes DEF AttachReturns, ConsumerShape
  <2>2. consumer' \in [Consumers -> Consumer]
    BY <1>19, <2>1 DEF TypeOK, AttachReturns, Consumer
  <2> QED
    BY <1>19, <2>2 DEF TypeOK, AttachReturns
<1>20. ASSUME NEW c \in Consumers, CloseConsumer(c) PROVE TypeOK'
  <2> DEFINE new == [consumer[c] EXCEPT !.pc = "unlinking", !.seg = NoSegment, !.pid = NoPid]
  <2>1. new \in Consumer
    BY DEF TypeOK, Consumer
  <2>2. consumer' = [consumer EXCEPT ![c] = new]
    BY <1>20 DEF TypeOK, CloseConsumer, Consumer
  <2> HIDE DEF new
  <2>3. consumer' \in [Consumers -> Consumer]
    BY <2>1, <2>2 DEF TypeOK
  <2> QED
    BY <1>20, <2>3 DEF TypeOK, CloseConsumer
<1>21. ASSUME NEW c \in Consumers, Unlink(c) PROVE TypeOK'
  BY <1>14, <1>21 DEF TypeOK, Unlink
<1>22. ASSUME NEW c \in Consumers, ConsumerDies(c) PROVE TypeOK'
  BY <1>14, <1>22 DEF TypeOK, ConsumerDies
<1>23. CASE UNCHANGED vars
  BY <1>23 DEF TypeOK, vars
<1> QED
  BY <1>1, <1>2, <1>3, <1>5, <1>6, <1>7, <1>8, <1>9, <1>10, <1>11, <1>12, <1>15, <1>16,
     <1>17, <1>18, <1>19, <1>20, <1>21, <1>22, <1>23
  DEF Next, ProducerStep, ConsumerStep, CreateFails, CloseProducer

-----------------------------------------------------------------------------
(* Every action moves the parts of the state as described above.           *)
LEMMA StepMoves ==
    ASSUME TypeOK, ProducerShape, ConsumerShape, [Next]_vars
    PROVE  Moves
<1>1. ASSUME Tick PROVE Moves
  BY <1>1, Unmoved DEF Tick, Moves
<1>2. ASSUME NEW q \in Producers, NEW path \in Paths, CreateStart(q, path) PROVE Moves
  <2>1. /\ producer[q].pc = "new" /\ producer'[q].pc = "named"
        /\ producer'[q].seg = producer[q].seg
        /\ producer'[q].name = GenerateShmName(q)
        /\ \A r \in Producers \ {q} : producer'[r] = producer[r]
    BY <1>2 DEF CreateStart, TypeOK, Producer
  <2>2. ProducerMoves(q)
    BY <2>1 DEF ProducerMoves, GenerateShmName
  <2> QED
    BY <1>2, <2>1, <2>2, OthersUnmoved, Unmoved DEF CreateStart, Moves
<1>3. ASSUME NEW q \in Producers, OpenSegment(q) PROVE Moves
  <2> DEFINE name == producer[q].name
  <2>1. name \in Names
    BY FieldTypes
  <2>2. /\ producer[q].pc = "named" /\ producer'[q].pc = "opened"
        /\ producer'[q].seg = linked'[name] /\ producer'[q].name = name
        /\ producer'[q].path = producer[q].path
        /\ \A r \in Producers \ {q} : producer'[r] = producer[r]
    BY <1>3 DEF OpenSegment, TypeOK, Producer
  <2>3. /\ \A n \in Names \ {name} : linked'[n] = linked[n]
        /\ linked[name] = NoSegment => linked'[name] = q
        /\ linked[name] # NoSegment => linked'[name] = linked[name]
    BY <1>3, <2>1 DEF OpenSegment, TypeOK
  <2>4. linked'[name] # NoSegment
    BY <2>3, NoSegmentAssumption
  <2> HIDE DEF name
  <2>5. \A r \in Producers : ProducerMoves(r)
    BY <2>2, <2>4 DEF ProducerMoves, Begun, name
  <2>6. \A n \in Names : LinkedMoves(n)
    BY <2>1, <2>2, <2>3 DEF LinkedMoves, name
  <2> QED
    BY <1>3, <2>5, <2>6, Unmoved DEF OpenSegment, Moves
<1>4. ASSUME NEW q \in Producers, producer[q].pc \in Holding
      PROVE  producer[q].seg \in Producers
  BY <1>4, FieldTypes DEF ProducerShape
<1>5. ASSUME NEW q \in Producers, SizeSegment(q) PROVE Moves
  <2>1. producer[q].pc = "opened" /\ ProducerTo(q, "sized") /\ producer[q].seg \in Producers
    BY <1>4, <1>5 DEF SizeSegment, Holding
  <2> DEFINE s == producer[q].seg
  <2>2. /\ segment'[s].sized /\ segment'[s].valid = segment[s].valid
        /\ segment'[s].pid = segment[s].pid
        /\ \A t \in Producers \ {s} : segment'[t] = segment[t]
    BY <1>5, <2>1 DEF SizeSegment, TypeOK, Segment
  <2>3. \A r \in Producers : ProducerMoves(r)
    <3>1. ProducerMoves(q)
      BY <2>1, <2>2, ProducerToFields DEF ProducerMoves, Begun
    <3> QED
      BY <2>1, <3>1, ProducerToFields, OthersUnmoved
  <2>4. \A t \in Producers : SegmentMoves(t)
    BY <2>1, <2>2 DEF SegmentMoves
  <2> QED
    BY <1>5, <2>3, <2>4, Unmoved DEF SizeSegment, Moves
<1>6. ASSUME NEW q \in Producers, ZeroLayout(q) PROVE Moves
  <2>1. producer[q].pc = "sized" /\ ProducerTo(q, "zeroed") /\ producer[q].seg \in Producers
    BY <1>4, <1>6 DEF ZeroLayout, Holding
  <2> DEFINE s == producer[q].seg
  <2>2. /\ segment'[s].sized = segment[s].sized /\ segment'[s].pid = NoPid
        /\ \A t \in Producers \ {s} : segment'[t] = segment[t]
    BY <1>6, <2>1 DEF ZeroLayout, TypeOK, Segment
  <2>3. \A r \in Producers : ProducerMoves(r)
    <3>1. ProducerMoves(q)
      BY <2>1, <2>2, ProducerToFields DEF ProducerMoves, Begun
    <3> QED
      BY <2>1, <3>1, ProducerToFields, OthersUnmoved
  <2>4. \A t \in Producers : SegmentMoves(t)
    BY <2>1, <2>2, ProducerToFields DEF SegmentMoves
  <2> QED
    BY <1>6, <2>3, <2>4, Unmoved DEF ZeroLayout, Moves
<1>7. ASSUME NEW q \in Producers, TypeLayout(q) PROVE Moves
  <2>1. producer[q].pc = "zeroed" /\ ProducerTo(q, "typed") /\ producer[q].seg \in Producers
    BY <1>4, <1>7 DEF TypeLayout, Holding
  <2> DEFINE s == producer[q].seg
  <2>2. /\ segment'[s].sized = segment[s].sized /\ segment'[s].valid
        /\ segment'[s].pid = segment[s].pid
        /\ \A t \in Producers \ {s} : segment'[t] = segment[t]
    BY <1>7, <2>1 DEF TypeLayout, TypeOK, Segment
  <2>3. \A r \in Producers : ProducerMoves(r)
    <3>1. ProducerMoves(q)
      BY <2>1, <2>2, ProducerToFields DEF ProducerMoves, Begun
    <3> QED
      BY <2>1, <3>1, ProducerToFields, OthersUnmoved
  <2>4. \A t \in Producers : SegmentMoves(t)
    BY <2>1, <2>2 DEF SegmentMoves
  <2> QED
    BY <1>7, <2>3, <2>4, Unmoved DEF TypeLayout, Moves
<1>8. ASSUME NEW q \in Producers, OwnLayout(q) PROVE Moves
  <2>1. producer[q].pc = "typed" /\ ProducerTo(q, "laid out") /\ producer[q].seg \in Producers
    BY <1>4, <1>8 DEF OwnLayout, Holding
  <2> DEFINE s == producer[q].seg
  <2>2. /\ segment'[s].sized = segment[s].sized /\ segment'[s].valid = segment[s].valid
        /\ segment'[s].pid = ProcOf[q]
        /\ \A t \in Producers \ {s} : segment'[t] = segment[t]
    BY <1>8, <2>1 DEF OwnLayout, TypeOK, Segment
  <2>3. \A r \in Producers : ProducerMoves(r)
    <3>1. ProducerMoves(q)
      BY <2>1, <2>2, ProducerToFields DEF ProducerMoves, Begun
    <3> QED
      BY <2>1, <3>1, ProducerToFields, OthersUnmoved
  <2>4. \A t \in Producers : SegmentMoves(t)
    BY <2>1, <2>2 DEF SegmentMoves
  <2> QED
    BY <1>8, <2>3, <2>4, Unmoved DEF OwnLayout, Moves
<1>9. ASSUME NEW q \in Producers, Publish(q) PROVE Moves
  <2>1. producer[q].pc = "laid out" /\ ProducerTo(q, "valid") /\ producer[q].path \in Paths
    BY <1>9, FieldTypes DEF Publish
  <2>2. /\ file'[producer[q].path] = q
        /\ \A path \in Paths \ {producer[q].path} : file'[path] = file[path]
    BY <1>9, <2>1 DEF Publish, TypeOK
  <2>3. \A r \in Producers : ProducerMoves(r)
    <3>1. ProducerMoves(q)
      BY <2>1, <2>2, ProducerToFields DEF ProducerMoves, Begun
    <3> QED
      BY <2>1, <3>1, ProducerToFields, OthersUnmoved
  <2>4. \A path \in Paths : FileMoves(path)
    BY <2>1, <2>2, ProducerToFields DEF FileMoves
  <2> QED
    BY <1>9, <2>3, <2>4, Unmoved DEF Publish, Moves
<1>10. ASSUME NEW q \in Producers, CreateFails(q) \/ CloseProducer(q) PROVE Moves
  <2>1. /\ Begun(q) /\ producer[q].pc \notin {"closed", "dead"} /\ Cleanup(q)
        /\ producer[q].path \in Paths
    BY <1>10, FieldTypes DEF CreateFails, CloseProducer, Begun
  <2>2. /\ producer'[q].pc = "closed" /\ producer'[q].seg = NoSegment
        /\ producer'[q].name = producer[q].name /\ producer'[q].path = producer[q].path
        /\ \A r \in Producers \ {q} : producer'[r] = producer[r]
    BY <2>1 DEF Cleanup, TypeOK, Producer
  <2>3. /\ file'[producer[q].path] = NoSegment
        /\ \A path \in Paths \ {producer[q].path} : file'[path] = file[path]
    BY <2>1 DEF Cleanup, TypeOK
  <2>4. \A r \in Producers : ProducerMoves(r)
    BY <2>1, <2>2, <2>3 DEF ProducerMoves
  <2>5. \A path \in Paths : FileMoves(path)
    BY <2>1, <2>2, <2>3 DEF FileMoves
  <2> QED
    BY <2>1, <2>4, <2>5, Unmoved DEF Cleanup, Moves
<1>11. ASSUME NEW p \in Processes, ProcessDies(p) PROVE Moves
  <2>1. ASSUME NEW q \in Producers
        PROVE  ProducerMoves(q)
    <3>1. CASE ProcOf[q] # p
      <4>1. producer'[q] = producer[q]
        BY <1>11, <3>1 DEF ProcessDies
      <4> QED
        BY <4>1 DEF ProducerMoves
    <3>2. CASE ProcOf[q] = p
      <4>1. /\ producer'[q].name = producer[q].name /\ producer'[q].path = producer[q].path
            /\ producer'[q].seg = NoSegment
        BY <1>11, <3>2 DEF ProcessDies, TypeOK, Producer
      <4>2. producer'[q].pc = CASE producer[q].pc = "new" -> "never"
                                [] producer[q].pc \in {"closed", "never"} -> producer[q].pc
                                [] OTHER -> "dead"
        BY <1>11, <3>2 DEF ProcessDies, TypeOK, Producer
      <4>3. producer[q].seg = NoSegment \/ producer[q].pc \in Holding
        BY DEF ProducerShape
      <4> QED
        BY <4>1, <4>2, <4>3 DEF ProducerMoves, Begun, Holding
    <3> QED
      BY <3>1, <3>2
  <2> QED
    BY <1>11, <2>1, Unmoved DEF ProcessDies, Moves
<1>12. ASSUME NEW c \in Consumers, consumer' = [consumer EXCEPT ![c] = Detached]
       PROVE  \A d \in Consumers : ConsumerMoves(d)
  BY <1>12 DEF TypeOK, ConsumerMoves, Detached
<1>13. ASSUME NEW c \in Consumers, NEW path \in Paths, ReadFile(c, path) PROVE Moves
  <2> DEFINE name == producer[file[path]].name
  <2>1. /\ consumer[c].pc = "detached" /\ consumer'[c].pc = "read"
        /\ consumer'[c].name = name /\ consumer'[c].seg = consumer[c].seg
        /\ \A d \in Consumers \ {c} : consumer'[d] = consumer[d]
    BY <1>13 DEF ReadFile, TypeOK, Consumer
  <2>2. read' = read \cup {name} /\ file[path] # NoSegment
    BY <1>13 DEF ReadFile
  <2>3. \A d \in Consumers : ConsumerMoves(d)
    BY <2>1, <2>2 DEF ConsumerMoves
  <2>4. ReadMoves
    BY <2>2 DEF ReadMoves
  <2> QED
    BY <1>13, <2>3, <2>4, Unmoved DEF ReadFile, Moves
<1>14. ASSUME NEW c \in Consumers, OpenNamed(c) PROVE Moves
  <2>1. /\ consumer[c].pc = "read" /\ consumer'[c].pc = "opened"
        /\ consumer'[c].name = consumer[c].name
        /\ consumer'[c].seg = linked[consumer[c].name] /\ consumer'[c].seg # NoSegment
        /\ \A d \in Consumers \ {c} : consumer'[d] = consumer[d]
    BY <1>14 DEF OpenNamed, TypeOK, Consumer
  <2>2. \A d \in Consumers : ConsumerMoves(d)
    BY <2>1 DEF ConsumerMoves
  <2> QED
    BY <1>14, <2>2, Unmoved DEF OpenNamed, Moves
<1>15. ASSUME NEW c \in Consumers, OpenFails(c) PROVE Moves
  <2>1. consumer[c].pc = "read" /\ consumer[c].seg = NoSegment /\ ConsumerTo(c, "unlinking")
    BY <1>15 DEF OpenFails, ConsumerShape
  <2>2. \A d \in Consumers : ConsumerMoves(d)
    BY <2>1, ConsumerToFields DEF ConsumerMoves
  <2> QED
    BY <1>15, <2>2, Unmoved DEF OpenFails, Moves
<1>16. ASSUME NEW c \in Consumers, GetLayout(c) PROVE Moves
  <2>1. /\ consumer[c].pc = "opened" /\ consumer'[c].name = consumer[c].name
        /\ \/ consumer'[c].pc = "checked" /\ consumer'[c].seg = consumer[c].seg
           \/ consumer'[c].pc = "unlinking" /\ consumer'[c].seg = NoSegment
        /\ \A d \in Consumers \ {c} : consumer'[d] = consumer[d]
    BY <1>16 DEF GetLayout, TypeOK, Consumer
  <2>2. \A d \in Consumers : ConsumerMoves(d)
    BY <2>1 DEF ConsumerMoves
  <2> QED
    BY <1>16, <2>2, Unmoved DEF GetLayout, Moves
<1>17. ASSUME NEW c \in Consumers, GetLayoutFaults(c) PROVE Moves
  BY <1>12, <1>17, Unmoved DEF GetLayoutFaults, Moves
<1>18. ASSUME NEW c \in Consumers, AttachReturns(c) PROVE Moves
  <2>1. /\ consumer[c].pc = "checked" /\ consumer'[c].pc = "attached"
        /\ consumer'[c].name = consumer[c].name /\ consumer'[c].seg = consumer[c].seg
        /\ consumer'[c].pid = segment[consumer[c].seg].pid
        /\ \A d \in Consumers \ {c} : consumer'[d] = consumer[d]
    BY <1>18 DEF AttachReturns, TypeOK, Consumer
  <2>2. \A d \in Consumers : ConsumerMoves(d)
    BY <2>1 DEF ConsumerMoves
  <2> QED
    BY <1>18, <2>2, Unmoved DEF AttachReturns, Moves
<1>19. ASSUME NEW c \in Consumers, CloseConsumer(c) PROVE Moves
  <2>1. /\ consumer[c].pc = "attached" /\ consumer'[c].pc = "unlinking"
        /\ consumer'[c].name = consumer[c].name /\ consumer'[c].seg = NoSegment
        /\ \A d \in Consumers \ {c} : consumer'[d] = consumer[d]
    BY <1>19 DEF CloseConsumer, TypeOK, Consumer
  <2>2. \A d \in Consumers : ConsumerMoves(d)
    BY <2>1 DEF ConsumerMoves
  <2> QED
    BY <1>19, <2>2, Unmoved DEF CloseConsumer, Moves
<1>20. ASSUME NEW c \in Consumers, Unlink(c) PROVE Moves
  <2>1. consumer[c].name \in Names /\ consumer[c].name \in read
    BY <1>20, FieldTypes DEF Unlink, ConsumerShape
  <2>2. /\ linked'[consumer[c].name] = NoSegment
        /\ \A n \in Names \ {consumer[c].name} : linked'[n] = linked[n]
    BY <1>20, <2>1 DEF Unlink, TypeOK
  <2>3. \A n \in Names : LinkedMoves(n)
    BY <2>1, <2>2 DEF LinkedMoves
  <2> QED
    BY <1>12, <1>20, <2>3, Unmoved DEF Unlink, Moves
<1>21. ASSUME NEW c \in Consumers, ConsumerDies(c) PROVE Moves
  BY <1>12, <1>21, Unmoved DEF ConsumerDies, Moves
<1>22. CASE UNCHANGED vars
  BY <1>22, Unmoved DEF vars, Moves
<1> QED
  BY <1>1, <1>2, <1>3, <1>5, <1>6, <1>7, <1>8, <1>9, <1>10, <1>11, <1>13, <1>14, <1>15,
     <1>16, <1>17, <1>18, <1>19, <1>20, <1>21, <1>22
  DEF Next, ProducerStep, ConsumerStep

-----------------------------------------------------------------------------
(* Begun, in the next state.                                               *)
BegunNext(q) == producer'[q].pc \notin {"new", "never"}

(* Once Create was called a producer keeps its name and its path.          *)
LEMMA BegunStays ==
    ASSUME Moves, NEW q \in Producers, Begun(q)
    PROVE  /\ BegunNext(q)
           /\ producer'[q].name = producer[q].name
           /\ producer'[q].path = producer[q].path
  BY DEF Moves, ProducerMoves, Begun, BegunNext

(* Shape is preserved by every step.                                       *)
LEMMA ShapeStep ==
    ASSUME Shape, TypeOK', Moves
    PROVE  Shape'
<1>1. LinkedShape'
  <2> SUFFICES ASSUME NEW n \in Names, linked'[n] # NoSegment
               PROVE  BegunNext(linked'[n]) /\ producer'[linked'[n]].name = n
    BY DEF LinkedShape, Begun, BegunNext
  <2>1. CASE linked'[n] = linked[n]
    <3>1. linked[n] \in Producers
      BY <2>1 DEF Shape, TypeOK
    <3> QED
      BY <2>1, <3>1, BegunStays DEF Shape, LinkedShape
  <2>2. ASSUME NEW q \in Producers, producer[q].pc = "named", producer[q].name = n,
               linked'[n] = q
        PROVE  BegunNext(linked'[n]) /\ producer'[linked'[n]].name = n
    <3>1. Begun(q)
      BY <2>2 DEF Begun
    <3> QED
      BY <2>2, <3>1, BegunStays
  <2> QED
    BY <2>1, <2>2 DEF Moves, LinkedMoves
<1>2. ProducerShape'
  <2> SUFFICES ASSUME NEW q \in Producers
               PROVE  /\ producer'[q].seg # NoSegment <=> producer'[q].pc \in Holding
                      /\ BegunNext(q) => producer'[q].name[1] = ProcOf[q]
                      /\ producer'[q].seg # NoSegment =>
                             /\ BegunNext(producer'[q].seg)
                             /\ producer'[producer'[q].seg].name = producer'[q].name
    BY DEF ProducerShape, Begun, BegunNext
  <2>1. ProducerMoves(q)
    BY DEF Moves
  <2>2. /\ producer[q].seg # NoSegment <=> producer[q].pc \in Holding
        /\ Begun(q) => producer[q].name[1] = ProcOf[q]
    BY DEF Shape, ProducerShape
  <2>3. producer'[q].seg # NoSegment <=> producer'[q].pc \in Holding
    BY <2>1, <2>2 DEF ProducerMoves, Holding, Begun
  <2>4. BegunNext(q) => producer'[q].name[1] = ProcOf[q]
    BY <2>1, <2>2 DEF ProducerMoves, Begun, BegunNext
  <2>5. ASSUME producer'[q].seg # NoSegment
        PROVE  /\ BegunNext(producer'[q].seg)
               /\ producer'[producer'[q].seg].name = producer'[q].name
    <3>1. Begun(q) /\ producer'[q].name = producer[q].name
      BY <2>1, <2>2, <2>3, <2>5 DEF ProducerMoves, Begun, Holding
    <3>2. CASE producer'[q].seg = producer[q].seg
      <4>1. producer[q].seg \in Producers /\ Begun(producer[q].seg)
            /\ producer[producer[q].seg].name = producer[q].name
        BY <2>5, <3>2, FieldTypes DEF Shape, ProducerShape
      <4> QED
        BY <3>1, <3>2, <4>1, BegunStays
    <3>3. CASE producer'[q].seg = linked'[producer[q].name]
      <4>1. producer[q].name \in Names
        BY FieldTypes DEF Shape
      <4> QED
        BY <2>5, <3>1, <3>3, <4>1, <1>1 DEF LinkedShape, Begun, BegunNext
    <3> QED
      BY <2>1, <2>5, <3>2, <3>3 DEF ProducerMoves
  <2> QED
    BY <2>3, <2>4, <2>5
<1>3. ConsumerShape'
  <2> SUFFICES ASSUME NEW c \in Consumers
               PROVE  /\ consumer'[c].seg # NoSegment
                             <=> consumer'[c].pc \in {"opened", "checked", "attached"}
                      /\ consumer'[c].pc # "detached" => consumer'[c].name \in read'
                      /\ consumer'[c].seg # NoSegment =>
                             /\ BegunNext(consumer'[c].seg)
                             /\ producer'[consumer'[c].seg].name = consumer'[c].name
    BY DEF ConsumerShape, Begun, BegunNext
  <2>1. ConsumerMoves(c) /\ read \subseteq read'
    BY DEF Moves, ReadMoves
  <2>2. /\ consumer[c].seg # NoSegment
               <=> consumer[c].pc \in {"opened", "checked", "attached"}
        /\ consumer[c].pc # "detached" => consumer[c].name \in read
    BY DEF Shape, ConsumerShape
  <2>3. consumer'[c].seg # NoSegment <=> consumer'[c].pc \in {"opened", "checked", "attached"}
    BY <2>1, <2>2 DEF ConsumerMoves
  <2>4. consumer'[c].pc # "detached" => consumer'[c].name \in read'
    BY <2>1, <2>2 DEF ConsumerMoves
  <2>5. ASSUME consumer'[c].seg # NoSegment
        PROVE  /\ BegunNext(consumer'[c].seg)
               /\ producer'[consumer'[c].seg].name = consumer'[c].name
    <3>1. consumer'[c].name = consumer[c].name
      BY <2>1, <2>2, <2>5 DEF ConsumerMoves
    <3>2. CASE consumer'[c].seg = consumer[c].seg
      <4>1. consumer[c].seg \in Producers /\ Begun(consumer[c].seg)
            /\ producer[consumer[c].seg].name = consumer[c].name
        BY <2>5, <3>2, FieldTypes DEF Shape, ConsumerShape
      <4> QED
        BY <3>1, <3>2, <4>1, BegunStays
    <3>3. CASE consumer'[c].seg = linked[consumer[c].name]
      <4>1. consumer[c].name \in Names
        BY FieldTypes DEF Shape
      <4>2. linked[consumer[c].name] \in Producers
        BY <2>5, <3>3, <4>1 DEF Shape, TypeOK
      <4>3. Begun(consumer'[c].seg) /\ producer[consumer'[c].seg].name = consumer[c].name
        BY <2>5, <3>3, <4>1 DEF Shape, LinkedShape
      <4> QED
        BY <3>1, <3>3, <4>2, <4>3, BegunStays
    <3> QED
      BY <2>1, <2>5, <3>2, <3>3 DEF ConsumerMoves
  <2> QED
    BY <2>3, <2>4, <2>5
<1>4. StaleFilesAreOfTheDead'
  <2> SUFFICES ASSUME NEW path \in Paths, file'[path] # NoSegment
               PROVE  /\ producer'[file'[path]].pc \in {"valid", "dead"}
                      /\ producer'[file'[path]].path = path
    BY DEF StaleFilesAreOfTheDead
  <2>1. CASE file'[path] = file[path]
    <3> DEFINE q == file[path]
    <3>1. q \in Producers /\ producer[q].pc \in {"valid", "dead"} /\ producer[q].path = path
      BY <2>1 DEF Shape, TypeOK, StaleFilesAreOfTheDead
    <3>2. ProducerMoves(q)
      BY <3>1 DEF Moves
    <3> HIDE DEF q
    <3>3. file'[path] = q /\ q # NoSegment
      BY <2>1, NoSegmentAssumption, <3>1 DEF q
    <3> QED
      BY <3>1, <3>2, <3>3 DEF ProducerMoves, Begun
  <2>2. ASSUME NEW q \in Producers, producer[q].path = path, producer[q].pc = "laid out",
               producer'[q].pc = "valid", file'[path] = q
        PROVE  /\ producer'[file'[path]].pc \in {"valid", "dead"}
               /\ producer'[file'[path]].path = path
    <3>1. Begun(q)
      BY <2>2 DEF Begun
    <3> QED
      BY <2>2, <3>1, BegunStays
  <2> QED
    BY <2>1, <2>2 DEF Moves, FileMoves
<1>5. ReadShape'
  <2> SUFFICES ASSUME NEW n \in read'
               PROVE  \E q \in Producers : BegunNext(q) /\ producer'[q].name = n
    BY DEF ReadShape, Begun, BegunNext
  <2>1. CASE n \in read
    <3>1. PICK q \in Producers : Begun(q) /\ producer[q].name = n
      BY <2>1 DEF Shape, ReadShape
    <3> QED
      BY <3>1, BegunStays
  <2>2. ASSUME NEW path \in Paths, file[path] # NoSegment, producer[file[path]].name = n
        PROVE  \E q \in Producers : BegunNext(q) /\ producer'[q].name = n
    <3>1. file[path] \in Producers /\ Begun(file[path])
      BY <2>2 DEF Shape, TypeOK, StaleFilesAreOfTheDead, Begun
    <3> QED
      BY <2>2, <3>1, BegunStays
  <2> QED
    BY <2>1, <2>2 DEF Moves, ReadMoves
<1> QED
  BY <1>1, <1>2, <1>3, <1>4, <1>5 DEF Shape

(* Shape holds to begin with.                                              *)
LEMMA ShapeInit == Init => Shape
<1> SUFFICES ASSUME Init PROVE Shape
  OBVIOUS
<1>1. AnyName \in Names /\ Detached \in Consumer
  BY AnyTyped
<1>2. TypeOK
  <2>1. producer \in [Producers -> Producer]
    <3>1. (CHOOSE p \in Paths : TRUE) \in Paths
      BY PathsAssumption
    <3> QED
      BY <1>1, <3>1 DEF Init, Producer
  <2>2. segment \in [Producers -> Segment]
    BY DEF Init, Blank, Segment
  <2>3. clock \in Seconds
    BY MaxTimeAssumption DEF Init, Seconds
  <2> QED
    BY <1>1, <2>1, <2>2, <2>3 DEF Init, TypeOK
<1>3. ProducerShape
  BY DEF Init, ProducerShape, Begun, Holding
<1>4. ConsumerShape
  BY DEF Init, ConsumerShape, Detached
<1>5. LinkedShape /\ StaleFilesAreOfTheDead /\ ReadShape
  BY DEF Init, LinkedShape, StaleFilesAreOfTheDead, ReadShape
<1> QED
  BY <1>2, <1>3, <1>4, <1>5 DEF Shape

(* Shape is an invariant, and so every step moves as described.            *)
LEMMA ShapeAlways == Spec => [](Shape)
<1>1. Shape /\ [Next]_vars => Shape'
  BY TypeStep, StepMoves, ShapeStep DEF Shape
<1> QED
  BY <1>1, ShapeInit, PTL DEF Spec

-----------------------------------------------------------------------------
(***************************************************************************)
(* The state of Producer and Consumer objects, segments, names and files   *)
(* has its type: no step of Create, Attach or a clean-up uses a segment    *)
(* that is not there.                                                      *)
(***************************************************************************)
THEOREM TypeCorrect == Spec => []TypeOK
<1>1. Shape => TypeOK
  BY DEF Shape
<1> QED
  BY <1>1, ShapeAlways, PTL

(***************************************************************************)
(* A file without a live producer is that of a process that died: Cleanup  *)
(* of the producer always deletes its own.                                 *)
(***************************************************************************)
THEOREM StaleFiles == Spec => []StaleFilesAreOfTheDead
<1>1. Shape => StaleFilesAreOfTheDead
  BY DEF Shape
<1> QED
  BY <1>1, ShapeAlways, PTL

(* Two that map one segment have one name, hence one process.              *)
LEMMA SharersAreTwins ==
    ASSUME Shape, NEW q \in Producers, NEW s \in Producers, producer[q].seg = s
    PROVE  /\ producer[q].pc \in Holding /\ Begun(q) /\ Begun(s)
           /\ producer[q].name = producer[s].name
           /\ ProcOf[q] = ProcOf[s]
<1>1. producer[q].seg # NoSegment
  BY NoSegmentAssumption
<1>2. producer[q].pc \in Holding /\ Begun(s) /\ producer[s].name = producer[q].name
  BY <1>1 DEF Shape, ProducerShape
<1>3. Begun(q)
  BY <1>2 DEF Begun, Holding
<1>4. producer[q].name[1] = ProcOf[q] /\ producer[s].name[1] = ProcOf[s]
  BY <1>2, <1>3 DEF Shape, ProducerShape
<1> QED
  BY <1>2, <1>3, <1>4

(***************************************************************************)
(* shm_open without O_EXCL: whatever the interleaving of Create calls, two *)
(* producers use one segment only if they belong to one process and were   *)
(* named in one second.                                                    *)
(***************************************************************************)
THEOREM SharedByTwins == Spec => []SegmentsSharedOnlyByTwins
<1>1. Shape => SegmentsSharedOnlyByTwins
  <2> SUFFICES ASSUME Shape, NEW q \in Producers, NEW r \in Producers,
                      producer[q].seg # NoSegment, producer[q].seg = producer[r].seg
               PROVE  producer[q].name = producer[r].name /\ ProcOf[q] = ProcOf[r]
    BY DEF SegmentsSharedOnlyByTwins
  <2>1. producer[q].seg \in Producers
    BY FieldTypes DEF Shape
  <2> QED
    BY <2>1, SharersAreTwins
<1> QED
  BY <1>1, ShapeAlways, PTL

(***************************************************************************)
(* A producer loses its coordination file only to another one that was     *)
(* created on the same path, whichever consumers attach and clean up.      *)
(***************************************************************************)
THEOREM LostFiles == Spec => []LostFilesWereContested
<1>1. Init => LostFilesWereContested
  BY DEF Init, LostFilesWereContested
<1>2. Shape /\ LostFilesWereContested /\ Moves => LostFilesWereContested'
  <2> SUFFICES ASSUME Shape, LostFilesWereContested, Moves, NEW q \in Producers,
                      producer'[q].pc = "valid", file'[producer'[q].path] # q
               PROVE  \E r \in Producers \ {q} :
                          /\ producer'[r].path = producer'[q].path
                          /\ producer'[r].pc \in {"valid", "closed", "dead"}
    BY DEF LostFilesWereContested
  <2>1. ProducerMoves(q)
    BY DEF Moves
  <2>2. producer'[q].path = producer[q].path /\ producer[q].pc = "valid"
    BY <2>1 DEF ProducerMoves
  <2> DEFINE path == producer[q].path
  <2>3. path \in Paths
    BY FieldTypes DEF Shape
  <2> HIDE DEF path
  <2>4. CASE file[path] # q
    <3>1. PICK r \in Producers \ {q} :
              producer[r].path = path /\ producer[r].pc \in {"valid", "closed", "dead"}
      BY <2>2, <2>4 DEF LostFilesWereContested, path
    <3>2. ProducerMoves(r)
      BY DEF Moves
    <3>3. producer'[r].path = path /\ producer'[r].pc \in {"valid", "closed", "dead"}
      BY <3>1, <3>2 DEF ProducerMoves
    <3> QED
      BY <2>2, <3>3 DEF path
  <2>5. CASE file[path] = q
    <3>1. PICK r \in Producers :
              /\ producer[r].path = path
              /\ \/ producer[r].pc = "laid out" /\ producer'[r].pc = "valid" /\ file'[path] = r
                 \/ Begun(r) /\ producer'[r].pc = "closed" /\ file'[path] = NoSegment
      <4>1. FileMoves(path) /\ file'[path] # file[path]
        BY <2>2, <2>3, <2>5 DEF Moves, path
      <4> QED
        BY <4>1 DEF FileMoves
    <3>2. r # q
      BY <2>2, <3>1
    <3>3. Begun(r)
      BY <3>1 DEF Begun
    <3>4. producer'[r].path = path
      BY <3>1, <3>3, BegunStays
    <3> QED
      BY <2>2, <3>1, <3>2, <3>4 DEF path
  <2> QED
    BY <2>4, <2>5
<1>3. Shape /\ [Next]_vars => Moves
  BY StepMoves DEF Shape
<1> QED
  BY <1>1, <1>2, <1>3, ShapeAlways, PTL DEF Spec

(***************************************************************************)
(* The producer leaves the name of its segment to the consumers: as long   *)
(* as nobody has read that name in a file, the segment keeps it.           *)
(***************************************************************************)
THEOREM UnlinkedRead == Spec => []UnlinkedWasRead
<1>1. Init => MappedUnlinkedWasRead
  BY DEF Init, MappedUnlinkedWasRead
<1>2. Shape /\ MappedUnlinkedWasRead /\ Moves => MappedUnlinkedWasRead'
  <2> SUFFICES ASSUME Shape, MappedUnlinkedWasRead, Moves, NEW q \in Producers,
                      producer'[q].seg # NoSegment,
                      linked'[producer'[q].name] # producer'[q].seg
               PROVE  producer'[q].name \in read'
    BY DEF MappedUnlinkedWasRead
  <2> DEFINE name == producer[q].name
  <2>1. name \in Names
    BY FieldTypes DEF Shape
  <2>2. producer[q].seg # NoSegment <=> producer[q].pc \in Holding
    BY DEF Shape, ProducerShape
  <2>3. producer'[q].name = name /\ producer'[q].seg = producer[q].seg
    BY <2>2 DEF Moves, ProducerMoves, Holding
  <2> HIDE DEF name
  <2>4. LinkedMoves(name) /\ read \subseteq read'
    BY <2>1 DEF Moves, ReadMoves
  <2>5. linked[name] # producer[q].seg => name \in read
    BY <2>3 DEF MappedUnlinkedWasRead, name
  <2> QED
    BY <2>3, <2>4, <2>5 DEF LinkedMoves
<1>3. Shape /\ [Next]_vars => Moves
  BY StepMoves DEF Shape
<1>4. Shape /\ MappedUnlinkedWasRead => UnlinkedWasRead
  BY DEF Shape, ProducerShape, MappedUnlinkedWasRead, UnlinkedWasRead, Holding
<1> QED
  BY <1>1, <1>2, <1>3, <1>4, ShapeAlways, PTL DEF Spec

-----------------------------------------------------------------------------
(* Nothing has come about to begin with.                                   *)
LEMMA CreatedLater == Init => Progress
<1> SUFFICES ASSUME Init, NEW q \in Producers
             PROVE  producer[q].pc \notin Holding \cup {"typed", "laid out", "valid"}
  BY DEF Progress
<1>1. producer[q].pc = "new"
  BY DEF Init
<1> QED
  BY <1>1 DEF Holding

(* A twin remains one.                                                     *)
LEMMA TwinStays ==
    ASSUME Moves, NEW q \in Producers, Begun(q), HasTwin(q)
    PROVE  HasTwin(q)'
<1>1. PICK r \in Producers \ {q} : Begun(r) /\ producer[r].name = producer[q].name
  BY DEF HasTwin
<1>2. BegunNext(r) /\ producer'[r].name = producer'[q].name
  BY <1>1, BegunStays
<1> QED
  BY <1>2 DEF HasTwin, Begun, BegunNext

(* Without a twin nobody else writes the segment.                          *)
LEMMA OwnWriter ==
    ASSUME Shape, NEW q \in Producers, ~HasTwin(q)
    PROVE  /\ \A r \in Producers : producer[r].seg = q => r = q
           /\ producer[q].pc \in Holding => producer[q].seg = q
<1>1. ASSUME NEW r \in Producers, producer[r].seg = q PROVE r = q
  BY <1>1, SharersAreTwins DEF HasTwin
<1>2. ASSUME producer[q].pc \in Holding PROVE producer[q].seg = q
  <2>1. producer[q].seg # NoSegment /\ producer[q].seg \in Producers
    BY <1>2, FieldTypes DEF Shape, ProducerShape
  <2> QED
    BY <2>1 DEF Shape, ProducerShape, HasTwin
<1> QED
  BY <1>1, <1>2

(* Nor does anybody once its producer has published it.                    *)
LEMMA Frozen ==
    ASSUME Shape, Moves, NEW q \in Producers, ~HasTwin(q),
           producer[q].pc \in {"valid", "closed", "dead"}
    PROVE  /\ segment'[q] = segment[q]
           /\ producer'[q].pc \in {"valid", "closed", "dead"}
<1>1. ASSUME NEW r \in Producers, producer[r].seg = q PROVE producer[r].pc = "valid"
  <2>1. r = q /\ producer[r].pc \in Holding
    BY <1>1, OwnWriter, SharersAreTwins
  <2> QED
    BY <2>1 DEF Holding
<1>2. segment'[q] = segment[q]
  BY <1>1 DEF Moves, SegmentMoves
<1>3. ProducerMoves(q)
  BY DEF Moves
<1> QED
  BY <1>2, <1>3 DEF ProducerMoves

(* Progress is preserved by every step.                                    *)
LEMMA ProgressStep ==
    ASSUME Shape, Progress, Moves
    PROVE  Progress'
<1> SUFFICES ASSUME NEW q \in Producers, ~(HasTwin(q)')
             PROVE  /\ producer'[q].pc \in Holding \ {"opened"} => segment'[q].sized
                    /\ producer'[q].pc \in {"typed", "laid out", "valid"} => segment'[q].valid
                    /\ producer'[q].pc \in {"laid out", "valid"}
                           => segment'[q].pid = ProcOf[q]
  BY DEF Progress
<1>1. ProducerMoves(q) /\ SegmentMoves(q)
  BY DEF Moves
<1>2. CASE ~Begun(q)
  <2>1. producer'[q].pc \in {"new", "never", "named"}
    BY <1>1, <1>2 DEF ProducerMoves, Begun
  <2> QED
    BY <2>1 DEF Holding
<1>3. CASE Begun(q)
  <2>1. ~HasTwin(q)
    BY <1>3, TwinStays
  <2>2. /\ producer[q].pc \in Holding \ {"opened"} => segment[q].sized
        /\ producer[q].pc \in {"typed", "laid out", "valid"} => segment[q].valid
        /\ producer[q].pc \in {"laid out", "valid"} => segment[q].pid = ProcOf[q]
    BY <2>1 DEF Progress
  <2>3. producer[q].pc \in Holding => producer[q].seg = q
    BY <2>1, OwnWriter
  <2>4. \/ segment'[q] = segment[q]
        \/ /\ producer[q].pc # "valid"
           /\ \/ segment'[q].sized /\ segment'[q].valid = segment[q].valid
                 /\ segment'[q].pid = segment[q].pid
              \/ producer[q].pc = "sized" /\ producer'[q].pc = "zeroed"
                 /\ segment'[q].sized = segment[q].sized
              \/ segment'[q].sized = segment[q].sized /\ segment'[q].valid
                 /\ segment'[q].pid = segment[q].pid
              \/ segment'[q].sized = segment[q].sized
                 /\ segment'[q].valid = segment[q].valid /\ segment'[q].pid = ProcOf[q]
    BY <1>1, <2>1, OwnWriter DEF SegmentMoves
  <2>5. producer'[q].pc \in Holding \ {"opened"} => segment'[q].sized
    BY <1>1, <2>2, <2>3, <2>4 DEF ProducerMoves, Holding
  <2>6. producer'[q].pc \in {"typed", "laid out", "valid"} => segment'[q].valid
    BY <1>1, <2>2, <2>3, <2>4 DEF ProducerMoves, Holding
  <2>7. ASSUME producer'[q].pc \in {"laid out", "valid"} PROVE segment'[q].pid = ProcOf[q]
    <3>1. \/ producer[q].pc = "typed" /\ segment'[q].pid = ProcOf[q]
          \/ producer[q].pc \in {"laid out", "valid"}
      BY <1>1, <2>3, <2>7 DEF ProducerMoves, Holding
    <3>2. CASE producer[q].pc \in {"laid out", "valid"}
      BY <2>2, <2>4, <2>7, <3>2
    <3> QED
      BY <3>1, <3>2
  <2> QED
    BY <2>5, <2>6, <2>7
<1> QED
  BY <1>2, <1>3

(* FilesComplete is preserved: a file is written when the layout is done.  *)
LEMMA FilesStep ==
    ASSUME Shape, Progress', FilesComplete, Moves
    PROVE  FilesComplete'
<1> SUFFICES ASSUME NEW path \in Paths, NEW q, q = file'[path], q # NoSegment, ~(HasTwin(q)')
             PROVE  Complete(q)'
  BY DEF FilesComplete
<1>1. CASE q = file[path]
  <2>1. q \in Producers /\ producer[q].pc \in {"valid", "dead"}
    BY <1>1 DEF Shape, TypeOK, StaleFilesAreOfTheDead
  <2>2. ~HasTwin(q)
    BY <2>1, TwinStays DEF Begun
  <2>3. Complete(q)
    BY <1>1, <2>2 DEF FilesComplete
  <2> QED
    BY <2>1, <2>2, <2>3, Frozen DEF Complete
<1>2. CASE q # file[path]
  <2>1. q \in Producers /\ producer'[q].pc = "valid"
    BY <1>2 DEF Moves, FileMoves
  <2> QED
    BY <2>1 DEF Progress, Complete, Holding
<1> QED
  BY <1>1, <1>2

(***************************************************************************)
(* The coordination file is the last thing Create writes: whoever reads a  *)
(* file and finds a segment under the name finds a complete layout with    *)
(* the pid of that producer, unless two producers were given the name.     *)
(***************************************************************************)
THEOREM Published == Spec => []PublishedIsComplete
<1>1. Init => Progress /\ FilesComplete
  BY CreatedLater DEF Init, FilesComplete
<1>2. Shape /\ [Next]_vars => Moves
  BY StepMoves DEF Shape
<1>3. Shape /\ Progress /\ FilesComplete /\ [Next]_vars => Progress' /\ FilesComplete'
  BY <1>2, ProgressStep, FilesStep
<1>4. Shape /\ FilesComplete => PublishedIsComplete
  <2> SUFFICES ASSUME Shape, FilesComplete, NEW path \in Paths, NEW q, q = file[path],
                      q # NoSegment, linked[producer[q].name] # NoSegment, ~HasTwin(q)
               PROVE  segment[linked[producer[q].name]]
                          = [sized |-> TRUE, valid |-> TRUE, pid |-> ProcOf[q]]
    BY DEF PublishedIsComplete
  <2>1. q \in Producers /\ Complete(q)
    BY DEF Shape, TypeOK, FilesComplete
  <2> DEFINE s == linked[producer[q].name]
  <2>2. s \in Producers /\ Begun(s) /\ producer[s].name = producer[q].name
    BY <2>1, FieldTypes DEF Shape, TypeOK, LinkedShape
  <2>3. s = q
    BY <2>2 DEF HasTwin
  <2>4. segment[q] \in Segment
    BY <2>1 DEF Shape, TypeOK
  <2>5. segment[q] = [sized |-> TRUE, valid |-> TRUE, pid |-> ProcOf[q]]
    BY <2>1, <2>4 DEF Segment, Complete
  <2> QED
    BY <2>3, <2>5
<1> QED
  BY <1>1, <1>3, <1>4, ShapeAlways, PTL DEF Spec

(* What was read is complete, and so it stays.                             *)
LEMMA ReadsStep ==
    ASSUME Shape, FilesComplete, ReadsComplete, Moves
    PROVE  ReadsComplete'
<1> SUFFICES ASSUME NEW s \in Producers, BegunNext(s), producer'[s].name \in read',
                    ~(HasTwin(s)')
             PROVE  Complete(s)' /\ producer'[s].pc \in {"valid", "closed", "dead"}
  BY DEF ReadsComplete, Begun, BegunNext
<1> DEFINE n == producer'[s].name
<1> HIDE DEF n
<1>1. ASSUME NEW q \in Producers, Begun(q), producer[q].name = n PROVE q = s
  <2>1. BegunNext(q) /\ producer'[q].name = n
    BY <1>1, BegunStays
  <2> QED
    BY <2>1 DEF HasTwin, Begun, BegunNext, n
<1>2. \/ n \in read
      \/ \E path \in Paths : file[path] # NoSegment /\ producer[file[path]].name = n
  BY DEF Moves, ReadMoves, n
<1>3. ASSUME NEW path \in Paths, file[path] # NoSegment, producer[file[path]].name = n
      PROVE  s = file[path] /\ producer[s].pc \in {"valid", "dead"}
  <2>1. file[path] \in Producers /\ producer[file[path]].pc \in {"valid", "dead"}
    BY <1>3 DEF Shape, TypeOK, StaleFilesAreOfTheDead
  <2> QED
    BY <1>1, <1>3, <2>1 DEF Begun
<1>4. Begun(s)
  <2>1. CASE n \in read
    <3>1. PICK q \in Producers : Begun(q) /\ producer[q].name = n
      BY <2>1 DEF Shape, ReadShape
    <3> QED
      BY <1>1, <3>1
  <2> QED
    BY <1>2, <1>3, <2>1 DEF Begun
<1>5. ~HasTwin(s) /\ producer[s].name = n
  BY <1>4, TwinStays, BegunStays DEF n
<1>6. Complete(s) /\ producer[s].pc \in {"valid", "closed", "dead"}
  <2>1. CASE n \in read
    BY <1>4, <1>5, <2>1 DEF ReadsComplete
  <2>2. ASSUME NEW path \in Paths, file[path] # NoSegment, producer[file[path]].name = n
        PROVE  Complete(s) /\ producer[s].pc \in {"valid", "closed", "dead"}
    BY <1>3, <1>5, <2>2 DEF FilesComplete
  <2> QED
    BY <1>2, <2>1, <2>2
<1> QED
  BY <1>5, <1>6, Frozen DEF Complete

(* The pid in a segment, if there is one, is right.                        *)
LEMMA PidsStep ==
    ASSUME Shape, PidsAreOwners, Moves
    PROVE  PidsAreOwners'
<1> SUFFICES ASSUME NEW s \in Producers PROVE segment'[s].pid \in {NoPid, ProcOf[s]}
  BY DEF PidsAreOwners
<1>1. segment[s].pid \in {NoPid, ProcOf[s]}
  BY DEF PidsAreOwners
<1>2. \A q \in Producers : producer[q].seg = s => ProcOf[q] = ProcOf[s]
  BY SharersAreTwins
<1> QED
  BY <1>1, <1>2 DEF Moves, SegmentMoves

(***************************************************************************)
(* The pid a consumer takes from the layout at the end of Attach is that   *)
(* of the process whose segment it has mapped; only the Create of a twin   *)
(* can make it read 0 there.                                               *)
(***************************************************************************)
THEOREM AttachedWatches == Spec => []AttachedWatchesOwner
<1>1. Init => /\ Progress /\ FilesComplete
              /\ ReadsComplete /\ PidsAreOwners /\ AttachedWatchesOwner
  <2>1. ASSUME Init PROVE PidsAreOwners
    <3>1. Blank.pid = NoPid
      BY DEF Blank
    <3>2. \A s \in Producers : segment[s] = Blank
      BY <2>1 DEF Init
    <3> QED
      BY <3>1, <3>2 DEF PidsAreOwners
  <2>2. Init => AttachedWatchesOwner
    BY DEF Init, AttachedWatchesOwner, Detached
  <2> QED
    BY CreatedLater, <2>1, <2>2 DEF Init, FilesComplete, ReadsComplete
<1>2. Shape /\ [Next]_vars => Moves
  BY StepMoves DEF Shape
<1>3. Shape /\ Progress /\ FilesComplete /\ [Next]_vars => Progress' /\ FilesComplete'
  BY <1>2, ProgressStep, FilesStep
<1>4. Shape /\ FilesComplete /\ ReadsComplete /\ PidsAreOwners /\ [Next]_vars
          => ReadsComplete' /\ PidsAreOwners'
  BY <1>2, ReadsStep, PidsStep
<1>5. Shape /\ ReadsComplete /\ PidsAreOwners /\ AttachedWatchesOwner /\ Moves
          => AttachedWatchesOwner'
  <2> SUFFICES ASSUME Shape, ReadsComplete, PidsAreOwners, AttachedWatchesOwner, Moves,
                      NEW c \in Consumers, consumer'[c].pc = "attached", NEW s,
                      s = consumer'[c].seg
               PROVE  /\ producer'[s].name = consumer'[c].name
                      /\ \/ consumer'[c].pid = ProcOf[s]
                         \/ consumer'[c].pid = NoPid /\ HasTwin(s)'
    BY DEF AttachedWatchesOwner
  <2>1. /\ consumer[c].seg = s /\ consumer[c].pc \in {"checked", "attached"}
        /\ consumer'[c].name = consumer[c].name
        /\ \/ consumer[c].pc = "attached" /\ consumer'[c].pid = consumer[c].pid
           \/ consumer'[c].pid = segment[s].pid
    BY DEF Moves, ConsumerMoves
  <2>2. s \in Producers /\ Begun(s) /\ producer[s].name = consumer[c].name
        /\ consumer[c].name \in read
    BY <2>1, FieldTypes DEF Shape, ConsumerShape
  <2>3. producer'[s].name = consumer'[c].name
    BY <2>1, <2>2, BegunStays
  <2>4. \/ consumer'[c].pid = ProcOf[s]
        \/ consumer'[c].pid = NoPid /\ HasTwin(s)
    <3>1. CASE consumer[c].pc = "attached" /\ consumer'[c].pid = consumer[c].pid
      BY <2>1, <3>1 DEF AttachedWatchesOwner
    <3>2. CASE consumer'[c].pid = segment[s].pid
      <4>1. segment[s].pid \in {NoPid, ProcOf[s]}
        BY <2>2 DEF PidsAreOwners
      <4>2. HasTwin(s) \/ segment[s].pid = ProcOf[s]
        BY <2>2 DEF ReadsComplete, Complete
      <4> QED
        BY <3>2, <4>1, <4>2
    <3> QED
      BY <2>1, <3>1, <3>2
  <2> QED
    BY <2>2, <2>3, <2>4, TwinStays
<1> QED
  BY <1>1, <1>2, <1>3, <1>4, <1>5, ShapeAlways, PTL DEF Spec
===============================================================================
