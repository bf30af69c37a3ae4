-------------------------- MODULE IpcClientProofs --------------------------
(***************************************************************************)
(* The safety properties of module IpcClient for any number of channels,   *)
(* calls, answers and connections, with the server sending requests of its *)
(* own.  All but one hold however many clients share the layout; that no   *)
(* answer to an asynchronous call is lost is stated of a client that has   *)
(* the response queues to itself.                                          *)
(***************************************************************************)
EXTENDS IpcClient, TLAPS, FiniteSetTheorems

(* Connect starts the poller, and Disconnect waits for its end before it   *)
(* goes on.                                                                *)
PollerJoined ==
    \A c \in Clients : life[c] \in {"off", "resetting", "unmapped", "clearing"} =>
                           poller[c].pc = "off"

(* The calls are numbered in the order they are begun.                     *)
Numbered ==
    /\ \A k \in Calls : \A s \in Senders : call[k].pc = "idle" => nextSeq[s] <= k
    /\ \A k \in Calls :
           /\ call[k].seq < nextSeq[call[k].client]
           /\ call[k].pc \in {"registering", "sending", "waiting", "returned"} => call[k].seq > 0

(* Clients call, the server sends.                                         *)
Made == \A k \in Calls : call[k].client \in Clients <=> call[k].kind \in Kinds

(* The positions of a call in which its entry can be in the table.         *)
Entered(k) == call[k].pc \in IF call[k].kind = "Call"
                             THEN {"waiting", "done"} ELSE {"sending", "returned", "done"}

(* Those in which it is, unless somebody has taken it out.                 *)
Listed(k) == call[k].pc \in IF call[k].kind = "Call" THEN {"waiting"} ELSE {"sending", "returned"}

(* EntriesHaveCallers, in these terms.                                     *)
Entries == \A c \in Clients : \A k \in pending[c] :
               call[k].client = c /\ promise[k] = NoCall /\ Listed(k)

(* A call with an answer has been through the table, and so has the one    *)
(* whose entry the poller has taken out, which has no answer yet.          *)
Taken ==
    /\ \A k \in Calls : promise[k] # NoCall => Entered(k)
    /\ \A c \in Clients : poller[c].pc = "setting" =>
           /\ poller[c].found \in Calls /\ Entered(poller[c].found)
           /\ call[poller[c].found].client = c /\ promise[poller[c].found] = NoCall
           /\ poller[c].found \notin pending[c]

(* A call whose request was pushed.                                        *)
WasSent(k) == /\ call[k].seq > 0
              /\ call[k].pc \in IF call[k].kind = "Call"
                                THEN {"registering", "waiting", "done"}
                                ELSE IF call[k].kind = "CallAsync" THEN {"returned"}
                                ELSE {"done"}

(* Only such calls are in the queues.                                      *)
QueuesHold ==
    \A w \in Workers : /\ \A i \in DOMAIN requests[w] : WasSent(requests[w][i])
                       /\ \A i \in DOMAIN answers[w] : WasSent(answers[w][i])

(* The index a poller reads at is that of an answer.                       *)
Reading ==
    /\ \A w \in Workers : Len(answers[w]) <= MaxAnswers /\ read[w] <= Len(answers[w])
    /\ \A c \in Clients : poller[c].pc \in {"finding", "setting", "releasing"} =>
           poller[c].read < Len(answers[poller[c].w])

Table == /\ TypeOK /\ PollerJoined /\ Numbered /\ Made /\ Entries /\ Taken
         /\ QueuesHold /\ Reading
-----------------------------------------------------------------------------
(* The calls of one sender have different numbers.                         *)
OwnNumbers ==
    \A j, k \in Calls :
        call[j].client = call[k].client /\ call[j].seq = call[k].seq /\ call[j].seq > 0 => j = k

(* The entry the poller has found has the number of the answer it has      *)
(* read.                                                                   *)
FoundMatches ==
    \A c \in Clients : poller[c].pc = "setting" => call[poller[c].found].seq = call[Header(c)].seq

(* What a promise was set to is the answer to a request that was sent.     *)
AnswersWereSent == \A k \in Calls : promise[k] # NoCall => WasSent(promise[k])

Matched == /\ OwnNumbers /\ FoundMatches /\ AnswersWereSent /\ AnswersMatchCalls
-----------------------------------------------------------------------------
(* No other client is attached to the layout.                              *)
Alone == \A c, d \in Clients : c = d

(* Its poller is the only one, so what it has seen in a queue stays there. *)
OnlyReader ==
    \A c \in Clients :
        /\ poller[c].pc \in {"peeking", "finding", "setting", "popping", "releasing"} =>
               read[poller[c].w] < Len(answers[poller[c].w])
        /\ poller[c].pc \in {"finding", "setting", "releasing"} =>
               poller[c].read = read[poller[c].w]

(* An asynchronous call that was registered has an entry, is in the hands  *)
(* of the poller, has its answer or was given up.                          *)
Followed ==
    \A k \in Calls :
        call[k].kind = "CallAsync" /\ call[k].pc \in {"sending", "returned"} =>
            \/ k \in pending[call[k].client]
            \/ poller[call[k].client].pc = "setting" /\ poller[call[k].client].found = k
            \/ promise[k] # NoCall
            \/ k \in abandoned
            \/ ~Alive(call[k].client)

Settled(k) == call[k].kind = "CallAsync" /\ call[k].pc = "returned" =>
                  promise[k] # NoCall \/ k \in abandoned

(* What the poller has taken off a queue, or is about to, it has dealt with. *)
Behind ==
    /\ \A w \in Workers : \A i \in 1 .. read[w] : Settled(answers[w][i])
    /\ \A c \in Clients : poller[c].pc \in {"popping", "releasing"} =>
           Settled(answers[poller[c].w][read[poller[c].w] + 1])

Private == OnlyReader /\ Followed /\ Behind
-----------------------------------------------------------------------------
(* What a step can do, field by field.  Connect and Disconnect of client c. *)
Connects(c) ==
    /\ life[c] = "off" /\ life'[c] = "connecting" /\ poller'[c].pc = "waiting"
    /\ UNCHANGED <<pending, abandoned>>

Goes(c) ==
    /\ \/ life[c] = "connecting" /\ life'[c] = "connected"
       \/ life[c] = "connected" /\ life'[c] = "joining"
       \/ life[c] = "joining" /\ life'[c] = "resetting" /\ poller[c].pc = "off"
       \/ life[c] = "resetting" /\ life'[c] \in {"resetting", "unmapped"}
       \/ life[c] = "unmapped" /\ life'[c] = "clearing"
    /\ UNCHANGED <<poller, pending, abandoned>>

Clears(c) ==
    /\ life[c] = "clearing" /\ life'[c] = "off"
    /\ pending'[c] = {} /\ abandoned' = abandoned \cup pending[c]
    /\ UNCHANGED poller

Changes(c) ==
    /\ \A d \in Clients \ {c} :
           life'[d] = life[d] /\ poller'[d] = poller[d] /\ pending'[d] = pending[d]
    /\ UNCHANGED <<nextSeq, call, promise, requests, answers, read>>
    /\ Connects(c) \/ Goes(c) \/ Clears(c)

(* The caller of k.                                                        *)
Starts(k) ==
    LET c == call'[k].client
    IN  /\ call[k].pc = "idle" /\ \A j \in 1 .. k - 1 : call[j].pc # "idle"
        /\ c \in Clients /\ call'[k].kind \in Kinds
        /\ \/ /\ call'[k].pc = IF call'[k].kind = "Call" THEN "sending" ELSE "registering"
              /\ call'[k].seq = nextSeq[c] /\ nextSeq'[c] = nextSeq[c] + 1
           \/ call'[k].pc = "done" /\ call'[k].seq = 0 /\ nextSeq'[c] = nextSeq[c]
        /\ \A d \in Senders \ {c} : nextSeq'[d] = nextSeq[d]
        /\ UNCHANGED <<life, pending, requests>>

(* SendAsync of the server.                                                *)
Dispatches(k) ==
    /\ call[k].pc = "idle" /\ \A j \in 1 .. k - 1 : call[j].pc # "idle"
    /\ call'[k].pc = "done" /\ call'[k].kind = "SendAsync" /\ call'[k].client = Server
    /\ call'[k].seq = nextSeq[Server] /\ nextSeq'[Server] = nextSeq[Server] + 1
    /\ \A d \in Senders \ {Server} : nextSeq'[d] = nextSeq[d]
    /\ \A w \in Workers : requests'[w] \in {requests[w], Append(requests[w], k)}
    /\ UNCHANGED <<life, pending>>

\* A client's call moves on, and is the same call.
Moved(k) == /\ call[k].client \in Clients /\ call[k].kind \in Kinds
            /\ call'[k].kind = call[k].kind /\ call'[k].client = call[k].client
            /\ call'[k].seq = call[k].seq

Sends(k) ==
    /\ call[k].pc = "sending" /\ Moved(k)
    /\ UNCHANGED <<life, nextSeq>>
    /\ \/ /\ call'[k].pc = IF call[k].kind = "Call" THEN "registering" ELSE "returned"
          /\ \A w \in Workers : requests'[w] \in {requests[w], Append(requests[w], k)}
          /\ UNCHANGED pending
       \/ /\ call'[k].pc = "done"
          /\ pending'[call[k].client] = pending[call[k].client] \ {k}
          /\ \A d \in Clients \ {call[k].client} : pending'[d] = pending[d]
          /\ UNCHANGED requests

Faults(k) ==
    /\ call' = call /\ call[k].client \in Clients
    /\ life'[call[k].client] = "dead" /\ pending'[call[k].client] = {}
    /\ \A d \in Clients \ {call[k].client} : life'[d] = life[d] /\ pending'[d] = pending[d]
    /\ UNCHANGED <<nextSeq, requests>>

Registers(k) ==
    /\ call[k].pc = "registering" /\ Moved(k)
    /\ call'[k].pc = IF call[k].kind = "Call" THEN "waiting" ELSE "sending"
    /\ pending'[call[k].client] = pending[call[k].client] \cup {k}
    /\ \A d \in Clients \ {call[k].client} : pending'[d] = pending[d]
    /\ UNCHANGED <<life, nextSeq, requests>>

Finishes(k) ==
    /\ call[k].pc = "waiting" /\ Moved(k)
    /\ call'[k].pc = "done"
    /\ \/ pending' = pending /\ promise[k] # NoCall
       \/ /\ pending'[call[k].client] = pending[call[k].client] \ {k}
          /\ \A d \in Clients \ {call[k].client} : pending'[d] = pending[d]
    /\ UNCHANGED <<life, nextSeq, requests>>

Acts(k) ==
    /\ \A j \in Calls \ {k} : call'[j] = call[j]
    /\ UNCHANGED <<poller, promise, answers, read, abandoned>>
    /\ Starts(k) \/ Dispatches(k) \/ Sends(k) \/ Faults(k) \/ Registers(k) \/ Finishes(k)

(* The poller of client c.                                                 *)
Idles(c) ==
    /\ poller[c].pc = "waiting"
    /\ poller'[c].pc \in {"off", "waiting"} \/ (poller'[c].pc = "scanning" /\ Connected(c))
    /\ UNCHANGED <<pending, promise, read>>

Scans(c) ==
    /\ poller[c].pc = "scanning"
    /\ \/ /\ poller'[c].pc = "peeking" /\ poller'[c].w = poller[c].w
          /\ Queued(poller[c].w) > 0
       \/ poller'[c].pc \in {"scanning", "waiting"}
    /\ UNCHANGED <<pending, promise, read>>

Peeks(c) ==
    /\ poller[c].pc = "peeking" /\ poller'[c].w = poller[c].w
    /\ IF Queued(poller[c].w) > 0
       THEN poller'[c].pc = "finding" /\ poller'[c].read = read[poller[c].w]
       ELSE poller'[c].pc = "popping"
    /\ UNCHANGED <<pending, promise, read>>

Finds(c) ==
    /\ poller[c].pc = "finding" /\ poller'[c].w = poller[c].w
    /\ pending'[c] = pending[c] \ Matching(c)
    /\ \/ poller'[c].pc = "popping" /\ Matching(c) = {}
       \/ /\ poller'[c].pc = "setting" /\ poller'[c].read = poller[c].read
          /\ poller'[c].found \in Matching(c)
    /\ UNCHANGED <<promise, read>>

Sets(c) ==
    /\ poller[c].pc = "setting" /\ poller'[c].pc = "popping" /\ poller'[c].w = poller[c].w
    /\ promise' = [promise EXCEPT ![poller[c].found] = Header(c)]
    /\ UNCHANGED <<pending, read>>

Pops(c) ==
    /\ poller[c].pc = "popping" /\ poller'[c].w = poller[c].w
    /\ IF Queued(poller[c].w) > 0
       THEN poller'[c].pc = "releasing" /\ poller'[c].read = read[poller[c].w]
       ELSE poller'[c].pc = "scanning"
    /\ UNCHANGED <<pending, promise, read>>

Releases(c) ==
    /\ poller[c].pc = "releasing" /\ poller'[c].pc = "scanning"
    /\ read'[poller[c].w] = poller[c].read + 1
    /\ \A w \in Workers \ {poller[c].w} : read'[w] = read[w]
    /\ UNCHANGED <<pending, promise>>

Polls(c) ==
    /\ Alive(c)
    /\ \A d \in Clients \ {c} : poller'[d] = poller[d] /\ pending'[d] = pending[d]
    /\ UNCHANGED <<life, nextSeq, call, requests, answers, abandoned>>
    /\ \/ Idles(c) \/ Scans(c) \/ Peeks(c) \/ Finds(c) \/ Sets(c) \/ Pops(c) \/ Releases(c)

(* The worker of channel w.                                                *)
Answers(w) ==
    /\ requests[w] # << >> /\ AnswersSoFar < MaxAnswers
    /\ answers'[w] = Append(answers[w], Head(requests[w]))
    /\ \A v \in Workers \ {w} : answers'[v] = answers[v]
    /\ UNCHANGED requests

Drops(w) ==
    /\ requests[w] # << >> /\ requests'[w] = Tail(requests[w])
    /\ \A v \in Workers \ {w} : requests'[v] = requests[v]
    /\ UNCHANGED answers

Serves(w) ==
    /\ UNCHANGED <<life, nextSeq, pending, poller, call, promise, read, abandoned>>
    /\ Answers(w) \/ Drops(w) \/ UNCHANGED <<requests, answers>>

Moves == \/ \E c \in Clients : Changes(c) \/ Polls(c)
         \/ \E k \in Calls : Acts(k)
         \/ \E w \in Workers : Serves(w)
         \/ UNCHANGED vars
-----------------------------------------------------------------------------
(* The fields have the types of TypeOK.                                    *)
LEMMA FieldTypes ==
    ASSUME TypeOK
    PROVE  /\ \A c \in Clients : /\ poller[c].w \in Workers
                                 /\ poller[c].read \in Nat
                                 /\ poller[c].found \in Calls \cup {NoCall}
                                 /\ pending[c] \subseteq Calls
                                 /\ life[c] \in Life
           /\ \A s \in Senders : nextSeq[s] \in Nat \ {0}
           /\ \A k \in Calls : /\ call[k].client \in Senders
                               /\ call[k].kind \in Kinds \cup {"SendAsync"}
                               /\ call[k].seq \in Nat
                               /\ promise[k] \in Calls \cup {NoCall}
           /\ \A w \in Workers : /\ requests[w] \in Seq(Calls) /\ answers[w] \in Seq(Calls)
                                 /\ Len(answers[w]) \in Nat /\ read[w] \in Nat
           /\ Calls \subseteq Nat \ {0}
<1>1. ASSUME NEW c \in Clients
      PROVE  /\ poller[c].w \in Workers /\ poller[c].read \in 0 .. MaxAnswers
             /\ poller[c].found \in Calls \cup {NoCall} /\ pending[c] \subseteq Calls
             /\ life[c] \in Life
  BY DEF TypeOK, Poller
<1>2. ASSUME NEW k \in Calls
      PROVE  /\ call[k].client \in Senders /\ call[k].kind \in Kinds \cup {"SendAsync"}
             /\ call[k].seq \in 0 .. MaxCalls /\ promise[k] \in Calls \cup {NoCall}
  BY DEF TypeOK, Call
<1>3. ASSUME NEW w \in Workers
      PROVE  /\ requests[w] \in Seq(Calls) /\ answers[w] \in Seq(Calls)
             /\ Len(answers[w]) \in Nat /\ read[w] \in 0 .. MaxAnswers
  BY DEF TypeOK
<1>4. Calls \subseteq Nat \ {0}
  BY MaxCallsAssumption DEF Calls
<1>5. 0 .. MaxAnswers \subseteq Nat /\ 0 .. MaxCalls \subseteq Nat
      /\ 1 .. MaxCalls + 1 \subseteq Nat \ {0}
  BY MaxAnswersAssumption, MaxCallsAssumption
<1>6. \A s \in Senders : nextSeq[s] \in 1 .. MaxCalls + 1
  BY DEF TypeOK
<1> QED
  BY <1>1, <1>2, <1>3, <1>4, <1>5, <1>6

(* The order of the steps of Call and CallAsync.                           *)
LEMMA FollowingIs ==
    ASSUME NEW k, call[k].kind \in Kinds
    PROVE  /\ call[k].pc = "sending" =>
                  Following(k) = IF call[k].kind = "Call" THEN "registering" ELSE "returned"
           /\ call[k].pc = "registering" =>
                  Following(k) = IF call[k].kind = "Call" THEN "waiting" ELSE "sending"
<1> DEFINE steps == Steps[call[k].kind]
           At(i) == i \in 1 .. 2 /\ steps[i] = call[k].pc
<1>1. CASE call[k].kind = "Call"
  <2>1. steps[1] = "sending" /\ steps[2] = "registering" /\ steps[3] = "waiting"
    BY <1>1 DEF Steps
  <2> HIDE DEF steps
  <2>2. call[k].pc = "sending" => (CHOOSE i \in 1 .. 2 : steps[i] = call[k].pc) = 1
    BY <2>1
  <2>3. call[k].pc = "registering" => (CHOOSE i \in 1 .. 2 : steps[i] = call[k].pc) = 2
    BY <2>1
  <2> QED
    BY <1>1, <2>1, <2>2, <2>3 DEF Following, steps
<1>2. CASE call[k].kind = "CallAsync"
  <2>1. steps[1] = "registering" /\ steps[2] = "sending" /\ steps[3] = "returned"
    BY <1>2 DEF Steps
  <2> HIDE DEF steps
  <2>2. call[k].pc = "registering" => (CHOOSE i \in 1 .. 2 : steps[i] = call[k].pc) = 1
    BY <2>1
  <2>3. call[k].pc = "sending" => (CHOOSE i \in 1 .. 2 : steps[i] = call[k].pc) = 2
    BY <2>1
  <2> QED
    BY <1>2, <2>1, <2>2, <2>3 DEF Following, steps
<1> QED
  BY <1>1, <1>2 DEF Kinds

(* Call sends first, CallAsync registers first.                            *)
LEMMA FirstStep ==
    /\ Steps["Call"][1] = "sending"
    /\ Steps["CallAsync"][1] = "registering"
  BY DEF Steps

(* Connect and Disconnect.                                                 *)
LEMMA ConnectionMoves ==
    ASSUME TypeOK, NEW c \in Clients, Connection(c)
    PROVE  Changes(c)
<1> USE DEF channelVars, clientVars
<1>1. /\ life \in [Clients -> Life] /\ poller \in [Clients -> Poller]
      /\ pending \in [Clients -> SUBSET Calls]
  BY DEF TypeOK
<1>2. CASE Connect(c)
  BY <1>1, <1>2 DEF Connect, Changes, Connects, PollerOff
<1>3. ASSUME NEW from, NEW to, Proceed(c, from, to)
      PROVE  /\ life[c] = from /\ life'[c] = to
             /\ \A d \in Clients \ {c} : life'[d] = life[d]
             /\ UNCHANGED <<poller, pending, abandoned, nextSeq, call, promise, requests,
                            answers, read>>
  BY <1>1, <1>3 DEF Proceed
<1>4. CASE ConnectDone(c) \/ Disconnect(c) \/ Join(c) \/ UnmapAfterReset(c) \/ DisconnectDone(c)
  BY <1>3, <1>4 DEF ConnectDone, Disconnect, Join, UnmapAfterReset, DisconnectDone,
                    Changes, Goes
<1>5. CASE ResetDrains(c)
  BY <1>5 DEF ResetDrains, Changes, Goes
<1>6. CASE ClearPending(c)
  BY <1>1, <1>6 DEF ClearPending, Changes, Clears
<1> QED
  BY <1>2, <1>4, <1>5, <1>6 DEF Connection

(* The callers.                                                            *)
LEMMA StartMoves ==
    ASSUME TypeOK, NEW k \in Calls, NEW c \in Clients, NEW kind \in Kinds,
           CallStart(k, c, kind)
    PROVE  Acts(k)
<1> USE DEF channelVars
<1>1. call \in [Calls -> Call] /\ nextSeq \in [Senders -> 1 .. MaxCalls + 1] /\ c \in Senders
  BY DEF TypeOK, Senders
<1>2. Steps[kind][1] = IF kind = "Call" THEN "sending" ELSE "registering"
  BY FirstStep DEF Kinds
<1>3. nextSeq[c] + 0 = nextSeq[c]
  BY <1>1, FieldTypes
<1>4. CASE Connected(c)
  <2>1. /\ call'[k].pc = Steps[kind][1] /\ call'[k].kind = kind /\ call'[k].client = c
        /\ call'[k].seq = nextSeq[c]
    BY <1>1, <1>4 DEF CallStart, Call
  <2>2. nextSeq'[c] = nextSeq[c] + 1
    BY <1>1, <1>4 DEF CallStart
  <2> QED
    BY <1>1, <1>2, <2>1, <2>2 DEF CallStart, Acts, Starts
<1>5. CASE ~Connected(c)
  <2>1. /\ call'[k].pc = "done" /\ call'[k].client = c /\ call'[k].seq = 0
    BY <1>1, <1>5 DEF CallStart, Call
  <2>2. nextSeq'[c] = nextSeq[c]
    BY <1>1, <1>3, <1>5 DEF CallStart
  <2> QED
    BY <1>1, <2>1, <2>2 DEF CallStart, Acts, Starts
<1> QED
  BY <1>4, <1>5

(* The server's SendAsync.                                                 *)
LEMMA SendAsyncMoves ==
    ASSUME TypeOK, NEW k \in Calls, SendAsync(k)
    PROVE  Acts(k)
<1>1. /\ call \in [Calls -> Call] /\ nextSeq \in [Senders -> 1 .. MaxCalls + 1]
      /\ requests \in [Workers -> Seq(Calls)] /\ Server \in Senders
  BY DEF TypeOK, Senders
<1>2. /\ call'[k].pc = "done" /\ call'[k].kind = "SendAsync" /\ call'[k].client = Server
      /\ call'[k].seq = nextSeq[Server]
      /\ \A j \in Calls \ {k} : call'[j] = call[j]
  BY <1>1 DEF SendAsync, Call
<1>3. /\ nextSeq'[Server] = nextSeq[Server] + 1
      /\ \A d \in Senders \ {Server} : nextSeq'[d] = nextSeq[d]
  BY <1>1 DEF SendAsync
<1>4. \A w \in Workers : requests'[w] \in {requests[w], Append(requests[w], k)}
  BY <1>1 DEF SendAsync
<1> QED
  BY <1>2, <1>3, <1>4 DEF SendAsync, Acts, Dispatches

(* A caller that has begun is sending, registering, waiting, or faults.    *)
LEMMA CallMoves ==
    ASSUME TypeOK, Made, NEW k \in Calls, CallRuns(k)
    PROVE  Acts(k)
<1> USE DEF channelVars, clientVars
<1>1. /\ call \in [Calls -> Call] /\ life \in [Clients -> Life]
      /\ pending \in [Clients -> SUBSET Calls] /\ requests \in [Workers -> Seq(Calls)]
      /\ call[k].client \in Clients /\ call[k].kind \in Kinds
  BY DEF TypeOK, Made, CallRuns
<1>2. CASE SendRequest(k)
  <2> DEFINE full == Len(requests[BestWorker]) >= Capacity
  <2>1. /\ call[k].pc = "sending" /\ Moved(k)
        /\ call'[k].pc = IF full THEN "done" ELSE Following(k)
        /\ \A j \in Calls \ {k} : call'[j] = call[j]
    BY <1>1, <1>2 DEF SendRequest, Call, Moved
  <2>2. CASE full
    <3>1. requests' = requests
      BY <1>1, <1>2, <2>2 DEF SendRequest
    <3>2. /\ pending'[call[k].client] = pending[call[k].client] \ {k}
          /\ \A d \in Clients \ {call[k].client} : pending'[d] = pending[d]
      BY <1>1, <1>2, <2>2 DEF SendRequest
    <3> QED
      BY <1>2, <2>1, <2>2, <3>1, <3>2 DEF SendRequest, Acts, Sends
  <2>3. CASE ~full
    <3>1. \A w \in Workers : requests'[w] \in {requests[w], Append(requests[w], k)}
      BY <1>1, <1>2, <2>3 DEF SendRequest
    <3>2. pending' = pending
      BY <1>1, <1>2, <2>3 DEF SendRequest
    <3> QED
      BY <1>1, <1>2, <2>1, <2>3, <3>1, <3>2, FollowingIs DEF SendRequest, Acts, Sends
  <2> QED
    BY <2>2, <2>3
<1>3. CASE SendFaults(k)
  BY <1>1, <1>3 DEF SendFaults, Acts, Faults
<1>4. CASE Register(k)
  <2>1. call'[k].pc = Following(k) /\ Moved(k)
    BY <1>1, <1>4 DEF Register, Call, Moved
  <2> QED
    BY <1>1, <1>4, <2>1, FollowingIs DEF Register, Acts, Registers
<1>5. CASE WaitReturns(k)
  BY <1>1, <1>5 DEF WaitReturns, Acts, Finishes, Call, Moved
<1>6. CASE WaitTimesOut(k)
  BY <1>1, <1>6 DEF WaitTimesOut, Acts, Finishes, Call, Moved
<1> QED
  BY <1>2, <1>3, <1>4, <1>5, <1>6 DEF CallRuns, CallStep

(* The poller.                                                             *)
LEMMA PollMoves ==
    ASSUME TypeOK, NEW c \in Clients, PollerRuns(c)
    PROVE  Polls(c)
<1> USE DEF channelVars, clientVars
<1>1. /\ poller \in [Clients -> Poller] /\ pending \in [Clients -> SUBSET Calls]
      /\ read \in [Workers -> 0 .. MaxAnswers] /\ poller[c].w \in Workers
  BY FieldTypes DEF TypeOK
<1>2. Alive(c) /\ Poll(c)
  BY DEF PollerRuns
<1>3. ASSUME NEW locals, PollerGoes(c, locals)
      PROVE  /\ poller'[c] = locals
             /\ \A d \in Clients \ {c} : poller'[d] = poller[d]
             /\ UNCHANGED <<pending, promise, read, life, nextSeq, call, requests, answers,
                            abandoned>>
  BY <1>1, <1>3 DEF PollerGoes
<1>4. CASE PollerEnds(c)
  <2>1. PollerOff.pc = "off"
    BY DEF PollerOff
  <2> QED
    BY <1>2, <1>3, <1>4, <2>1 DEF PollerEnds, Polls, Idles
<1>5. CASE PollerWakes(c)
  BY <1>1, <1>2, <1>5 DEF PollerWakes, Polls, Idles, Poller
<1>6. CASE PollScan(c)
  <2> DEFINE w == poller[c].w
  <2>1. CASE Queued(w) > 0
    <3>1. PollerGoes(c, [poller[c] EXCEPT !.pc = "peeking"])
      BY <1>6, <2>1 DEF PollScan
    <3>2. poller'[c] = [poller[c] EXCEPT !.pc = "peeking"]
      BY <1>3, <3>1
    <3>3. /\ poller'[c].pc = "peeking" /\ poller'[c].w = poller[c].w
      BY <1>1, <3>2 DEF Poller
    <3>4. Queued(poller[c].w) > 0
      BY <2>1
    <3>5. poller[c].pc = "scanning"
      BY <1>6 DEF PollScan
    <3>6. UNCHANGED <<pending, promise, read>>
      BY <1>3, <3>1
    <3>7. Scans(c)
      BY <3>3, <3>4, <3>5, <3>6 DEF Scans
    <3> QED
      BY <1>2, <1>3, <3>1, <3>7 DEF Polls
  <2>2. CASE ~(Queued(w) > 0)
    <3>1. \/ PollerGoes(c, [poller[c] EXCEPT !.w = w + 1])
          \/ PollerGoes(c, [poller[c] EXCEPT !.pc = "waiting", !.w = 1])
      BY <1>6, <2>2 DEF PollScan
    <3>2. \/ poller'[c] = [poller[c] EXCEPT !.w = w + 1]
          \/ poller'[c] = [poller[c] EXCEPT !.pc = "waiting", !.w = 1]
      BY <1>3, <3>1
    <3>3. poller[c].pc = "scanning"
      BY <1>6 DEF PollScan
    <3>4. poller'[c].pc \in {"scanning", "waiting"}
      BY <1>1, <3>2, <3>3 DEF Poller
    <3>5. UNCHANGED <<pending, promise, read>>
      BY <1>3, <3>1
    <3>6. Scans(c)
      BY <3>3, <3>4, <3>5 DEF Scans
    <3> QED
      BY <1>2, <1>3, <3>1, <3>6 DEF Polls
  <2> QED
    BY <2>1, <2>2
<1>7. CASE PollPeek(c)
  <2> DEFINE w == poller[c].w
  <2>1. CASE Queued(w) > 0
    <3>1. PollerGoes(c, [poller[c] EXCEPT !.pc = "finding", !.read = read[poller[c].w]])
      BY <1>7, <2>1 DEF PollPeek
    <3>2. poller'[c] = [poller[c] EXCEPT !.pc = "finding", !.read = read[poller[c].w]]
      BY <1>3, <3>1
    <3>3. /\ poller'[c].pc = "finding" /\ poller'[c].w = poller[c].w
          /\ poller'[c].read = read[poller[c].w]
      BY <1>1, <3>2 DEF Poller
    <3>4. Queued(poller[c].w) > 0
      BY <2>1
    <3>5. poller[c].pc = "peeking"
      BY <1>7 DEF PollPeek
    <3> QED
      BY <1>2, <1>3, <3>1, <3>3, <3>4, <3>5 DEF Polls, Peeks
  <2>2. CASE ~(Queued(w) > 0)
    <3>1. PollerGoes(c, [poller[c] EXCEPT !.pc = "popping"])
      BY <1>7, <2>2 DEF PollPeek
    <3> QED
      BY <1>1, <1>2, <1>3, <1>7, <2>2, <3>1 DEF PollPeek, Polls, Peeks, Poller
  <2> QED
    BY <2>1, <2>2
<1>8. CASE PollFind(c)
  <2>1. /\ poller[c].pc = "finding"
        /\ pending'[c] = pending[c] \ Matching(c)
        /\ \A d \in Clients \ {c} : poller'[d] = poller[d] /\ pending'[d] = pending[d]
        /\ UNCHANGED <<life, nextSeq, call, requests, answers, abandoned, promise, read>>
    BY <1>1, <1>8 DEF PollFind
  <2>2. CASE Matching(c) = {}
    <3>1. poller'[c].w = poller[c].w /\ poller'[c].pc = "popping"
      BY <1>1, <1>8, <2>2 DEF PollFind, Poller
    <3> QED
      BY <1>2, <2>1, <2>2, <3>1 DEF Polls, Finds
  <2>3. CASE Matching(c) # {}
    <3>1. /\ poller'[c].w = poller[c].w /\ poller'[c].pc = "setting"
          /\ poller'[c].read = poller[c].read
          /\ poller'[c].found = CHOOSE k \in Matching(c) : TRUE
      BY <1>1, <1>8, <2>3 DEF PollFind, Poller
    <3>2. (CHOOSE k \in Matching(c) : TRUE) \in Matching(c)
      BY <2>3
    <3> QED
      BY <1>2, <2>1, <3>1, <3>2 DEF Polls, Finds
  <2> QED
    BY <2>2, <2>3
<1>9. CASE PollSet(c)
  BY <1>1, <1>2, <1>9 DEF PollSet, Polls, Sets, Poller
<1>10. CASE PollPop(c)
  <2> DEFINE w == poller[c].w
  <2>1. CASE Queued(w) > 0
    <3>1. PollerGoes(c, [poller[c] EXCEPT !.pc = "releasing", !.read = read[poller[c].w]])
      BY <1>10, <2>1 DEF PollPop
    <3>2. poller'[c] = [poller[c] EXCEPT !.pc = "releasing", !.read = read[poller[c].w]]
      BY <1>3, <3>1
    <3>3. /\ poller'[c].pc = "releasing" /\ poller'[c].w = poller[c].w
          /\ poller'[c].read = read[poller[c].w]
      BY <1>1, <3>2 DEF Poller
    <3>4. Queued(poller[c].w) > 0
      BY <2>1
    <3>5. poller[c].pc = "popping"
      BY <1>10 DEF PollPop
    <3> QED
      BY <1>2, <1>3, <3>1, <3>3, <3>4, <3>5 DEF Polls, Pops
  <2>2. CASE ~(Queued(w) > 0)
    <3>1. PollerGoes(c, [poller[c] EXCEPT !.pc = "scanning"])
      BY <1>10, <2>2 DEF PollPop
    <3> QED
      BY <1>1, <1>2, <1>3, <1>10, <2>2, <3>1 DEF PollPop, Polls, Pops, Poller
  <2> QED
    BY <2>1, <2>2
<1>11. CASE PollRelease(c)
  BY <1>1, <1>2, <1>11 DEF PollRelease, Polls, Releases, Poller
<1> QED
  BY <1>2, <1>4, <1>5, <1>6, <1>7, <1>8, <1>9, <1>10, <1>11 DEF Poll

(* The workers.                                                            *)
LEMMA ServeMoves ==
    ASSUME TypeOK, NEW w \in Workers, WorkerAnswers(w) \/ WorkerNotifies(w) \/ WorkerPops(w)
    PROVE  Serves(w)
<1>1. answers \in [Workers -> Seq(Calls)] /\ requests \in [Workers -> Seq(Calls)]
  BY DEF TypeOK
<1> QED
  BY <1>1 DEF WorkerAnswers, WorkerNotifies, WorkerPops, Serves, Answers, Drops, clientVars

(* Every step is one of the moves.                                         *)
LEMMA StepMoves ==
    ASSUME TypeOK, Made, [Next]_vars
    PROVE  Moves
  BY ConnectionMoves, StartMoves, SendAsyncMoves, CallMoves, PollMoves, ServeMoves
     DEF Next, Moves
-----------------------------------------------------------------------------
(* Connect and Disconnect keep the types.                                  *)
LEMMA ConnectionTypes ==
    ASSUME TypeOK, NEW c \in Clients, Connection(c)
    PROVE  TypeOK'
<1> USE DEF clientVars, channelVars
<1>1. 1 \in Workers /\ 0 \in 0 .. MaxAnswers
  BY WorkerCountAssumption, MaxAnswersAssumption DEF Workers
<1>2. CASE Connect(c)
  <2>1. [PollerOff EXCEPT !.pc = "waiting"] \in Poller
    BY <1>1 DEF PollerOff, Poller
  <2>2. connects[c] \in 0 .. MaxConnects /\ connects[c] < MaxConnects
    BY <1>2 DEF TypeOK, Connect
  <2>3. connects[c] + 1 \in 0 .. MaxConnects
    BY <2>2, MaxConnectsAssumption
  <2> QED
    BY <1>2, <2>1, <2>3 DEF Connect, TypeOK, Life
<1>3. ASSUME NEW from, NEW to \in Life, Proceed(c, from, to)
      PROVE  TypeOK'
  BY <1>3 DEF Proceed, TypeOK
<1>4. CASE ConnectDone(c) \/ Disconnect(c) \/ Join(c) \/ UnmapAfterReset(c) \/ DisconnectDone(c)
  <2>1. {"connected", "joining", "resetting", "unmapped", "clearing"} \subseteq Life
    BY DEF Life
  <2> QED
    BY <1>3, <1>4, <2>1
       DEF ConnectDone, Disconnect, Join, UnmapAfterReset, DisconnectDone
<1>5. CASE ResetDrains(c)
  BY <1>5 DEF ResetDrains, TypeOK
<1>6. CASE ClearPending(c)
  BY <1>6 DEF ClearPending, TypeOK, Life
<1> QED
  BY <1>2, <1>4, <1>5, <1>6 DEF Connection

(* The callers: there are as many numbers as there are calls.              *)
LEMMA StartTypes ==
    ASSUME TypeOK, Numbered, NEW k \in Calls, NEW c \in Clients, NEW kind \in Kinds,
           CallStart(k, c, kind)
    PROVE  TypeOK'
<1> USE DEF clientVars, channelVars
<1>1. nextSeq[c] <= k /\ nextSeq[c] \in 1 .. MaxCalls + 1 /\ k \in 1 .. MaxCalls
      /\ c \in Senders
  BY DEF Numbered, CallStart, TypeOK, Calls, Senders
<1>2. nextSeq[c] \in 0 .. MaxCalls /\ nextSeq[c] + 1 \in 1 .. MaxCalls + 1
      /\ nextSeq[c] + 0 \in 1 .. MaxCalls + 1 /\ 0 \in 0 .. MaxCalls
  BY <1>1, MaxCallsAssumption
<1>3. nextSeq' \in [Senders -> 1 .. MaxCalls + 1]
  BY <1>2 DEF CallStart, TypeOK
<1>4. Steps[kind][1] \in {"sending", "registering"}
  BY FirstStep DEF Kinds
<1> DEFINE pc == IF Connected(c) THEN Steps[kind][1] ELSE "done"
           seq == IF Connected(c) THEN nextSeq[c] ELSE 0
           result == IF Connected(c) THEN "none" ELSE "error"
           next == [call[k] EXCEPT !.pc = pc, !.kind = kind, !.client = c, !.seq = seq,
                                   !.since = connects[c], !.result = result]
<1>5. /\ pc \in {"sending", "registering", "done"} /\ seq \in 0 .. MaxCalls
      /\ result \in {"none", "error"} /\ connects[c] \in 0 .. MaxConnects
      /\ call[k] \in Call
  BY <1>2, <1>4 DEF TypeOK
<1>6. call' = [call EXCEPT ![k] = next]
  BY DEF CallStart, TypeOK
<1> HIDE DEF pc, seq, result
<1>7. next \in Call
  BY <1>1, <1>5 DEF Call
<1> HIDE DEF next
<1>8. call' \in [Calls -> Call]
  BY <1>6, <1>7 DEF TypeOK
<1> QED
  BY <1>3, <1>8 DEF CallStart, TypeOK

(* The server's requests count as calls.                                   *)
LEMMA SendAsyncTypes ==
    ASSUME TypeOK, Numbered, NEW k \in Calls, SendAsync(k)
    PROVE  TypeOK'
<1>1. nextSeq[Server] <= k /\ nextSeq[Server] \in 1 .. MaxCalls + 1 /\ k \in 1 .. MaxCalls
      /\ Server \in Senders
  BY DEF Numbered, SendAsync, TypeOK, Calls, Senders
<1>2. nextSeq[Server] \in 0 .. MaxCalls /\ nextSeq[Server] + 1 \in 1 .. MaxCalls + 1
  BY <1>1, MaxCallsAssumption
<1>3. nextSeq' \in [Senders -> 1 .. MaxCalls + 1]
  BY <1>2 DEF SendAsync, TypeOK
<1> DEFINE result == IF Len(requests[BestWorker]) >= Capacity THEN "error" ELSE "placeholder"
           next == [call[k] EXCEPT !.pc = "done", !.kind = "SendAsync", !.client = Server,
                                   !.seq = nextSeq[Server], !.result = result]
           queue == IF Len(requests[BestWorker]) >= Capacity THEN requests[BestWorker]
                    ELSE Append(requests[BestWorker], k)
<1>4. call' = [call EXCEPT ![k] = next] /\ call[k] \in Call
  BY DEF SendAsync, TypeOK
<1>5. requests' = [requests EXCEPT ![BestWorker] = queue]
  BY DEF SendAsync
<1>6. requests \in [Workers -> Seq(Calls)]
  BY DEF TypeOK
<1>7. BestWorker \in Workers => queue \in Seq(Calls)
  BY <1>6
<1>8. result \in {"error", "placeholder"}
  OBVIOUS
<1> HIDE DEF queue, result
<1>9. requests' \in [Workers -> Seq(Calls)]
  BY <1>5, <1>6, <1>7
<1>10. next \in Call
  BY <1>1, <1>2, <1>4, <1>8 DEF Call
<1> HIDE DEF next
<1>11. call' \in [Calls -> Call]
  BY <1>4, <1>10 DEF TypeOK
<1> QED
  BY <1>3, <1>9, <1>11 DEF SendAsync, TypeOK

(* The other steps of the callers keep the types.                          *)
LEMMA CallTypes ==
    ASSUME TypeOK, Made, NEW k \in Calls, CallRuns(k)
    PROVE  TypeOK'
<1> USE DEF clientVars, channelVars
<1>1. call \in [Calls -> Call] /\ call[k] \in Call /\ call[k].client \in Clients
      /\ call[k].kind \in Kinds
  BY DEF TypeOK, Made, CallRuns
<1>2. Following(k) \in {"registering", "sending", "waiting", "returned"}
      \/ call[k].pc \notin {"sending", "registering"}
  BY <1>1, FollowingIs
<1>3. ASSUME NEW pc \in {"registering", "sending", "waiting", "returned", "done"},
             NEW result \in {"none", "answer", "timeout", "error", "placeholder"},
             call' = [call EXCEPT ![k].pc = pc, ![k].result = result]
      PROVE  call' \in [Calls -> Call]
  BY <1>1, <1>3 DEF Call
<1>4. call[k].result \in {"none", "answer", "timeout", "error", "placeholder"}
  BY <1>1 DEF Call
<1>5. CASE SendRequest(k)
  <2>1. call' \in [Calls -> Call]
    <3> DEFINE full == Len(requests[BestWorker]) >= Capacity
               pc == IF full THEN "done" ELSE Following(k)
               result == IF full THEN "error" ELSE call[k].result
    <3>1. call' = [call EXCEPT ![k].pc = pc, ![k].result = result]
      BY <1>1, <1>5 DEF SendRequest
    <3>2. /\ pc \in {"registering", "sending", "waiting", "returned", "done"}
          /\ result \in {"none", "answer", "timeout", "error", "placeholder"}
      BY <1>2, <1>4, <1>5 DEF SendRequest
    <3> HIDE DEF pc, result
    <3> QED
      BY <1>3, <3>1, <3>2
  <2>2. requests' \in [Workers -> Seq(Calls)]
    <3> DEFINE queue == IF Len(requests[BestWorker]) >= Capacity THEN requests[BestWorker]
                        ELSE Append(requests[BestWorker], k)
    <3>1. requests' = [requests EXCEPT ![BestWorker] = queue]
      BY <1>5 DEF SendRequest
    <3>2. requests \in [Workers -> Seq(Calls)]
      BY DEF TypeOK
    <3>3. BestWorker \in Workers => queue \in Seq(Calls)
      BY <3>2
    <3> HIDE DEF queue
    <3> QED
      BY <3>1, <3>2, <3>3
  <2>3. pending' \in [Clients -> SUBSET Calls]
    BY <1>5 DEF SendRequest, TypeOK
  <2> QED
    BY <1>5, <2>1, <2>2, <2>3 DEF SendRequest, TypeOK
<1>6. CASE SendFaults(k)
  BY <1>6 DEF SendFaults, TypeOK, Life
<1>7. CASE Register(k)
  <2>1. call' \in [Calls -> Call]
    BY <1>1, <1>2, <1>7 DEF Register, Call
  <2>2. pending' \in [Clients -> SUBSET Calls]
    BY <1>7 DEF Register, TypeOK
  <2> QED
    BY <1>7, <2>1, <2>2 DEF Register, TypeOK
<1>8. CASE WaitReturns(k)
  <2>1. call' \in [Calls -> Call]
    BY <1>1, <1>8 DEF WaitReturns, Call
  <2> QED
    BY <1>8, <2>1 DEF WaitReturns, TypeOK
<1>9. CASE WaitTimesOut(k)
  <2>1. call' \in [Calls -> Call]
    BY <1>1, <1>9 DEF WaitTimesOut, Call
  <2>2. pending' \in [Clients -> SUBSET Calls]
    BY <1>9 DEF WaitTimesOut, TypeOK
  <2> QED
    BY <1>9, <2>1, <2>2 DEF WaitTimesOut, TypeOK
<1> QED
  BY <1>5, <1>6, <1>7, <1>8, <1>9 DEF CallRuns, CallStep

(* The poller: what it reads is an answer.                                 *)
LEMMA HeaderIsCall ==
    ASSUME TypeOK, Reading, NEW c \in Clients, poller[c].pc \in {"finding", "setting"}
    PROVE  Header(c) \in Calls
<1>1. /\ answers[poller[c].w] \in Seq(Calls) /\ poller[c].read \in Nat
      /\ poller[c].read < Len(answers[poller[c].w])
  BY FieldTypes DEF Reading
<1> QED
  BY <1>1 DEF Header

(* The steps of ResponsePollerMain keep the types.                         *)
LEMMA PollTypes ==
    ASSUME TypeOK, Reading, NEW c \in Clients, Poll(c)
    PROVE  TypeOK'
<1> USE DEF clientVars, channelVars
<1> DEFINE w == poller[c].w
<1>1. /\ poller \in [Clients -> Poller] /\ poller[c] \in Poller
      /\ w \in Workers /\ w \in Int /\ read[w] \in 0 .. MaxAnswers
      /\ 1 \in Workers /\ 0 \in 0 .. MaxAnswers
  BY WorkerCountAssumption, MaxAnswersAssumption DEF TypeOK, Poller, Workers
<1>2. ASSUME NEW locals \in Poller, PollerGoes(c, locals)
      PROVE  TypeOK'
  BY <1>2 DEF PollerGoes, TypeOK
<1>3. CASE PollerEnds(c)
  BY <1>1, <1>2, <1>3 DEF PollerEnds, PollerOff, Poller
<1>4. CASE PollerWakes(c)
  <2>1. poller' \in [Clients -> Poller]
    BY <1>1, <1>4 DEF PollerWakes, Poller
  <2> QED
    BY <1>4, <2>1 DEF PollerWakes, TypeOK
<1>5. CASE PollScan(c)
  <2>1. w < WorkerCount => w + 1 \in Workers
    BY <1>1, WorkerCountAssumption DEF Workers
  <2>2. /\ [poller[c] EXCEPT !.pc = "peeking"] \in Poller
        /\ w < WorkerCount => [poller[c] EXCEPT !.w = w + 1] \in Poller
        /\ [poller[c] EXCEPT !.pc = "waiting", !.w = 1] \in Poller
    BY <1>1, <2>1 DEF Poller
  <2> QED
    BY <1>2, <1>5, <2>2 DEF PollScan
<1>6. CASE PollPeek(c)
  <2>1. /\ [poller[c] EXCEPT !.pc = "finding", !.read = read[w]] \in Poller
        /\ [poller[c] EXCEPT !.pc = "popping"] \in Poller
    BY <1>1 DEF Poller
  <2> QED
    BY <1>2, <1>6, <2>1 DEF PollPeek
<1>7. CASE PollFind(c)
  <2> DEFINE none == Matching(c) = {}
             pc == IF none THEN "popping" ELSE "setting"
             index == IF none THEN 0 ELSE poller[c].read
             found == IF none THEN NoCall ELSE CHOOSE k \in Matching(c) : TRUE
             next == [poller[c] EXCEPT !.pc = pc, !.read = index, !.found = found]
  <2>1. poller' = [poller EXCEPT ![c] = next]
    BY <1>1, <1>7 DEF PollFind
  <2>2. Matching(c) \subseteq Calls
    BY DEF Matching, TypeOK
  <2>3. pc \in {"popping", "setting"} /\ index \in 0 .. MaxAnswers
        /\ found \in Calls \cup {NoCall}
    <3>1. found = NoCall \/ found \in Matching(c)
      OBVIOUS
    <3>2. index \in 0 .. MaxAnswers
      BY <1>1 DEF Poller
    <3> QED
      BY <2>2, <3>1, <3>2
  <2> HIDE DEF pc, index, found
  <2>4. next \in Poller
    BY <1>1, <2>3 DEF Poller
  <2> HIDE DEF next
  <2>5. poller' \in [Clients -> Poller]
    BY <1>1, <2>1, <2>4
  <2>6. pending' \in [Clients -> SUBSET Calls]
    BY <1>7 DEF PollFind, TypeOK
  <2> QED
    BY <1>7, <2>5, <2>6 DEF PollFind, TypeOK
<1>8. CASE PollSet(c)
  <2>1. Header(c) \in Calls
    BY <1>8, HeaderIsCall DEF PollSet
  <2>2. poller' \in [Clients -> Poller]
    BY <1>1, <1>8 DEF PollSet, Poller
  <2>3. promise' \in [Calls -> Calls \cup {NoCall}]
    BY <1>8, <2>1 DEF PollSet, TypeOK
  <2> QED
    BY <1>8, <2>2, <2>3 DEF PollSet, TypeOK
<1>9. CASE PollPop(c)
  <2>1. /\ [poller[c] EXCEPT !.pc = "releasing", !.read = read[w]] \in Poller
        /\ [poller[c] EXCEPT !.pc = "scanning"] \in Poller
    BY <1>1 DEF Poller
  <2> QED
    BY <1>2, <1>9, <2>1 DEF PollPop
<1>10. CASE PollRelease(c)
  <2>1. poller[c].read < Len(answers[w]) /\ Len(answers[w]) <= MaxAnswers
    BY <1>1, <1>10 DEF PollRelease, Reading
  <2>2. poller[c].read \in Nat /\ Len(answers[w]) \in Nat
    BY FieldTypes
  <2>3. poller[c].read + 1 \in 0 .. MaxAnswers
    BY <2>1, <2>2, MaxAnswersAssumption
  <2>4. poller' \in [Clients -> Poller]
    BY <1>1, <1>10 DEF PollRelease, Poller
  <2>5. read' \in [Workers -> 0 .. MaxAnswers]
    BY <1>10, <2>3 DEF PollRelease, TypeOK
  <2> QED
    BY <1>10, <2>4, <2>5 DEF PollRelease, TypeOK
<1> QED
  BY <1>3, <1>4, <1>5, <1>6, <1>7, <1>8, <1>9, <1>10 DEF Poll

(* The workers.                                                            *)
LEMMA ServeTypes ==
    ASSUME TypeOK, NEW w \in Workers, WorkerAnswers(w) \/ WorkerNotifies(w) \/ WorkerPops(w)
    PROVE  TypeOK'
<1> USE DEF clientVars, channelVars
<1>1. requests[w] \in Seq(Calls) /\ answers[w] \in Seq(Calls)
  BY DEF TypeOK
<1>2. CASE WorkerAnswers(w)
  <2>1. Append(answers[w], Head(requests[w])) \in Seq(Calls)
    BY <1>1, <1>2 DEF WorkerAnswers
  <2> QED
    BY <1>2, <2>1 DEF WorkerAnswers, TypeOK
<1>3. CASE WorkerNotifies(w)
  <2>1. signal' \in [Clients -> BOOLEAN]
    <3>1. \A c \in Clients : (signal[c] \/ (Notified /\ Alive(c))) \in BOOLEAN
      BY Zenon
    <3> QED
      BY <1>3, <3>1, Zenon DEF WorkerNotifies
  <2> QED
    BY <1>3, <2>1 DEF WorkerNotifies, TypeOK
<1>4. CASE WorkerPops(w)
  <2>1. Tail(requests[w]) \in Seq(Calls)
    BY <1>1, <1>4 DEF WorkerPops
  <2> QED
    BY <1>4, <2>1 DEF WorkerPops, TypeOK
<1> QED
  BY <1>2, <1>3, <1>4

(* Every step does.                                                        *)
LEMMA TypeStep ==
    ASSUME TypeOK, Numbered, Made, Reading, [Next]_vars
    PROVE  TypeOK'
<1>1. CASE UNCHANGED vars
  BY <1>1 DEF TypeOK, vars, clientVars, channelVars
<1> QED
  BY <1>1, ConnectionTypes, StartTypes, SendAsyncTypes, CallTypes, PollTypes, ServeTypes
     DEF Next, PollerRuns
-----------------------------------------------------------------------------
(* What a call was, it stays.                                              *)
LEMMA CallKept ==
    ASSUME TypeOK, Moves, NEW k \in Calls
    PROVE  /\ Entered(k) => (Entered(k)' /\ call'[k].client = call[k].client)
           /\ WasSent(k) => WasSent(k)'
<1>2. CASE call'[k] = call[k]
  BY <1>2 DEF Entered, WasSent
<1>3. CASE Acts(k)
  <2>1. CASE Starts(k)
    BY <2>1 DEF Starts, Entered, WasSent
  <2>6. CASE Dispatches(k)
    BY <2>6 DEF Dispatches, Entered, WasSent
  <2>2. CASE Sends(k)
    BY <2>2 DEF Sends, Moved, Entered, WasSent, Kinds
  <2>3. CASE Faults(k)
    BY <2>3 DEF Faults, Entered, WasSent
  <2>4. CASE Registers(k)
    BY <2>4 DEF Registers, Moved, Entered, WasSent, Kinds
  <2>5. CASE Finishes(k)
    BY <2>5 DEF Finishes, Moved, Entered, WasSent, Kinds
  <2> QED
    BY <1>3, <2>1, <2>2, <2>3, <2>4, <2>5, <2>6 DEF Acts
<1>4. call'[k] = call[k] \/ Acts(k)
  BY DEF Moves, Changes, Acts, Polls, Serves, vars, clientVars
<1> QED
  BY <1>2, <1>3, <1>4

(* Disconnect goes on when the poller has ended, and only Connect starts   *)
(* one.                                                                    *)
LEMMA PollerJoinedStep ==
    ASSUME PollerJoined, Moves
    PROVE  PollerJoined'
<1> SUFFICES ASSUME NEW d \in Clients,
                    life'[d] \in {"off", "resetting", "unmapped", "clearing"}
             PROVE  poller'[d].pc = "off"
  BY DEF PollerJoined
<1>1. ASSUME life'[d] = life[d] PROVE poller[d].pc = "off"
  BY <1>1 DEF PollerJoined
<1>2. ASSUME NEW c \in Clients, Changes(c) PROVE poller'[d].pc = "off"
  <2>1. CASE d # c
    BY <1>1, <1>2, <2>1 DEF Changes
  <2>2. CASE d = c /\ Connects(c)
    BY <2>2 DEF Connects
  <2>3. CASE d = c /\ Goes(c)
    BY <2>3 DEF Goes, PollerJoined
  <2>4. CASE d = c /\ Clears(c)
    BY <2>4 DEF Clears, PollerJoined
  <2> QED
    BY <1>2, <2>1, <2>2, <2>3, <2>4 DEF Changes
<1>3. ASSUME NEW c \in Clients, Polls(c) PROVE poller'[d].pc = "off"
  <2>1. poller[d].pc = "off"
    BY <1>1, <1>3 DEF Polls
  <2>2. poller[c].pc # "off"
    BY <1>3 DEF Polls, Idles, Scans, Peeks, Finds, Sets, Pops, Releases
  <2> QED
    BY <1>3, <2>1, <2>2 DEF Polls
<1>4. ASSUME NEW k \in Calls, Acts(k) PROVE poller'[d].pc = "off"
  <2>1. life'[d] = life[d]
    BY <1>4 DEF Acts, Starts, Dispatches, Sends, Faults, Registers, Finishes
  <2> QED
    BY <1>1, <1>4, <2>1 DEF Acts
<1>5. ASSUME NEW w \in Workers, Serves(w) PROVE poller'[d].pc = "off"
  BY <1>1, <1>5 DEF Serves
<1>6. CASE UNCHANGED vars
  BY <1>1, <1>6 DEF vars, clientVars
<1> QED
  BY <1>2, <1>3, <1>4, <1>5, <1>6 DEF Moves

(* The calls begin in their order, so that a client has taken no more      *)
(* numbers than there are calls.                                           *)
LEMMA NumberedStep ==
    ASSUME TypeOK, Numbered, Moves
    PROVE  Numbered'
<1>1. CASE UNCHANGED <<call, nextSeq>>
  BY <1>1 DEF Numbered
<1>2. ASSUME NEW k \in Calls, Acts(k)
      PROVE  Numbered'
  <2>1. /\ \A c \in Senders : nextSeq[c] \in Nat \ {0}
        /\ \A j \in Calls : j \in Nat /\ call[j].seq \in Nat /\ call[j].client \in Senders
    BY FieldTypes
  <2>2. \A j \in Calls \ {k} : call'[j] = call[j]
    BY <1>2 DEF Acts
  <2>3. CASE Starts(k) \/ Dispatches(k)
    <3> DEFINE c == call'[k].client
    <3>1. /\ c \in Senders /\ call'[k].pc # "idle"
          /\ nextSeq'[c] = nextSeq[c] \/ nextSeq'[c] = nextSeq[c] + 1
          /\ \A d \in Senders \ {c} : nextSeq'[d] = nextSeq[d]
          /\ call[k].pc = "idle" /\ \A j \in 1 .. k - 1 : call[j].pc # "idle"
      BY <2>3 DEF Starts, Dispatches, Senders
    <3>2. \A d \in Senders : nextSeq[d] <= nextSeq'[d] /\ nextSeq'[d] <= nextSeq[d] + 1
                             /\ nextSeq'[d] \in Nat
      BY <2>1, <3>1
    <3>3. \A j \in Calls : \A d \in Senders : call'[j].pc = "idle" => nextSeq'[d] <= j
      <4> SUFFICES ASSUME NEW j \in Calls, NEW d \in Senders, call'[j].pc = "idle"
                   PROVE  nextSeq'[d] <= j
        OBVIOUS
      <4>1. j # k /\ call[j].pc = "idle"
        BY <2>2, <3>1
      <4>2. j > k
        BY <3>1, <4>1, MaxCallsAssumption DEF Calls
      <4>3. nextSeq[d] <= k
        BY <3>1 DEF Numbered
      <4> QED
        BY <2>1, <3>2, <4>2, <4>3
    <3>4. \A j \in Calls \ {k} :
              /\ call'[j].seq < nextSeq'[call'[j].client]
              /\ call'[j].pc \in {"registering", "sending", "waiting", "returned"} =>
                     call'[j].seq > 0
      BY <2>1, <2>2, <3>2 DEF Numbered
    <3>5. /\ call'[k].seq < nextSeq'[c]
          /\ call'[k].pc \in {"registering", "sending", "waiting", "returned"} => call'[k].seq > 0
      BY <2>1, <2>3, <3>1 DEF Starts, Dispatches
    <3> QED
      BY <3>3, <3>4, <3>5 DEF Numbered
  <2>4. CASE Sends(k) \/ Faults(k) \/ Registers(k) \/ Finishes(k)
    <3>1. nextSeq' = nextSeq
      BY <2>4 DEF Sends, Faults, Registers, Finishes
    <3>2. \/ call' = call
          \/ /\ call[k].pc \in {"registering", "sending", "waiting", "returned"} /\ Moved(k)
             /\ call'[k].pc # "idle"
      BY <2>1, <2>4 DEF Sends, Faults, Registers, Finishes
    <3> QED
      BY <1>1, <2>2, <3>1, <3>2 DEF Numbered, Moved
  <2> QED
    BY <1>2, <2>3, <2>4 DEF Acts
<1>3. (\E k \in Calls : Acts(k)) \/ UNCHANGED <<call, nextSeq>>
  BY DEF Moves, Changes, Polls, Serves, vars, clientVars
<1> QED
  BY <1>1, <1>2, <1>3

(* Who has made a call stays the same.                                     *)
LEMMA MadeStep ==
    ASSUME Made, Moves
    PROVE  Made'
<1>1. Server \notin Clients /\ "SendAsync" \notin Kinds
  BY ClientsAssumption DEF Kinds
<1>2. ASSUME NEW k \in Calls
      PROVE  call'[k].client \in Clients <=> call'[k].kind \in Kinds
  <2>1. CASE call'[k] = call[k] \/ (call'[k].client = call[k].client /\ call'[k].kind = call[k].kind)
    BY <2>1 DEF Made
  <2>2. CASE Starts(k)
    BY <2>2 DEF Starts
  <2>3. CASE Dispatches(k)
    BY <1>1, <2>3 DEF Dispatches
  <2>4. \/ call'[k] = call[k]
        \/ call'[k].client = call[k].client /\ call'[k].kind = call[k].kind
        \/ Starts(k) \/ Dispatches(k)
    BY DEF Moves, Changes, Acts, Sends, Faults, Registers, Finishes, Moved, Polls, Serves, vars
  <2> QED
    BY <2>1, <2>2, <2>3, <2>4
<1> QED
  BY <1>2 DEF Made

(* An entry goes when its call ends, and one that was answered had been    *)
(* taken out before.                                                       *)
LEMMA EntriesStep ==
    ASSUME TypeOK, Entries, Taken, Moves
    PROVE  Entries'
<1> SUFFICES ASSUME NEW d \in Clients, NEW j \in pending'[d]
             PROVE  call'[j].client = d /\ promise'[j] = NoCall /\ Listed(j)'
  BY DEF Entries
<1> DEFINE Goal == call'[j].client = d /\ promise'[j] = NoCall /\ Listed(j)'
<1>1. ASSUME j \in pending[d]
      PROVE  j \in Calls /\ call[j].client = d /\ promise[j] = NoCall /\ Listed(j)
  BY <1>1, FieldTypes DEF Entries
<1>2. ASSUME j \in pending[d], call'[j] = call[j], promise' = promise PROVE Goal
  BY <1>1, <1>2 DEF Listed
<1>3. ASSUME NEW c \in Clients, Changes(c) PROVE Goal
  <2>1. pending'[d] \subseteq pending[d]
    BY <1>3 DEF Changes, Connects, Goes, Clears
  <2> QED
    BY <1>2, <1>3, <2>1 DEF Changes
<1>4. ASSUME NEW k \in Calls, Acts(k) PROVE Goal
  <2>1. /\ \A i \in Calls \ {k} : call'[i] = call[i]
        /\ promise' = promise
    BY <1>4 DEF Acts
  <2>2. ASSUME j \in pending[d], j # k PROVE Goal
    BY <1>1, <1>2, <2>1, <2>2
  <2>4. CASE Starts(k) \/ Dispatches(k)
    <3>1. j \in pending[d] /\ ~Listed(k)
      BY <2>4 DEF Starts, Dispatches, Listed
    <3> QED
      BY <1>1, <2>2, <3>1
  <2>5. CASE Sends(k)
    <3>1. j \in pending[d]
      BY <2>5 DEF Sends
    <3>2. CASE j = k
      <4>1. call[k].client = d /\ Listed(k) /\ promise[k] = NoCall
        BY <1>1, <3>1, <3>2
      <4>2. call[k].kind = "CallAsync" /\ Moved(k)
        BY <2>5, <4>1 DEF Listed, Sends, Moved, Kinds
      <4>3. call'[k].pc = "returned"
        BY <2>5, <3>2, <4>1, <4>2 DEF Sends
      <4> QED
        BY <2>1, <3>2, <4>1, <4>2, <4>3 DEF Listed, Moved
    <3> QED
      BY <2>2, <3>1, <3>2
  <2>6. CASE Faults(k)
    <3>1. j \in pending[d] /\ call' = call
      BY <2>6 DEF Faults
    <3> QED
      BY <1>2, <2>1, <3>1
  <2>7. CASE Registers(k)
    <3>1. j \in pending[d] \/ (j = k /\ d = call[k].client)
      BY <2>7 DEF Registers, Moved
    <3>2. CASE j = k
      <4>1. ~Listed(k) /\ ~Entered(k)
        BY <2>7 DEF Registers, Listed, Entered
      <4>2. d = call[k].client /\ promise[k] = NoCall
        BY <1>1, <3>1, <3>2, <4>1 DEF Taken
      <4>3. call'[k].pc = IF call[k].kind = "Call" THEN "waiting" ELSE "sending"
        BY <2>7 DEF Registers
      <4>4. Listed(k)' /\ call'[k].client = d
        BY <2>7, <4>2, <4>3 DEF Listed, Registers, Moved
      <4> QED
        BY <2>1, <3>2, <4>2, <4>4
    <3> QED
      BY <2>2, <3>1, <3>2
  <2>8. CASE Finishes(k)
    <3>1. j \in pending[d]
      BY <2>8 DEF Finishes
    <3>2. CASE j = k
      <4>1. call[k].client = d /\ promise[k] = NoCall
        BY <1>1, <3>1, <3>2
      <4>2. j \notin pending'[d]
        BY <2>8, <3>2, <4>1 DEF Finishes
      <4> QED
        BY <4>2
    <3> QED
      BY <2>2, <3>1, <3>2
  <2> QED
    BY <1>4, <2>4, <2>5, <2>6, <2>7, <2>8 DEF Acts
<1>5. ASSUME NEW c \in Clients, Polls(c) PROVE Goal
  <2>1. j \in pending[d] /\ call' = call
    BY <1>5 DEF Polls, Idles, Scans, Peeks, Finds, Sets, Pops, Releases
  <2>2. CASE promise' = promise
    BY <1>2, <2>1, <2>2
  <2>3. CASE Sets(c)
    <3>1. /\ poller[c].found \in Calls /\ call[poller[c].found].client = c
          /\ poller[c].found \notin pending[c]
      BY <2>3 DEF Sets, Taken
    <3>2. j # poller[c].found
      BY <1>1, <2>1, <3>1
    <3>3. promise \in [Calls -> Calls \cup {NoCall}]
      BY DEF TypeOK
    <3>4. promise'[j] = promise[j]
      BY <1>1, <2>1, <2>3, <3>2, <3>3 DEF Sets
    <3> QED
      BY <1>1, <2>1, <3>4 DEF Listed
  <2> QED
    BY <1>5, <2>2, <2>3 DEF Polls, Idles, Scans, Peeks, Finds, Pops, Releases
<1>6. ASSUME NEW w \in Workers, Serves(w) PROVE Goal
  BY <1>2, <1>6 DEF Serves
<1>7. CASE UNCHANGED vars
  BY <1>2, <1>7 DEF vars, clientVars
<1> QED
  BY <1>3, <1>4, <1>5, <1>6, <1>7 DEF Moves

(* Only the poller that has taken an entry out answers it.                 *)
LEMMA TakenStep ==
    ASSUME TypeOK, Entries, Taken, Moves
    PROVE  Taken'
<1>1. ASSUME NEW k \in Calls, promise'[k] # NoCall
      PROVE  Entered(k)'
  <2>1. CASE promise'[k] = promise[k]
    BY <1>1, <2>1, CallKept DEF Taken
  <2>2. ASSUME NEW c \in Clients, Polls(c), Sets(c)
        PROVE  Entered(k)'
    <3>1. CASE k = poller[c].found
      BY <2>2, <3>1, CallKept DEF Sets, Taken
    <3>2. CASE k # poller[c].found
      <4>1. promise \in [Calls -> Calls \cup {NoCall}]
        BY DEF TypeOK
      <4>2. promise'[k] = promise[k]
        BY <2>2, <3>2, <4>1 DEF Sets
      <4> QED
        BY <2>1, <4>2
    <3> QED
      BY <3>1, <3>2
  <2>3. promise' = promise \/ \E c \in Clients : Polls(c) /\ Sets(c)
    BY DEF Moves, Changes, Acts, Polls, Idles, Scans, Peeks, Finds, Pops, Releases, Serves,
           vars, clientVars
  <2> QED
    BY <2>1, <2>2, <2>3
<1>2. ASSUME NEW c \in Clients, poller'[c].pc = "setting"
      PROVE  \E k \in Calls :
                 /\ k = poller'[c].found /\ Entered(k)' /\ call'[k].client = c
                 /\ promise'[k] = NoCall /\ k \notin pending'[c]
  <2>0. PICK k : k = poller'[c].found
    OBVIOUS
  <2> DEFINE Goal == /\ k \in Calls /\ Entered(k)' /\ call'[k].client = c
                     /\ promise'[k] = NoCall /\ k \notin pending'[c]
  <2>1. ASSUME poller'[c] = poller[c]
        PROVE  /\ k \in Calls /\ Entered(k)' /\ Entered(k) /\ call'[k].client = c
               /\ call[k].client = c /\ promise[k] = NoCall /\ k \notin pending[c]
    <3>1. /\ k \in Calls /\ Entered(k) /\ call[k].client = c /\ promise[k] = NoCall
          /\ k \notin pending[c]
      BY <1>2, <2>0, <2>1 DEF Taken
    <3> QED
      BY <3>1, CallKept
  <2>2. ASSUME poller'[c] = poller[c], promise' = promise, pending'[c] \subseteq pending[c]
        PROVE  Goal
    BY <2>1, <2>2
  <2>3. ASSUME NEW d \in Clients, Changes(d) PROVE Goal
    <3>1. poller'[c] = poller[c] /\ pending'[c] \subseteq pending[c] /\ promise' = promise
      <4>1. CASE c # d
        BY <2>3, <4>1 DEF Changes
      <4>2. CASE c = d
        BY <1>2, <2>3, <4>2 DEF Changes, Connects, Goes, Clears
      <4> QED
        BY <4>1, <4>2
    <3> QED
      BY <2>2, <3>1
  <2>4. ASSUME NEW d \in Clients, Polls(d), c # d PROVE Goal
    <3>1. poller'[c] = poller[c] /\ pending'[c] = pending[c]
      BY <2>4 DEF Polls
    <3>2. CASE promise' = promise
      BY <2>2, <3>1, <3>2
    <3>3. CASE Sets(d)
      <4>1. call[poller[d].found].client = d
        BY <3>3 DEF Sets, Taken
      <4>2. k # poller[d].found
        BY <2>1, <2>4, <3>1, <4>1
      <4>3. promise \in [Calls -> Calls \cup {NoCall}]
        BY DEF TypeOK
      <4>4. promise'[k] = promise[k]
        BY <2>1, <3>1, <3>3, <4>2, <4>3 DEF Sets
      <4> QED
        BY <2>1, <3>1, <4>4
    <3> QED
      BY <2>4, <3>2, <3>3 DEF Polls, Idles, Scans, Peeks, Finds, Pops, Releases
  <2>5. ASSUME Polls(c) PROVE Goal
    <3>1. Finds(c)
      BY <1>2, <2>5 DEF Polls, Idles, Scans, Peeks, Sets, Pops, Releases
    <3>2. k \in Matching(c) /\ pending'[c] = pending[c] \ Matching(c) /\ promise' = promise
      BY <1>2, <2>0, <3>1 DEF Finds
    <3>3. k \in pending[c]
      BY <3>2 DEF Matching
    <3>4. k \in Calls /\ call[k].client = c /\ promise[k] = NoCall /\ Listed(k)
      BY <3>3, FieldTypes DEF Entries
    <3>5. Entered(k)
      BY <3>4 DEF Listed, Entered
    <3> QED
      BY <3>2, <3>4, <3>5, CallKept
  <2>6. ASSUME NEW j \in Calls, Acts(j) PROVE Goal
    <3>1. poller'[c] = poller[c] /\ promise' = promise
      BY <2>6 DEF Acts
    <3>2. CASE pending'[c] \subseteq pending[c]
      BY <2>2, <3>1, <3>2
    <3>3. CASE Registers(j)
      <4>1. ~Entered(j)
        BY <3>3 DEF Registers, Entered
      <4>2. k # j
        BY <2>1, <3>1, <4>1
      <4>3. k \notin pending'[c]
        BY <2>1, <3>1, <3>3, <4>2 DEF Registers
      <4> QED
        BY <2>1, <3>1, <4>3
    <3>4. CASE Starts(j) \/ Dispatches(j)
      BY <3>2, <3>4 DEF Starts, Dispatches
    <3>5. CASE Sends(j) \/ Finishes(j)
      BY <3>2, <3>5 DEF Sends, Finishes
    <3>6. CASE Faults(j)
      BY <3>2, <3>6 DEF Faults
    <3> QED
      BY <2>6, <3>3, <3>4, <3>5, <3>6 DEF Acts
  <2>7. ASSUME NEW w \in Workers, Serves(w) PROVE Goal
    BY <2>2, <2>7 DEF Serves
  <2>8. ASSUME UNCHANGED vars PROVE Goal
    <3>1. UNCHANGED <<poller, promise, pending>>
      BY <2>8 DEF vars
    <3>2. poller'[c] = poller[c] /\ pending'[c] = pending[c]
      BY <3>1
    <3> QED
      BY <2>1, <3>1, <3>2
  <2> QED
    BY <2>0, <2>3, <2>4, <2>5, <2>6, <2>7, <2>8 DEF Moves
<1> QED
  BY <1>1, <1>2 DEF Taken, Entered

(* A request is in a queue when its call was sent, an answer when its      *)
(* request was at the front.                                               *)
LEMMA QueuesHoldStep ==
    ASSUME TypeOK, Numbered, QueuesHold, Moves
    PROVE  QueuesHold'
<1> DEFINE Sent == {k \in Calls : WasSent(k)}
<1>1. \A k \in Sent : k \in Sent'
  <2>1. \A k \in Calls : WasSent(k) => WasSent(k)'
    BY CallKept
  <2> QED
    BY <2>1
<1>2. ASSUME NEW w \in Workers
      PROVE  /\ requests[w] \in Seq(Calls) /\ answers[w] \in Seq(Calls)
             /\ \A i \in DOMAIN requests[w] : requests[w][i] \in Sent
             /\ \A i \in DOMAIN answers[w] : answers[w][i] \in Sent
  <2>1. requests[w] \in Seq(Calls) /\ answers[w] \in Seq(Calls)
    BY FieldTypes
  <2> QED
    BY <2>1 DEF QueuesHold
<1>3. ASSUME NEW k \in Calls, Acts(k), Sends(k) \/ Dispatches(k)
      PROVE  requests' = requests \/ k \in Sent'
  <2>1. nextSeq[Server] > 0
    BY FieldTypes DEF Senders
  <2>2. CASE Sends(k)
    <3>1. call[k].seq > 0
      BY <2>2 DEF Sends, Numbered
    <3>2. requests' = requests \/ WasSent(k)'
      BY <2>2, <3>1 DEF Sends, Moved, WasSent, Kinds
    <3> QED
      BY <3>2
  <2>3. CASE Dispatches(k)
    <3>1. WasSent(k)'
      BY <2>1, <2>3 DEF Dispatches, WasSent
    <3> QED
      BY <3>1
  <2> QED
    BY <1>3, <2>2, <2>3
<1> HIDE DEF Sent
<1>4. ASSUME NEW w \in Workers, NEW i \in DOMAIN requests'[w]
      PROVE  requests'[w][i] \in Sent'
  <2>1. CASE requests'[w] = requests[w]
    <3>1. i \in DOMAIN requests[w]
      BY <1>4, <2>1
    <3> QED
      BY <1>1, <1>2, <2>1, <3>1
  <2>2. ASSUME NEW k \in Calls, Acts(k), Sends(k) \/ Dispatches(k),
               requests'[w] = Append(requests[w], k)
        PROVE  requests'[w][i] \in Sent'
    <3>1. CASE requests' = requests
      BY <2>1, <3>1
    <3>2. \/ i \in DOMAIN requests[w] /\ requests'[w][i] = requests[w][i]
          \/ requests'[w][i] = k
      BY <1>2, <1>4, <2>2
    <3> QED
      BY <1>1, <1>2, <1>3, <2>2, <3>1, <3>2
  <2>3. CASE requests[w] # << >> /\ requests'[w] = Tail(requests[w])
    <3>1. i + 1 \in DOMAIN requests[w] /\ requests'[w][i] = requests[w][i + 1]
      BY <1>2, <1>4, <2>3
    <3> QED
      BY <1>1, <1>2, <3>1
  <2>4. ASSUME NEW k \in Calls, Acts(k)
        PROVE  \/ requests'[w] = requests[w]
               \/ /\ Sends(k) \/ Dispatches(k)
                  /\ requests'[w] = Append(requests[w], k)
    <3>1. CASE Sends(k) \/ Dispatches(k)
      <4>1. requests' = requests \/ \A v \in Workers :
                requests'[v] = requests[v] \/ requests'[v] = Append(requests[v], k)
        BY <3>1 DEF Sends, Dispatches
      <4> QED
        BY <3>1, <4>1
    <3>2. CASE ~(Sends(k) \/ Dispatches(k))
      <4>1. requests' = requests
        BY <2>4, <3>2 DEF Acts, Starts, Faults, Registers, Finishes
      <4> QED
        BY <4>1
    <3> QED
      BY <3>1, <3>2
  <2>5. ASSUME NEW v \in Workers, Serves(v)
        PROVE  \/ requests'[w] = requests[w]
               \/ requests[w] # << >> /\ requests'[w] = Tail(requests[w])
    BY <2>5 DEF Serves, Answers, Drops
  <2>6. \/ requests'[w] = requests[w] \/ \E k \in Calls : Acts(k)
        \/ \E v \in Workers : Serves(v)
    BY DEF Moves, Changes, Polls, vars, channelVars
  <2> QED
    BY <2>1, <2>2, <2>3, <2>4, <2>5, <2>6
<1>5. ASSUME NEW w \in Workers, NEW i \in DOMAIN answers'[w]
      PROVE  answers'[w][i] \in Sent'
  <2>1. CASE answers'[w] = answers[w]
    <3>1. i \in DOMAIN answers[w]
      BY <1>5, <2>1
    <3> QED
      BY <1>1, <1>2, <2>1, <3>1
  <2>2. CASE requests[w] # << >> /\ answers'[w] = Append(answers[w], Head(requests[w]))
    <3>1. Head(requests[w]) = requests[w][1] /\ 1 \in DOMAIN requests[w]
      BY <1>2, <2>2
    <3>2. \/ i \in DOMAIN answers[w] /\ answers'[w][i] = answers[w][i]
          \/ answers'[w][i] = requests[w][1]
      BY <1>2, <1>5, <2>2, <3>1
    <3> QED
      BY <1>1, <1>2, <3>1, <3>2
  <2>3. \/ answers'[w] = answers[w]
        \/ requests[w] # << >> /\ answers'[w] = Append(answers[w], Head(requests[w]))
    BY DEF Moves, Changes, Acts, Polls, Serves, Answers, Drops, vars, channelVars
  <2> QED
    BY <2>1, <2>2, <2>3
<1>6. \A x \in Sent' : WasSent(x)'
  BY DEF Sent
<1> QED
  BY <1>4, <1>5, <1>6 DEF QueuesHold, WasSent

(* All answers together are at least those of one worker.                  *)
LEMMA AnswersCounted ==
    ASSUME TypeOK, Reading, NEW w \in Workers
    PROVE  Len(answers[w]) <= AnswersSoFar /\ AnswersSoFar \in Nat
<1> DEFINE All == UNION {{v} \X DOMAIN answers[v] : v \in Workers}
           n == Len(answers[w])
<1>1. IsFiniteSet(Workers) /\ IsFiniteSet(1 .. MaxAnswers)
  BY FS_Interval, WorkerCountAssumption, MaxAnswersAssumption DEF Workers
<1>2. ASSUME NEW v \in Workers
      PROVE  DOMAIN answers[v] = 1 .. Len(answers[v]) /\ Len(answers[v]) \in Nat
             /\ Len(answers[v]) <= MaxAnswers
  BY FieldTypes DEF Reading
<1>3. ASSUME NEW v \in Workers
      PROVE  DOMAIN answers[v] \subseteq 1 .. MaxAnswers
  BY <1>2, MaxAnswersAssumption
<1>4. All \in SUBSET (Workers \X (1 .. MaxAnswers))
  BY <1>3
<1>5. IsFiniteSet(All)
  BY <1>1, <1>4, FS_Product, FS_Subset
<1>6. {w} \X DOMAIN answers[w] \in SUBSET All
  OBVIOUS
<1>7. IsFiniteSet({w}) /\ Cardinality({w}) = 1
  BY FS_Singleton
<1>8. IsFiniteSet(1 .. n) /\ Cardinality(1 .. n) = n
  BY <1>2, FS_Interval
<1>9. Cardinality({w} \X DOMAIN answers[w]) = 1 * n
  BY <1>2, <1>7, <1>8, FS_Product
<1>10. Cardinality({w} \X DOMAIN answers[w]) <= Cardinality(All) /\ Cardinality(All) \in Nat
  BY <1>5, <1>6, FS_Subset, FS_CardinalityType
<1>11. 1 * n = n
  BY <1>2
<1> QED
  BY <1>9, <1>10, <1>11 DEF AnswersSoFar

(* The answers only grow, and an index read between Peek and Pop stays     *)
(* that of an answer.                                                      *)
LEMMA ReadingStep ==
    ASSUME TypeOK, Reading, Moves
    PROVE  Reading'
<1>1. ASSUME NEW w \in Workers
      PROVE  /\ Len(answers[w]) \in Nat /\ read[w] \in Nat
             /\ Len(answers'[w]) \in Nat /\ Len(answers[w]) <= Len(answers'[w])
             /\ Len(answers'[w]) <= MaxAnswers
  <2>1. /\ Len(answers[w]) \in Nat /\ read[w] \in Nat /\ Len(answers[w]) <= MaxAnswers
        /\ answers[w] \in Seq(Calls)
    BY FieldTypes DEF Reading
  <2>2. CASE answers'[w] = answers[w]
    BY <2>1, <2>2
  <2>3. CASE Answers(w)
    <3>1. Len(answers'[w]) = Len(answers[w]) + 1
      BY <2>1, <2>3 DEF Answers
    <3>2. Len(answers[w]) < MaxAnswers
      BY <2>1, <2>3, AnswersCounted, MaxAnswersAssumption DEF Answers
    <3> QED
      BY <2>1, <3>1, <3>2, MaxAnswersAssumption
  <2>4. answers'[w] = answers[w] \/ Answers(w)
    BY DEF Moves, Changes, Acts, Polls, Serves, Answers, Drops, vars, channelVars
  <2> QED
    BY <2>2, <2>3, <2>4
<1>2. ASSUME NEW w \in Workers
      PROVE  read'[w] <= Len(answers'[w])
  <2>1. CASE read'[w] = read[w]
    BY <1>1, <2>1 DEF Reading
  <2>2. ASSUME NEW c \in Clients, Releases(c), w = poller[c].w
        PROVE  read'[w] <= Len(answers'[w])
    <3>1. read'[w] = poller[c].read + 1 /\ poller[c].read < Len(answers[w])
          /\ poller[c].read \in Nat
      BY <2>2, FieldTypes DEF Releases, Reading
    <3> QED
      BY <1>1, <3>1
  <2>3. read'[w] = read[w] \/ \E c \in Clients : Releases(c) /\ w = poller[c].w
    BY DEF Moves, Changes, Acts, Polls, Idles, Scans, Peeks, Finds, Sets, Pops, Releases,
           Serves, vars, clientVars
  <2> QED
    BY <2>1, <2>2, <2>3
<1>3. ASSUME NEW c \in Clients, poller'[c].pc \in {"finding", "setting", "releasing"}
      PROVE  poller'[c].read < Len(answers'[poller'[c].w])
  <2>1. poller[c].w \in Workers /\ poller[c].read \in Nat
    BY FieldTypes
  <2>2. CASE poller'[c] = poller[c]
    BY <1>1, <1>3, <2>1, <2>2 DEF Reading
  <2>3. CASE Polls(c)
    <3>1. /\ poller'[c].w = poller[c].w
          /\ \/ poller'[c].read = read[poller[c].w] /\ Queued(poller[c].w) > 0
             \/ poller'[c].read = poller[c].read /\ poller[c].pc = "finding"
      BY <1>3, <2>3 DEF Polls, Idles, Scans, Peeks, Finds, Sets, Pops, Releases
    <3>2. poller'[c].read < Len(answers[poller[c].w])
      BY <1>1, <2>1, <3>1 DEF Queued, Reading
    <3> QED
      BY <2>3, <3>1, <3>2 DEF Polls
  <2>4. poller'[c] = poller[c] \/ Polls(c)
    <3>1. ASSUME NEW d \in Clients, Changes(d) PROVE poller'[c] = poller[c]
      <4>1. ~(c = d /\ Connects(d))
        BY <1>3 DEF Connects
      <4> QED
        BY <3>1, <4>1 DEF Changes, Connects, Goes, Clears
    <3>2. ASSUME NEW d \in Clients, Polls(d) PROVE poller'[c] = poller[c] \/ Polls(c)
      BY <3>2 DEF Polls
    <3> QED
      BY <3>1, <3>2 DEF Moves, Acts, Serves, vars
  <2> QED
    BY <2>2, <2>3, <2>4
<1> QED
  BY <1>1, <1>2, <1>3 DEF Reading
-----------------------------------------------------------------------------
(* The invariant of any number of clients.                                 *)
LEMMA TableInit == Init => Table
<1> SUFFICES ASSUME Init PROVE Table
  OBVIOUS
<1> USE DEF Init
<1>1. 1 \in Workers /\ 0 \in 0 .. MaxAnswers /\ 0 \in 0 .. MaxCalls /\ 0 \in 0 .. MaxConnects
      /\ 1 \in 1 .. MaxCalls + 1
  BY WorkerCountAssumption, MaxAnswersAssumption, MaxCallsAssumption, MaxConnectsAssumption
     DEF Workers
<1>2. PollerOff \in Poller /\ PollerOff.pc = "off"
  BY <1>1 DEF PollerOff, Poller
<1>3. (CHOOSE c \in Clients : TRUE) \in Clients
  BY ClientsAssumption
<1> DEFINE first == CHOOSE c \in Clients : TRUE
           begun == [pc |-> "idle", kind |-> "Call", client |-> first, seq |-> 0, since |-> 0,
                     result |-> "none"]
<1>4. begun \in Call
  BY <1>1, <1>3 DEF Call, Kinds, Senders
<1>5. << >> \in Seq(Calls)
  OBVIOUS
<1>6. TypeOK
  <2>1. call \in [Calls -> Call]
    BY <1>4
  <2>2. poller \in [Clients -> Poller]
    BY <1>2
  <2>3. requests \in [Workers -> Seq(Calls)] /\ answers \in [Workers -> Seq(Calls)]
    BY <1>5
  <2> QED
    BY <1>1, <2>1, <2>2, <2>3 DEF TypeOK, Life
<1>7. PollerJoined
  BY <1>2 DEF PollerJoined
<1>8. Numbered
  <2>1. \A k \in Calls : call[k].pc = "idle" /\ call[k].seq = 0 /\ call[k].client \in Senders
                         /\ k >= 1
    BY <1>3, MaxCallsAssumption DEF Calls, Senders
  <2> QED
    BY <2>1 DEF Numbered
<1>13. Made
  BY <1>3 DEF Made, Kinds
<1>9. Entries
  BY DEF Entries
<1>10. Taken
  BY <1>2 DEF Taken
<1>11. QueuesHold
  BY DEF QueuesHold
<1>12. Reading
  <2>1. \A w \in Workers : Len(answers[w]) = 0 /\ read[w] = 0
    OBVIOUS
  <2> QED
    BY <1>2, <2>1, MaxAnswersAssumption DEF Reading
<1> QED
  BY <1>6, <1>7, <1>8, <1>9, <1>10, <1>11, <1>12, <1>13 DEF Table

(* Table is inductive.                                                     *)
LEMMA TableStep == Table /\ [Next]_vars => Table'
  BY TypeStep, StepMoves, PollerJoinedStep, NumberedStep, MadeStep, EntriesStep, TakenStep,
     QueuesHoldStep, ReadingStep DEF Table

(* So it always holds.                                                     *)
LEMMA TableInvariant == Spec => []Table
  BY TableInit, TableStep, PTL DEF Spec

(* The fields of the calls, tables, pollers and queues of any number of    *)
(* clients keep their types: no number, index or connection leaves the     *)
(* range the code's counters start in.                                     *)
THEOREM TypeCorrect == Spec => []TypeOK
<1>1. Table => TypeOK
  BY DEF Table
<1> QED
  BY <1>1, TableInvariant, PTL

(* ResponsePollerMain never touches the segment after Disconnect has       *)
(* unmapped it, however Connect, Disconnect and the poller interleave.     *)
THEOREM PollerMapped == Spec => []PollerStaysMapped
<1>1. Table => PollerStaysMapped
  BY FieldTypes DEF Table, PollerJoined, PollerStaysMapped, Alive, Visiting, Mapped, Life
<1> QED
  BY <1>1, TableInvariant, PTL

(* WaitForResponse, CallAsync, the poller and Disconnect leave no entry in *)
(* pending_requests_ that belongs to a call which has ended or has its     *)
(* answer, in whatever order they come.                                    *)
THEOREM EntriesCorrect == Spec => []EntriesHaveCallers
<1>1. ASSUME Table PROVE EntriesHaveCallers
  <2> SUFFICES ASSUME NEW c \in Clients, NEW k \in pending[c]
               PROVE  /\ call[k].client = c /\ promise[k] = NoCall
                      /\ call[k].pc \in [Call      |-> {"waiting"},
                                         CallAsync |-> {"sending", "returned"}][call[k].kind]
    BY DEF EntriesHaveCallers
  <2>1. call[k].kind \in {"Call", "CallAsync"} /\ call[k].client = c /\ promise[k] = NoCall
        /\ Listed(k)
    BY <1>1, FieldTypes DEF Table, Entries, Made, Kinds
  <2> QED
    BY <2>1 DEF Listed
<1> QED
  BY <1>1, TableInvariant, PTL

(* The poller erases an entry when it finds it, so that the promise it     *)
(* sets has not been set, also when a request is answered twice and when   *)
(* several pollers share the queues.                                       *)
THEOREM PromisesCorrect == Spec => []PromisesSetOnce
<1>1. Table => PromisesSetOnce
  BY DEF Table, Taken, PromisesSetOnce
<1> QED
  BY <1>1, TableInvariant, PTL
-----------------------------------------------------------------------------
(* Which answer completes which call, with any number of clients.          *)

(* The answers in a queue stay where they are.                             *)
LEMMA AnswersKept ==
    ASSUME TypeOK, Moves, NEW w \in Workers
    PROVE  /\ answers[w] \in Seq(Calls) /\ Len(answers[w]) \in Nat
           /\ Len(answers'[w]) \in Nat /\ Len(answers[w]) <= Len(answers'[w])
           /\ \A i \in 1 .. Len(answers[w]) : answers'[w][i] = answers[w][i]
<1>1. answers[w] \in Seq(Calls) /\ Len(answers[w]) \in Nat
  BY FieldTypes
<1>2. CASE answers'[w] = answers[w]
  BY <1>1, <1>2
<1>3. ASSUME NEW x, answers'[w] = Append(answers[w], x)
      PROVE  /\ Len(answers'[w]) = Len(answers[w]) + 1
             /\ \A i \in 1 .. Len(answers[w]) : answers'[w][i] = answers[w][i]
  BY <1>1, <1>3
<1>4. answers'[w] = answers[w] \/ \E x : answers'[w] = Append(answers[w], x)
  BY DEF Moves, Changes, Acts, Polls, Serves, Answers, Drops, vars, channelVars
<1> QED
  BY <1>1, <1>2, <1>3, <1>4

(* What a call that was begun is, it stays.                                *)
LEMMA CallStays ==
    ASSUME Moves, NEW k \in Calls, call[k].pc # "idle"
    PROVE  /\ call'[k].client = call[k].client /\ call'[k].seq = call[k].seq
           /\ call'[k].kind = call[k].kind
<1>1. ~Starts(k) /\ ~Dispatches(k)
  BY DEF Starts, Dispatches
<1> QED
  BY <1>1 DEF Moves, Changes, Acts, Sends, Faults, Registers, Finishes, Moved, Polls, Serves,
              vars

(* next_seq_id_ of each sender only grows.                                 *)
LEMMA OwnNumbersStep ==
    ASSUME TypeOK, Numbered, OwnNumbers, Moves
    PROVE  OwnNumbers'
<1>1. \A j \in Calls : call[j].seq \in Nat /\ call[j].client \in Senders
                       /\ call[j].seq < nextSeq[call[j].client]
  BY FieldTypes DEF Numbered
<1>2. CASE \A j \in Calls : call'[j].seq = call[j].seq /\ call'[j].client = call[j].client
  BY <1>2 DEF OwnNumbers
<1>3. ASSUME NEW k \in Calls, Acts(k), Starts(k) \/ Dispatches(k)
      PROVE  OwnNumbers'
  <2>1. /\ \A j \in Calls \ {k} : call'[j] = call[j]
        /\ call'[k].client \in Senders
        /\ call'[k].seq = 0 \/ call'[k].seq = nextSeq[call'[k].client]
    BY <1>3 DEF Acts, Starts, Dispatches, Senders
  <2>2. nextSeq[call'[k].client] \in Nat
    BY <2>1, FieldTypes
  <2>3. ASSUME NEW j \in Calls \ {k}, call'[j].client = call'[k].client
        PROVE  call'[k].seq = 0 \/ call'[j].seq # call'[k].seq
    <3>1. call[j].client = call'[k].client /\ call'[j].seq = call[j].seq
      BY <2>1, <2>3
    <3>2. call[j].seq < nextSeq[call'[k].client] /\ call[j].seq \in Nat
      BY <1>1, <3>1
    <3> QED
      BY <2>1, <2>2, <3>1, <3>2
  <2>4. \A i, j \in Calls \ {k} :
            call'[i].client = call'[j].client /\ call'[i].seq = call'[j].seq /\ call'[i].seq > 0
                => i = j
    BY <2>1 DEF OwnNumbers
  <2>5. ~(0 > 0)
    OBVIOUS
  <2> QED
    BY <2>3, <2>4, <2>5 DEF OwnNumbers
<1>4. \/ \E k \in Calls : Acts(k) /\ (Starts(k) \/ Dispatches(k))
      \/ \A j \in Calls : call'[j].seq = call[j].seq /\ call'[j].client = call[j].client
  <2>1. ASSUME NEW k \in Calls, Acts(k), ~Starts(k), ~Dispatches(k)
        PROVE  \A j \in Calls : call'[j].seq = call[j].seq /\ call'[j].client = call[j].client
    BY <2>1 DEF Acts, Sends, Faults, Registers, Finishes, Moved
  <2> QED
    BY <2>1 DEF Moves, Changes, Polls, Serves, vars
<1> QED
  BY <1>2, <1>3, <1>4

(* find(header->seq_id) finds one entry at most.                           *)
LEMMA OneMatches ==
    ASSUME TypeOK, Numbered, Entries, OwnNumbers, NEW c \in Clients,
           NEW j \in Matching(c), NEW k \in Matching(c)
    PROVE  j = k
<1>1. /\ j \in Calls /\ k \in Calls /\ j \in pending[c] /\ k \in pending[c]
      /\ call[j].seq = call[k].seq
  BY FieldTypes DEF Matching
<1>2. call[j].seq > 0 /\ call[j].client = c /\ call[k].client = c
  BY <1>1 DEF Entries, Listed, Numbered
<1> QED
  BY <1>1, <1>2 DEF OwnNumbers

(* What a poller reads in a queue is the answer to a request that was sent. *)
LEMMA HeaderWasSent ==
    ASSUME TypeOK, Reading, QueuesHold, NEW c \in Clients,
           poller[c].pc \in {"finding", "setting"}
    PROVE  Header(c) \in Calls /\ WasSent(Header(c))
<1>1. /\ answers[poller[c].w] \in Seq(Calls) /\ poller[c].read \in Nat
      /\ poller[c].read < Len(answers[poller[c].w]) /\ poller[c].w \in Workers
  BY FieldTypes DEF Reading
<1>2. poller[c].read + 1 \in DOMAIN answers[poller[c].w]
  BY <1>1
<1> QED
  BY <1>1, <1>2, HeaderIsCall DEF Header, QueuesHold

(* What a poller reads is the same until it goes on.                       *)
LEMMA HeaderKept ==
    ASSUME TypeOK, Reading, Moves, NEW c \in Clients,
           poller[c].pc \in {"finding", "setting"},
           poller'[c].w = poller[c].w, poller'[c].read = poller[c].read
    PROVE  Header(c)' = Header(c)
<1>1. /\ poller[c].w \in Workers /\ poller[c].read \in Nat
      /\ poller[c].read < Len(answers[poller[c].w]) /\ Len(answers[poller[c].w]) \in Nat
  BY FieldTypes DEF Reading
<1>2. answers'[poller[c].w][poller[c].read + 1] = answers[poller[c].w][poller[c].read + 1]
  BY <1>1, AnswersKept
<1> QED
  BY <1>2 DEF Header

(* Between the search under pending_mutex_ and set_value neither the       *)
(* answer nor the call changes.                                            *)
LEMMA FoundMatchesStep ==
    ASSUME Table, FoundMatches, Moves
    PROVE  FoundMatches'
<1>1. TypeOK /\ Reading /\ QueuesHold /\ Taken /\ Entries
  BY DEF Table
<1> SUFFICES ASSUME NEW c \in Clients, poller'[c].pc = "setting"
             PROVE  call'[poller'[c].found].seq = call'[Header(c)'].seq
  BY DEF FoundMatches
<1>2. \/ poller'[c] = poller[c]
      \/ Polls(c) /\ Finds(c)
  <2>1. ASSUME NEW d \in Clients, Changes(d) PROVE poller'[c] = poller[c]
    BY <2>1 DEF Changes, Connects, Goes, Clears
  <2>2. ASSUME NEW d \in Clients, Polls(d)
        PROVE  poller'[c] = poller[c] \/ (Polls(c) /\ Finds(c))
    BY <2>2 DEF Polls, Idles, Scans, Peeks, Sets, Pops, Releases
  <2> QED
    BY <2>1, <2>2 DEF Moves, Acts, Serves, vars
<1>3. CASE poller'[c] = poller[c]
  <2>1. poller[c].pc = "setting"
    BY <1>3
  <2>2. /\ poller[c].found \in Calls /\ call[poller[c].found].pc # "idle"
        /\ call[poller[c].found].seq = call[Header(c)].seq
    BY <1>1, <2>1 DEF Taken, Entered, FoundMatches
  <2>3. PICK h \in Calls : h = Header(c) /\ WasSent(h)
    BY <1>1, <2>1, HeaderWasSent
  <2>4. call[h].pc # "idle"
    BY <2>3 DEF WasSent
  <2>5. Header(c)' = h
    BY <1>1, <1>3, <2>1, <2>3, HeaderKept
  <2>6. call'[h].seq = call[h].seq /\ call'[poller[c].found].seq = call[poller[c].found].seq
    BY <2>2, <2>4, CallStays
  <2> QED
    BY <1>3, <2>2, <2>3, <2>5, <2>6
<1>4. CASE Polls(c) /\ Finds(c)
  <2>1. /\ poller[c].pc = "finding" /\ poller'[c].w = poller[c].w
        /\ poller'[c].read = poller[c].read /\ poller'[c].found \in Matching(c)
        /\ call' = call
    BY <1>4 DEF Finds, Polls
  <2>2. Header(c)' = Header(c)
    BY <1>1, <2>1, HeaderKept
  <2> QED
    BY <2>1, <2>2 DEF Matching
<1> QED
  BY <1>2, <1>3, <1>4

(* set_value is given an answer with the number of the call whose promise  *)
(* it is.                                                                  *)
LEMMA AnswersMatchStep ==
    ASSUME Table, Matched, Moves
    PROVE  AnswersWereSent' /\ AnswersMatchCalls'
<1>1. /\ TypeOK /\ Reading /\ QueuesHold /\ Taken /\ Numbered
      /\ promise \in [Calls -> Calls \cup {NoCall}]
  BY DEF Table, TypeOK
<1>2. promise' = promise \/ \E c \in Clients : Sets(c)
  BY DEF Moves, Changes, Acts, Polls, Idles, Scans, Peeks, Finds, Pops, Releases, Serves,
         vars, clientVars
<1>3. ASSUME NEW k \in Calls, promise'[k] # NoCall
      PROVE  \E h \in Calls :
                 /\ promise'[k] = h /\ WasSent(h)
                 /\ call[k].pc # "idle"
                 /\ call[h].seq = call[k].seq
                 /\ h # k => call[h].client # call[k].client
  <2>1. CASE promise'[k] = promise[k]
    BY <1>1, <1>3, <2>1 DEF Matched, AnswersWereSent, AnswersMatchCalls, Taken, Entered
  <2>2. ASSUME NEW c \in Clients, Sets(c), k = poller[c].found
        PROVE  \E h \in Calls :
                 /\ promise'[k] = h /\ WasSent(h)
                 /\ call[k].pc # "idle"
                 /\ call[h].seq = call[k].seq
                 /\ h # k => call[h].client # call[k].client
    <3>1. poller[c].pc = "setting"
      BY <2>2 DEF Sets
    <3>2. PICK h \in Calls : h = Header(c) /\ WasSent(h)
      BY <1>1, <3>1, HeaderWasSent
    <3>3. promise'[k] = h
      BY <1>1, <2>2, <3>2 DEF Sets
    <3>4. call[h].seq = call[k].seq /\ call[k].pc # "idle"
      BY <1>1, <2>2, <3>1, <3>2 DEF Matched, FoundMatches, Taken, Entered
    <3>5. call[h].seq > 0
      BY <3>2 DEF WasSent
    <3>6. h # k => call[h].client # call[k].client
      BY <3>4, <3>5 DEF Matched, OwnNumbers
    <3> QED
      BY <3>2, <3>3, <3>4, <3>6
  <2>3. promise'[k] = promise[k] \/ \E c \in Clients : Sets(c) /\ k = poller[c].found
    BY <1>1, <1>2 DEF Sets
  <2> QED
    BY <2>1, <2>2, <2>3
<1>4. ASSUME NEW k \in Calls, promise'[k] # NoCall
      PROVE  /\ \E h \in Calls : promise'[k] = h /\ WasSent(h)'
             /\ promise'[k] # k => /\ call'[promise'[k]].seq = call'[k].seq
                                  /\ call'[promise'[k]].client # call'[k].client
  <2>1. PICK h \in Calls :
                 /\ promise'[k] = h /\ WasSent(h)
                 /\ call[k].pc # "idle"
                 /\ call[h].seq = call[k].seq
                 /\ h # k => call[h].client # call[k].client
    BY <1>3, <1>4
  <2>2. WasSent(h)' /\ call[h].pc # "idle"
    BY <1>1, <2>1, CallKept DEF WasSent
  <2>3. /\ call'[h].seq = call[h].seq /\ call'[h].client = call[h].client
        /\ call'[k].seq = call[k].seq /\ call'[k].client = call[k].client
    BY <2>1, <2>2, CallStays
  <2> QED
    BY <2>1, <2>2, <2>3
<1>5. AnswersWereSent'
  BY <1>4 DEF AnswersWereSent, WasSent
<1>6. AnswersMatchCalls'
  BY <1>4 DEF AnswersMatchCalls
<1> QED
  BY <1>5, <1>6

(* Matched holds before anybody has called.                                *)
LEMMA MatchedInit == Init => Matched
<1> SUFFICES ASSUME Init PROVE Matched
  OBVIOUS
<1>1. \A k \in Calls : call[k].seq = 0 /\ promise[k] = NoCall
  BY DEF Init
<1>2. \A c \in Clients : poller[c].pc = "off"
  BY DEF Init, PollerOff
<1> QED
  BY <1>1, <1>2 DEF Matched, OwnNumbers, FoundMatches, AnswersWereSent, AnswersMatchCalls

(* It is inductive, given Table.                                           *)
LEMMA MatchedStep == Table /\ Matched /\ [Next]_vars => Matched'
<1> SUFFICES ASSUME Table, Matched, [Next]_vars PROVE Matched'
  OBVIOUS
<1>1. Moves
  BY StepMoves DEF Table
<1> QED
  BY <1>1, OwnNumbersStep, FoundMatchesStep, AnswersMatchStep DEF Matched, Table

(* So both always hold.                                                    *)
LEMMA MatchedInvariant == Spec => [](Table /\ Matched)
  BY TableInvariant, MatchedInit, MatchedStep, PTL DEF Spec

(* ResponsePollerMain gives a promise the answer to its own call or to a   *)
(* request of another sender that has the same number, however many        *)
(* clients call and however often the workers answer.                      *)
THEOREM AnswersCorrect == Spec => []AnswersMatchCalls
<1>1. Matched => AnswersMatchCalls
  BY DEF Matched
<1> QED
  BY <1>1, MatchedInvariant, PTL
-----------------------------------------------------------------------------
(* A client that is alone: no answer to an asynchronous call is lost.      *)

(* What a step does with the poller of the only client.                    *)
LEMMA OnlyPoller ==
    ASSUME Alone, Moves, NEW c \in Clients
    PROVE  \/ Polls(c)
           \/ poller'[c].pc = "waiting" /\ life[c] = "off" /\ UNCHANGED <<read, promise>>
           \/ poller'[c] = poller[c] /\ UNCHANGED <<read, promise>>
<1>1. ASSUME NEW d \in Clients, Changes(d)
      PROVE  \/ poller'[c].pc = "waiting" /\ life[c] = "off" /\ UNCHANGED <<read, promise>>
             \/ poller'[c] = poller[c] /\ UNCHANGED <<read, promise>>
  <2>1. c = d
    BY DEF Alone
  <2> QED
    BY <1>1, <2>1 DEF Changes, Connects, Goes, Clears
<1>2. ASSUME NEW d \in Clients, Polls(d) PROVE Polls(c)
  <2>1. c = d
    BY DEF Alone
  <2> QED
    BY <1>2, <2>1
<1> QED
  BY <1>1, <1>2 DEF Moves, Acts, Serves, vars

(* A promise that was set stays set.                                       *)
LEMMA PromiseKept ==
    ASSUME TypeOK, Reading, Moves, NEW k \in Calls, promise[k] # NoCall
    PROVE  promise'[k] # NoCall
<1>1. promise \in [Calls -> Calls \cup {NoCall}]
  BY DEF TypeOK
<1>2. ASSUME NEW c \in Clients, Sets(c)
      PROVE  promise'[k] # NoCall
  <2>1. Header(c) \in Calls /\ NoCall \notin Calls
    BY <1>2, HeaderIsCall, MaxCallsAssumption DEF Sets, Calls, NoCall
  <2> QED
    BY <1>1, <1>2, <2>1 DEF Sets
<1>3. promise' = promise \/ \E c \in Clients : Sets(c)
  BY DEF Moves, Changes, Acts, Polls, Idles, Scans, Peeks, Finds, Pops, Releases, Serves,
         vars, clientVars
<1> QED
  BY <1>2, <1>3

(* Nobody else moves the read index between the poller's load and its use. *)
LEMMA OnlyReaderStep ==
    ASSUME Alone, Table, OnlyReader, Moves
    PROVE  OnlyReader'
<1>1. TypeOK /\ Reading
  BY DEF Table
<1> DEFINE At == {"peeking", "finding", "setting", "popping", "releasing"}
<1>2. ASSUME NEW c \in Clients, poller'[c].pc \in At
      PROVE  read'[poller'[c].w] < Len(answers'[poller'[c].w])
  <2>1. poller[c].w \in Workers /\ read[poller[c].w] \in Nat
    BY <1>1, FieldTypes
  <2>2. Len(answers[poller[c].w]) \in Nat /\ Len(answers'[poller[c].w]) \in Nat
        /\ Len(answers[poller[c].w]) <= Len(answers'[poller[c].w])
    BY <1>1, <2>1, AnswersKept
  <2>3. /\ poller'[c].w = poller[c].w /\ read' = read
        /\ poller[c].pc \in At \/ Queued(poller[c].w) > 0
    BY <1>2, OnlyPoller DEF Polls, Idles, Scans, Peeks, Finds, Sets, Pops, Releases
  <2>4. read[poller[c].w] < Len(answers[poller[c].w])
    BY <2>1, <2>2, <2>3 DEF OnlyReader, Queued
  <2> QED
    BY <2>1, <2>2, <2>3, <2>4
<1>3. ASSUME NEW c \in Clients, poller'[c].pc \in {"finding", "setting", "releasing"}
      PROVE  poller'[c].read = read'[poller'[c].w]
  <2>1. /\ poller'[c].w = poller[c].w /\ read' = read
        /\ \/ poller'[c].read = poller[c].read
              /\ poller[c].pc \in {"finding", "setting", "releasing"}
           \/ poller'[c].read = read[poller[c].w]
    BY <1>3, OnlyPoller DEF Polls, Idles, Scans, Peeks, Finds, Sets, Pops, Releases
  <2> QED
    BY <2>1 DEF OnlyReader
<1> QED
  BY <1>2, <1>3 DEF OnlyReader

(* A registered call is in the table until the poller, its time-out,       *)
(* Disconnect or the death of the process takes it out.                    *)
LEMMA FollowedStep ==
    ASSUME Alone, Table, OwnNumbers, Followed, Moves
    PROVE  Followed'
<1>1. TypeOK /\ Numbered /\ Made /\ Entries /\ Reading /\ PollerJoined
  BY DEF Table
<1> SUFFICES ASSUME NEW k \in Calls, call'[k].kind = "CallAsync",
                    call'[k].pc \in {"sending", "returned"}
             PROVE  \/ k \in pending'[call'[k].client]
                    \/ poller'[call'[k].client].pc = "setting"
                           /\ poller'[call'[k].client].found = k
                    \/ promise'[k] # NoCall
                    \/ k \in abandoned'
                    \/ life'[call'[k].client] = "dead"
  BY DEF Followed, Alive
<1> DEFINE c == call[k].client
           Goal == \/ k \in pending'[c]
                   \/ poller'[c].pc = "setting" /\ poller'[c].found = k
                   \/ promise'[k] # NoCall
                   \/ k \in abandoned'
                   \/ life'[c] = "dead"
<1>2. c \in Clients /\ call'[k].client = c /\ \A d \in Clients : d = c
  <2>1. ~Starts(k) /\ ~Dispatches(k)
    BY DEF Starts, Dispatches
  <2>2. call'[k].client = c /\ call'[k].kind = call[k].kind
    BY <2>1 DEF Moves, Changes, Acts, Sends, Faults, Registers, Finishes, Moved, Polls, Serves,
                vars
  <2>3. c \in Clients
    BY <1>1, <2>2 DEF Made, Kinds
  <2> QED
    BY <2>2, <2>3 DEF Alone
<1>3. promise[k] # NoCall => promise'[k] # NoCall
  BY <1>1, PromiseKept
<1>4. k \in abandoned => k \in abandoned'
  BY DEF Moves, Changes, Connects, Goes, Clears, Acts, Polls, Serves, vars
<1>5. life[c] = "dead" => life'[c] = "dead"
  BY <1>2 DEF Moves, Changes, Connects, Goes, Clears, Acts, Starts, Dispatches, Sends, Faults, Registers,
              Finishes, Polls, Serves, vars, clientVars
<1>6. ASSUME call[k].kind = "CallAsync", call[k].pc \in {"sending", "returned"}
      PROVE  \/ k \in pending[c]
             \/ poller[c].pc = "setting" /\ poller[c].found = k
             \/ promise'[k] # NoCall
             \/ k \in abandoned'
             \/ life'[c] = "dead"
  BY <1>3, <1>4, <1>5, <1>6 DEF Followed, Alive
<1>7. ASSUME call'[k] = call[k], poller'[c] = poller[c],
             k \in pending[c] => k \in pending'[c] \/ k \in abandoned' \/ life'[c] = "dead"
      PROVE  Goal
  BY <1>6, <1>7
<1>8. ASSUME NEW d \in Clients, Changes(d) PROVE Goal
  <2>1. d = c /\ call' = call
    BY <1>2, <1>8 DEF Changes
  <2>2. CASE Connects(c)
    <3>1. poller[c].pc = "off"
      BY <1>1, <1>2, <2>2 DEF Connects, PollerJoined
    <3>2. pending'[c] = pending[c]
      BY <2>2 DEF Connects
    <3> QED
      BY <1>6, <2>1, <3>1, <3>2
  <2>3. CASE Goes(c)
    <3>1. poller'[c] = poller[c] /\ pending'[c] = pending[c]
      BY <2>3 DEF Goes
    <3> QED
      BY <1>7, <2>1, <3>1
  <2>4. CASE Clears(c)
    <3>1. poller'[c] = poller[c] /\ abandoned' = abandoned \cup pending[c]
      BY <2>4 DEF Clears
    <3> QED
      BY <1>7, <2>1, <3>1
  <2> QED
    BY <1>8, <2>1, <2>2, <2>3, <2>4 DEF Changes
<1>9. ASSUME NEW j \in Calls, Acts(j) PROVE Goal
  <2>1. /\ \A i \in Calls \ {j} : call'[i] = call[i]
        /\ poller'[c] = poller[c]
    BY <1>9 DEF Acts
  <2>2. call[j].client \in Clients => call[j].client = c
    BY <1>2
  <2>3. CASE j # k
    <3>1. k \in pending[c] => k \in pending'[c] \/ life'[c] = "dead"
      BY <1>9, <2>2, <2>3 DEF Acts, Starts, Dispatches, Sends, Faults, Registers, Finishes,
                              Moved
    <3> QED
      BY <1>7, <2>1, <2>3, <3>1
  <2>4. CASE j = k
    <3>1. ~Starts(k) /\ ~Dispatches(k) /\ ~Finishes(k)
      BY DEF Starts, Dispatches, Finishes
    <3>2. CASE Sends(k)
      <4>1. call[k].kind = "CallAsync" /\ call[k].pc = "sending" /\ pending'[c] = pending[c]
        BY <3>2 DEF Sends, Moved
      <4> QED
        BY <1>6, <2>1, <4>1
    <3>3. CASE Registers(k)
      BY <3>3 DEF Registers
    <3>4. CASE Faults(k)
      BY <3>4 DEF Faults
    <3> QED
      BY <1>9, <2>4, <3>1, <3>2, <3>3, <3>4 DEF Acts
  <2> QED
    BY <2>3, <2>4
<1>10. ASSUME Polls(c) PROVE Goal
  <2>1. call' = call
    BY <1>10 DEF Polls
  <2>2. CASE Finds(c)
    <3>1. poller[c].pc = "finding" /\ pending'[c] = pending[c] \ Matching(c)
      BY <2>2 DEF Finds
    <3>2. CASE k \in Matching(c)
      <4>1. poller'[c].pc = "setting" /\ poller'[c].found \in Matching(c)
        BY <2>2, <3>2 DEF Finds
      <4>2. poller'[c].found = k
        BY <1>1, <1>2, <3>2, <4>1, OneMatches
      <4> QED
        BY <4>1, <4>2
    <3>3. CASE k \notin Matching(c)
      BY <1>6, <2>1, <3>1, <3>3
    <3> QED
      BY <3>2, <3>3
  <2>3. CASE Sets(c)
    <3>1. pending'[c] = pending[c]
      BY <2>3 DEF Sets
    <3>2. CASE poller[c].found = k
      <4>1. Header(c) \in Calls /\ NoCall \notin Calls
        BY <1>1, <1>2, <2>3, HeaderIsCall, MaxCallsAssumption DEF Sets, Calls, NoCall
      <4>2. promise \in [Calls -> Calls \cup {NoCall}]
        BY <1>1 DEF TypeOK
      <4>3. promise'[k] = Header(c)
        BY <2>3, <3>2, <4>2 DEF Sets
      <4> QED
        BY <4>1, <4>3
    <3> QED
      BY <1>6, <2>1, <3>1, <3>2
  <2>4. CASE Idles(c) \/ Scans(c) \/ Peeks(c) \/ Pops(c) \/ Releases(c)
    <3>1. poller[c].pc # "setting" /\ pending' = pending
      BY <2>4 DEF Idles, Scans, Peeks, Pops, Releases
    <3> QED
      BY <1>6, <2>1, <3>1
  <2> QED
    BY <1>10, <2>2, <2>3, <2>4 DEF Polls
<1>11. ASSUME NEW w \in Workers, Serves(w) PROVE Goal
  BY <1>7, <1>11 DEF Serves
<1>12. ASSUME UNCHANGED vars PROVE Goal
  <2>1. call' = call /\ poller' = poller /\ pending' = pending
    BY <1>12 DEF vars
  <2> QED
    BY <1>7, <2>1
<1>13. ASSUME NEW d \in Clients, Polls(d) PROVE Goal
  <2>1. d = c
    BY <1>2
  <2> QED
    BY <1>10, <1>13, <2>1
<1> QED
  BY <1>2, <1>8, <1>9, <1>11, <1>12, <1>13 DEF Moves

(* A call that was sent and settled stays settled.                         *)
LEMMA SettledKept ==
    ASSUME TypeOK, Reading, Moves, NEW k \in Calls, WasSent(k), Settled(k)
    PROVE  Settled(k)'
<1>1. promise[k] # NoCall => promise'[k] # NoCall
  BY PromiseKept
<1>2. k \in abandoned => k \in abandoned'
  BY DEF Moves, Changes, Connects, Goes, Clears, Acts, Polls, Serves, vars
<1>3. call'[k].kind = call[k].kind
  <2>1. call[k].pc # "idle"
    BY DEF WasSent
  <2> QED
    BY <2>1, CallStays
<1>4. call[k].kind = "CallAsync" => call[k].pc = "returned"
  BY DEF WasSent
<1> QED
  BY <1>1, <1>2, <1>3, <1>4 DEF Settled

(* The poller pops an answer only when it has dealt with it.               *)
LEMMA BehindStep ==
    ASSUME Alone, Table, Matched, OnlyReader, Followed, Behind, Moves
    PROVE  Behind'
<1>1. /\ TypeOK /\ Numbered /\ Made /\ Entries /\ Reading /\ QueuesHold /\ Taken
  BY DEF Table
<1> DEFINE Past == {k \in Calls : Settled(k)}
<1>2. ASSUME NEW w \in Workers
      PROVE  /\ answers[w] \in Seq(Calls) /\ Len(answers[w]) \in Nat
             /\ read[w] \in Nat /\ read[w] <= Len(answers[w])
             /\ \A i \in 1 .. Len(answers[w]) : /\ answers'[w][i] = answers[w][i]
                                                /\ answers[w][i] \in Past =>
                                                       answers[w][i] \in Past'
  <2>1. /\ answers[w] \in Seq(Calls) /\ Len(answers[w]) \in Nat
        /\ read[w] \in Nat /\ read[w] <= Len(answers[w])
    BY <1>1, FieldTypes DEF Reading
  <2>2. ASSUME NEW i \in 1 .. Len(answers[w])
        PROVE  answers'[w][i] = answers[w][i]
    BY <1>1, AnswersKept
  <2>3. ASSUME NEW i \in 1 .. Len(answers[w]), answers[w][i] \in Past
        PROVE  answers[w][i] \in Past'
    <3>1. WasSent(answers[w][i])
      BY <1>1, <2>1, <2>3 DEF QueuesHold
    <3>2. PICK k \in Calls : k = answers[w][i]
      BY <2>3
    <3>3. Settled(k)'
      BY <1>1, <2>3, <3>1, <3>2, SettledKept
    <3> QED
      BY <3>2, <3>3
  <2> QED
    BY <2>1, <2>2, <2>3
<1>3. ASSUME NEW w \in Workers
      PROVE  \A i \in 1 .. read[w] : answers[w][i] \in Past
  BY <1>2 DEF Behind
<1>4. ASSUME NEW c \in Clients, poller[c].pc \in {"popping", "releasing"}
      PROVE  answers[poller[c].w][read[poller[c].w] + 1] \in Past
  <2>1. poller[c].w \in Workers /\ read[poller[c].w] < Len(answers[poller[c].w])
    BY <1>1, <1>4, FieldTypes DEF OnlyReader
  <2>2. answers[poller[c].w][read[poller[c].w] + 1] \in Calls
    BY <1>2, <2>1
  <2> QED
    BY <1>4, <2>2 DEF Behind
<1>5. ASSUME NEW c \in Clients, Finds(c), Polls(c), poller'[c].pc = "popping"
      PROVE  Header(c) \in Past
  <2>1. Header(c) \in Calls
    BY <1>1, <1>5, HeaderIsCall DEF Finds
  <2>2. Header(c) \notin pending[c]
    BY <1>5, <2>1 DEF Finds, Matching
  <2>3. poller[c].pc = "finding" /\ Alive(c)
    BY <1>5 DEF Finds, Polls
  <2>4. call[Header(c)].kind = "CallAsync" => call[Header(c)].client = c
    BY <1>1, <2>1 DEF Made, Kinds, Alone
  <2>5. Settled(Header(c))
    BY <2>1, <2>2, <2>3, <2>4 DEF Followed, Settled
  <2> QED
    BY <2>1, <2>5
<1>6. ASSUME NEW c \in Clients, Sets(c), Polls(c)
      PROVE  Header(c) \in Past'
  <2>1. poller[c].pc = "setting"
    BY <1>6 DEF Sets
  <2>2. PICK k \in Calls : k = Header(c) /\ WasSent(k)
    BY <1>1, <2>1, HeaderWasSent
  <2>3. promise' = [promise EXCEPT ![poller[c].found] = k]
        /\ promise \in [Calls -> Calls \cup {NoCall}] /\ call' = call
    BY <1>1, <1>6, <2>2 DEF Sets, Polls, TypeOK
  <2>4. k # NoCall
    BY <2>2, MaxCallsAssumption DEF Calls, NoCall
  <2>5. CASE call[k].kind = "CallAsync"
    <3>1. call[k].client = c
      BY <1>1, <2>2, <2>5 DEF Made, Kinds, Alone
    <3>2. /\ poller[c].found \in Calls /\ call[poller[c].found].client = c
          /\ call[poller[c].found].seq = call[k].seq /\ call[k].seq > 0
      BY <1>1, <2>1, <2>2 DEF Taken, Matched, FoundMatches, WasSent
    <3>3. poller[c].found = k
      BY <2>2, <3>1, <3>2 DEF Matched, OwnNumbers
    <3>4. promise'[k] = k
      BY <2>3, <3>3
    <3> QED
      BY <2>2, <2>4, <3>4 DEF Settled
  <2>6. CASE call[k].kind # "CallAsync"
    BY <2>2, <2>3, <2>6 DEF Settled
  <2> QED
    BY <2>5, <2>6
<1>7. \A k \in Past' : Settled(k)'
  OBVIOUS
<1> HIDE DEF Past
<1>8. ASSUME NEW w \in Workers, NEW i \in 1 .. read'[w]
      PROVE  answers'[w][i] \in Past'
  <2>1. CASE i \in 1 .. read[w]
    BY <1>2, <1>3, <2>1
  <2>2. ASSUME NEW c \in Clients, Releases(c), w = poller[c].w
        PROVE  answers'[w][i] \in Past'
    <3>1. read'[w] = read[w] + 1 /\ read[w] < Len(answers[w])
          /\ answers[w][read[w] + 1] \in Past
      BY <1>4, <2>2 DEF Releases, OnlyReader
    <3>2. i = read[w] + 1 \/ i \in 1 .. read[w]
      BY <1>2, <1>8, <3>1
    <3> QED
      BY <1>2, <2>1, <3>1, <3>2
  <2>3. read'[w] = read[w] \/ \E c \in Clients : Releases(c) /\ w = poller[c].w
    BY DEF Moves, Changes, Acts, Polls, Idles, Scans, Peeks, Finds, Sets, Pops, Releases,
           Serves, vars, clientVars
  <2> QED
    BY <1>8, <2>1, <2>2, <2>3
<1>9. ASSUME NEW c \in Clients, poller'[c].pc \in {"popping", "releasing"}
      PROVE  answers'[poller'[c].w][read'[poller'[c].w] + 1] \in Past'
  <2> DEFINE At == {"peeking", "finding", "setting", "popping", "releasing"}
  <2>1. poller'[c].w = poller[c].w /\ read' = read /\ poller[c].pc \in At
    BY <1>9, OnlyPoller DEF Polls, Idles, Scans, Peeks, Finds, Sets, Pops, Releases
  <2>2. poller[c].w \in Workers /\ read[poller[c].w] < Len(answers[poller[c].w])
        /\ read[poller[c].w] \in Nat /\ Len(answers[poller[c].w]) \in Nat
    BY <1>1, <2>1, FieldTypes DEF OnlyReader
  <2>3. answers'[poller[c].w][read[poller[c].w] + 1] = answers[poller[c].w][read[poller[c].w] + 1]
    BY <1>2, <2>2
  <2>4. poller[c].pc \in {"finding", "setting"} =>
            Header(c) = answers[poller[c].w][read[poller[c].w] + 1]
    BY DEF OnlyReader, Header
  <2>5. \/ poller[c].pc \in {"popping", "releasing"}
        \/ Polls(c) /\ Finds(c) /\ poller'[c].pc = "popping"
        \/ Polls(c) /\ Sets(c)
    <3>1. ~Peeks(c) \/ poller'[c].pc = "finding"
      BY <2>2 DEF Peeks, Queued
    <3> QED
      BY <1>9, <3>1, OnlyPoller DEF Polls, Idles, Scans, Finds, Sets, Pops, Releases
  <2>6. answers[poller[c].w][read[poller[c].w] + 1] \in Past'
    <3>1. CASE poller[c].pc \in {"popping", "releasing"}
      BY <1>2, <1>4, <2>2, <3>1
    <3>2. CASE Polls(c) /\ Finds(c) /\ poller'[c].pc = "popping"
      <4>1. answers[poller[c].w][read[poller[c].w] + 1] \in Past
        BY <1>5, <2>4, <3>2 DEF Finds
      <4> QED
        BY <1>2, <2>2, <4>1
    <3>3. CASE Polls(c) /\ Sets(c)
      BY <1>6, <2>4, <3>3 DEF Sets
    <3> QED
      BY <2>5, <3>1, <3>2, <3>3
  <2> QED
    BY <2>1, <2>3, <2>6
<1> QED
  BY <1>7, <1>8, <1>9 DEF Behind, Settled
-----------------------------------------------------------------------------
(* The invariant of a client that is alone.                                *)
LEMMA PrivateInit == Init => Private
<1> SUFFICES ASSUME Init PROVE Private
  OBVIOUS
<1>1. \A k \in Calls : call[k].pc = "idle"
  BY DEF Init
<1>2. \A c \in Clients : poller[c].pc = "off"
  BY DEF Init, PollerOff
<1>3. \A w \in Workers : read[w] = 0
  BY DEF Init
<1> QED
  BY <1>1, <1>2, <1>3 DEF Private, OnlyReader, Followed, Behind

(* Private is inductive, given the rest and a client that is alone.        *)
LEMMA PrivateStep ==
    ASSUME Alone
    PROVE  Table /\ Matched /\ Private /\ [Next]_vars => Private'
<1> SUFFICES ASSUME Table, Matched, Private, [Next]_vars PROVE Private'
  OBVIOUS
<1>1. Moves
  BY StepMoves DEF Table
<1> QED
  BY <1>1, OnlyReaderStep, FollowedStep, BehindStep DEF Private, Matched

(* So it always holds of such a client.                                    *)
LEMMA PrivateInvariant ==
    ASSUME Alone
    PROVE  Spec => []Private
<1>1. Table /\ Matched /\ Private /\ [Next]_vars => Private'
  BY PrivateStep
<1> QED
  BY <1>1, MatchedInvariant, PrivateInit, PTL DEF Spec

(* CallAsync registers before it sends: an answer that has been popped has *)
(* set its promise, unless Disconnect has cleared the entry.  Another      *)
(* client's poller could take the answer away.                             *)
THEOREM AsyncCorrect ==
    ASSUME Alone
    PROVE  Spec => []AsyncAnswersArrive
<1>1. Private => AsyncAnswersArrive
  <2> SUFFICES ASSUME Behind, NEW k \in Calls, call[k].kind = "CallAsync",
                      call[k].pc = "returned", Polled(k)
               PROVE  promise[k] # NoCall \/ k \in abandoned
    BY DEF Private, AsyncAnswersArrive
  <2>1. PICK w \in Workers : \E i \in 1 .. read[w] : answers[w][i] = k
    BY DEF Polled
  <2>2. Settled(k)
    BY <2>1 DEF Behind
  <2> QED
    BY <2>2 DEF Settled
<1> QED
  BY <1>1, PrivateInvariant, PTL
=============================================================================
