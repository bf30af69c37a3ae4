------------------------------ MODULE IpcClient ------------------------------
(***************************************************************************)
(* IpcClient: the callers inside Call and CallAsync, the table of pending  *)
(* requests, the poller thread that matches answers with entries by their  *)
(* seq_id, Connect and Disconnect.  Several clients can share the queues   *)
(* of one PhoenixShmLayout, and the server sends requests of its own into  *)
(* them, with numbers of its own.                                          *)
(*                                                                         *)
(* A header stands for the call it was made for.  The sends of all callers *)
(* are serialised, as the single-producer request queues demand of them    *)
(* (nothing in the code does it), so that a push is one step.  The workers *)
(* are not part of src/: one takes the request at the front, answers it    *)
(* once, again (after a crash) or never, and notifies.                     *)
(***************************************************************************)
EXTENDS Integers, Sequences, FiniteSets

CONSTANTS
    Clients,       \* the clients attached to the layout
    Server,        \* the server, as a sender of requests
    WorkerCount,   \* number of channels the poller visits
    Capacity,      \* capacity of a request queue
    MaxCalls,      \* bound on the calls
    MaxAnswers,    \* bound on the answers of all workers, below the capacity of a
                   \* response queue: no slot of one is used twice
    MaxConnects,   \* bound on the calls of Connect, for each client
    Notified       \* somebody notifies response_signal_ when an answer has been
                   \* queued; FALSE in the code, where Notify has no caller

ASSUME ClientsAssumption == Clients # {} /\ Server \notin Clients
ASSUME WorkerCountAssumption == WorkerCount \in Nat \ {0}
ASSUME CapacityAssumption == Capacity \in Nat \ {0}
ASSUME MaxCallsAssumption == MaxCalls \in Nat
ASSUME MaxAnswersAssumption == MaxAnswers \in Nat
ASSUME MaxConnectsAssumption == MaxConnects \in Nat
ASSUME NotifiedAssumption == Notified \in BOOLEAN

Workers == 1 .. WorkerCount
Calls   == 1 .. MaxCalls
NoCall  == 0
Kinds   == {"Call", "CallAsync"}
Senders == Clients \cup {Server}

VARIABLES
    life,       \* each client's position in Connect and Disconnect
    connects,   \* how often each client was connected
    nextSeq,    \* next_seq_id_ of each client and of the server
    pending,    \* pending_requests_ of each client: the calls with an entry
    signal,     \* response_signal_ of each client: its counter is not zero
    poller,     \* ResponsePollerMain of each client
    call,       \* the calls: [pc, kind, client, seq, since, result]
    promise,    \* what each call's promise was set to
    requests,   \* request_queue of each channel
    answers,    \* all that was ever pushed to each response_queue ...
    read,       \* ... and its read index
    unnotified, \* the worker has queued an answer and not yet notified
    abandoned   \* history: the calls whose entry Disconnect cleared

clientVars == <<life, connects, nextSeq>>
channelVars == <<requests, answers, unnotified>>
vars == <<clientVars, pending, signal, poller, call, promise, channelVars, read, abandoned>>

Life == {"off", "connecting", "connected", "joining", "resetting", "unmapped",
         "clearing", "dead"}

\* running_, connected_ and a usable layout_, by the position in the two functions
Running(c)   == life[c] \in {"connecting", "connected"}
Connected(c) == life[c] \in {"connected", "joining", "resetting", "unmapped"}
Mapped(c)    == life[c] \in {"connecting", "connected", "joining", "resetting"}

\* The client's process has not died of a fault.
Alive(c) == life[c] # "dead"

Poller == [pc    : {"off", "waiting", "scanning", "peeking", "finding", "setting",
                    "popping", "releasing"},
           w     : Workers,                 \* the channel visited
           read  : 0 .. MaxAnswers,         \* read index loaded by Peek or Pop
           found : Calls \cup {NoCall}]     \* the entry taken from the table

\* Where the poller uses the segment.
Visiting == {"scanning", "peeking", "finding", "setting", "popping", "releasing"}

Call == [pc     : {"idle", "registering", "sending", "waiting", "returned", "done"},
         kind   : Kinds \cup {"SendAsync"},
         client : Senders,                  \* who has made it
         seq    : 0 .. MaxCalls,
         since  : 0 .. MaxConnects,         \* the connection it was started in
         result : {"none", "answer", "timeout", "error", "placeholder"}]

TypeOK ==
    /\ life \in [Clients -> Life]
    /\ connects \in [Clients -> 0 .. MaxConnects]
    /\ nextSeq \in [Senders -> 1 .. MaxCalls + 1]
    /\ pending \in [Clients -> SUBSET Calls]
    /\ signal \in [Clients -> BOOLEAN]
    /\ poller \in [Clients -> Poller]
    /\ call \in [Calls -> Call]
    /\ promise \in [Calls -> Calls \cup {NoCall}]
    /\ requests \in [Workers -> Seq(Calls)]
    /\ answers \in [Workers -> Seq(Calls)]
    /\ read \in [Workers -> 0 .. MaxAnswers]
    /\ unnotified \in [Workers -> BOOLEAN]
    /\ abandoned \subseteq Calls

PollerOff == [pc |-> "off", w |-> 1, read |-> 0, found |-> NoCall]

Init ==
    /\ life = [c \in Clients |-> "off"]
    /\ connects = [c \in Clients |-> 0]
    /\ nextSeq = [s \in Senders |-> 1]
    /\ pending = [c \in Clients |-> {}]
    /\ signal = [c \in Clients |-> FALSE]
    /\ poller = [c \in Clients |-> PollerOff]
    /\ call = [k \in Calls |-> [pc |-> "idle", kind |-> "Call", client |-> CHOOSE c \in Clients : TRUE,
                                seq |-> 0, since |-> 0, result |-> "none"]]
    /\ promise = [k \in Calls |-> NoCall]
    /\ requests = [w \in Workers |-> << >>]
    /\ answers = [w \in Workers |-> << >>]
    /\ read = [w \in Workers |-> 0]
    /\ unnotified = [w \in Workers |-> FALSE]
    /\ abandoned = {}

----------------------------------------------------------------------------
\* Connect and Disconnect: one thread of each client

\* Connect up to the start of the poller; a failure before it changes nothing here.
Connect(c) ==
    /\ life[c] = "off" /\ connects[c] < MaxConnects
    /\ life' = [life EXCEPT ![c] = "connecting"]
    /\ connects' = [connects EXCEPT ![c] = @ + 1]
    /\ signal' = [signal EXCEPT ![c] = FALSE]
    /\ poller' = [poller EXCEPT ![c] = [PollerOff EXCEPT !.pc = "waiting"]]
    /\ UNCHANGED <<nextSeq, pending, call, promise, channelVars, read, abandoned>>

\* One step along Connect or Disconnect that only shows in life.
Proceed(c, from, to) ==
    /\ life[c] = from
    /\ life' = [life EXCEPT ![c] = to]
    /\ UNCHANGED <<connects, nextSeq, pending, signal, poller, call, promise, channelVars,
                   read, abandoned>>

ConnectDone(c) == Proceed(c, "connecting", "connected")

Disconnect(c) == Proceed(c, "connected", "joining")

\* Slip: Disconnect does not wait for the poller.
JoinForgotten(c) == Proceed(c, "joining", "resetting")

Join(c) == poller[c].pc = "off" /\ Proceed(c, "joining", "resetting")

\* Reset reads until a read fails.  The descriptor blocks, so on an empty counter only a
\* signal handler of the program ends it.
ResetDrains(c) ==
    /\ life[c] = "resetting" /\ signal[c]
    /\ signal' = [signal EXCEPT ![c] = FALSE]
    /\ UNCHANGED <<clientVars, pending, poller, call, promise, channelVars, read, abandoned>>

UnmapAfterReset(c) == ~signal[c] /\ Proceed(c, "resetting", "unmapped")

DisconnectDone(c) == Proceed(c, "unmapped", "clearing")

\* The entries go, and with them the promises of the asynchronous calls.
ClearPending(c) ==
    /\ life[c] = "clearing"
    /\ life' = [life EXCEPT ![c] = "off"]
    /\ pending' = [pending EXCEPT ![c] = {}]
    /\ abandoned' = abandoned \cup pending[c]
    /\ UNCHANGED <<connects, nextSeq, signal, poller, call, promise, channelVars, read>>

----------------------------------------------------------------------------
\* The callers

\* Slip: CallAsync registers after the send, as Call does.
StepsRegisterLast == [Call      |-> <<"sending", "registering", "waiting">>,
                      CallAsync |-> <<"sending", "registering", "returned">>]

\* Call sends and then registers, in WaitForResponse; CallAsync registers first.
Steps == [Call      |-> <<"sending", "registering", "waiting">>,
          CallAsync |-> <<"registering", "sending", "returned">>]

Following(k) ==
    Steps[call[k].kind][1 + CHOOSE i \in 1 .. 2 : Steps[call[k].kind][i] = call[k].pc]

\* Slip: every call gets the same number.
CallStartNumberKept(k, c, kind) ==
    /\ call[k].pc = "idle" /\ \A j \in 1 .. k - 1 : call[j].pc # "idle"
    /\ call' = [call EXCEPT ![k].pc = IF Connected(c) THEN Steps[kind][1] ELSE "done",
                            ![k].kind = kind, ![k].client = c,
                            ![k].seq = IF Connected(c) THEN nextSeq[c] ELSE 0,
                            ![k].since = connects[c],
                            ![k].result = IF Connected(c) THEN "none" ELSE "error"]
    /\ UNCHANGED <<clientVars, pending, signal, poller, promise, channelVars, read, abandoned>>

\* Test connected_ and take a number; calls are numbered in the order they start.
CallStart(k, c, kind) ==
    /\ call[k].pc = "idle" /\ \A j \in 1 .. k - 1 : call[j].pc # "idle"
    /\ call' = [call EXCEPT ![k].pc = IF Connected(c) THEN Steps[kind][1] ELSE "done",
                            ![k].kind = kind, ![k].client = c,
                            ![k].seq = IF Connected(c) THEN nextSeq[c] ELSE 0,
                            ![k].since = connects[c],
                            ![k].result = IF Connected(c) THEN "none" ELSE "error"]
    /\ nextSeq' = [nextSeq EXCEPT ![c] = @ + IF Connected(c) THEN 1 ELSE 0]
    /\ UNCHANGED <<life, connects, pending, signal, poller, promise, channelVars, read,
                   abandoned>>

\* FindBestNormalWorker, FindBestVipWorker: the first of the shortest queues
BestWorker ==
    CHOOSE w \in Workers : \A v \in Workers :
        \/ Len(requests[w]) < Len(requests[v])
        \/ Len(requests[w]) = Len(requests[v]) /\ w <= v

\* SendRequest; CallAsync takes its entry back when it fails.
SendRequest(k) ==
    LET c == call[k].client
        full == Len(requests[BestWorker]) >= Capacity
    IN  /\ call[k].pc = "sending" /\ Mapped(c)
        /\ call' = [call EXCEPT ![k].pc = IF full THEN "done" ELSE Following(k),
                                ![k].result = IF full THEN "error" ELSE @]
        /\ requests' = [requests EXCEPT ![BestWorker] = IF full THEN @ ELSE Append(@, k)]
        /\ pending' = [pending EXCEPT ![c] = IF full THEN @ \ {k} ELSE @]
        /\ UNCHANGED <<clientVars, signal, poller, promise, answers, unnotified, read, abandoned>>

\* A call that passed the test of connected_ in time can come too late for the mapping:
\* the process dies.
SendFaults(k) ==
    /\ call[k].pc = "sending" /\ ~Mapped(call[k].client)
    /\ life' = [life EXCEPT ![call[k].client] = "dead"]
    /\ pending' = [pending EXCEPT ![call[k].client] = {}]
    /\ signal' = [signal EXCEPT ![call[k].client] = FALSE]
    /\ UNCHANGED <<connects, nextSeq, poller, call, promise, channelVars, read, abandoned>>

\* Enter the call in pending_requests_.
Register(k) ==
    /\ call[k].pc = "registering"
    /\ pending' = [pending EXCEPT ![call[k].client] = @ \cup {k}]
    /\ call' = [call EXCEPT ![k].pc = Following(k)]
    /\ UNCHANGED <<clientVars, signal, poller, promise, channelVars, read, abandoned>>

\* wait_for finds the promise set.
WaitReturns(k) ==
    /\ call[k].pc = "waiting" /\ promise[k] # NoCall
    /\ call' = [call EXCEPT ![k].pc = "done", ![k].result = "answer"]
    /\ UNCHANGED <<clientVars, pending, signal, poller, promise, channelVars, read, abandoned>>

\* Slip: the entry stays when the call times out.
WaitTimesOutEntryKept(k) ==
    /\ call[k].pc = "waiting"
    /\ call' = [call EXCEPT ![k].pc = "done", ![k].result = "timeout"]
    /\ UNCHANGED <<clientVars, pending, signal, poller, promise, channelVars, read, abandoned>>

\* No time remains.  The promise may have been set since the loop looked at it, or be
\* about to be set by the poller, which has the entry: the call has timed out.
WaitTimesOut(k) ==
    /\ call[k].pc = "waiting"
    /\ call' = [call EXCEPT ![k].pc = "done", ![k].result = "timeout"]
    /\ pending' = [pending EXCEPT ![call[k].client] = @ \ {k}]
    /\ UNCHANGED <<clientVars, signal, poller, promise, channelVars, read, abandoned>>

----------------------------------------------------------------------------
\* IpcServer::SendAsync, and Send, which calls it: the same queues, the server's own
\* numbers.  The promise is set at once, to a placeholder, and no answer is waited for.
SendAsync(k) ==
    LET full == Len(requests[BestWorker]) >= Capacity
    IN  /\ call[k].pc = "idle" /\ \A j \in 1 .. k - 1 : call[j].pc # "idle"
        /\ call' = [call EXCEPT ![k].pc = "done", ![k].kind = "SendAsync", ![k].client = Server,
                                ![k].seq = nextSeq[Server],
                                ![k].result = IF full THEN "error" ELSE "placeholder"]
        /\ nextSeq' = [nextSeq EXCEPT ![Server] = @ + 1]
        /\ requests' = [requests EXCEPT ![BestWorker] = IF full THEN @ ELSE Append(@, k)]
        /\ UNCHANGED <<life, connects, pending, signal, poller, promise, answers, unnotified,
                       read, abandoned>>

----------------------------------------------------------------------------
\* ResponsePollerMain

\* One step of the poller that changes nothing but its own locals.
PollerGoes(c, locals) ==
    /\ poller' = [poller EXCEPT ![c] = locals]
    /\ UNCHANGED <<clientVars, pending, signal, call, promise, channelVars, read, abandoned>>

\* At the test of running_ or inside Wait(100), whichever it is.
PollerEnds(c) ==
    /\ poller[c].pc = "waiting" /\ ~Running(c)
    /\ PollerGoes(c, PollerOff)

\* Wait(100) is signalled, and the test of connected_.
PollerWakes(c) ==
    /\ poller[c].pc = "waiting" /\ signal[c]
    /\ signal' = [signal EXCEPT ![c] = FALSE]
    /\ poller' = [poller EXCEPT ![c].pc = IF Connected(c) THEN "scanning" ELSE "waiting"]
    /\ UNCHANGED <<clientVars, pending, call, promise, channelVars, read, abandoned>>

Queued(w) == Len(answers[w]) - read[w]

\* Slip: the last channel is not visited.
PollScanShort(c) ==
    LET w == poller[c].w
    IN  /\ poller[c].pc = "scanning"
        /\ PollerGoes(c, IF Queued(w) > 0 THEN [poller[c] EXCEPT !.pc = "peeking"]
                         ELSE IF w + 1 < WorkerCount THEN [poller[c] EXCEPT !.w = w + 1]
                         ELSE [poller[c] EXCEPT !.pc = "waiting", !.w = 1])

\* Slip: the loop over the channels goes one too far.
PollScanTooFar(c) ==
    LET w == poller[c].w
    IN  /\ poller[c].pc = "scanning"
        /\ PollerGoes(c, IF Queued(w) > 0 THEN [poller[c] EXCEPT !.pc = "peeking"]
                         ELSE IF w <= WorkerCount THEN [poller[c] EXCEPT !.w = w + 1]
                         ELSE [poller[c] EXCEPT !.pc = "waiting", !.w = 1])

\* Empty(), and the loops over the channels.
PollScan(c) ==
    LET w == poller[c].w
    IN  /\ poller[c].pc = "scanning"
        /\ PollerGoes(c, IF Queued(w) > 0 THEN [poller[c] EXCEPT !.pc = "peeking"]
                         ELSE IF w < WorkerCount THEN [poller[c] EXCEPT !.w = w + 1]
                         ELSE [poller[c] EXCEPT !.pc = "waiting", !.w = 1])

\* Peek(): null, if another client's poller was faster.
PollPeek(c) ==
    LET w == poller[c].w
    IN  /\ poller[c].pc = "peeking"
        /\ PollerGoes(c, IF Queued(w) > 0
                         THEN [poller[c] EXCEPT !.pc = "finding", !.read = read[w]]
                         ELSE [poller[c] EXCEPT !.pc = "popping"])

\* The header Peek's pointer leads to.
Header(c) == answers[poller[c].w][poller[c].read + 1]

\* pending_requests_.find(header->seq_id)
Matching(c) == {k \in pending[c] : call[k].seq = call[Header(c)].seq}

\* Slip: the entry is found and not erased.
PollFindNotErased(c) ==
    /\ poller[c].pc = "finding"
    /\ poller' = [poller EXCEPT
          ![c].pc = IF Matching(c) = {} THEN "popping" ELSE "setting",
          ![c].read = IF Matching(c) = {} THEN 0 ELSE @,
          ![c].found = IF Matching(c) = {} THEN NoCall ELSE CHOOSE k \in Matching(c) : TRUE]
    /\ UNCHANGED <<clientVars, pending, signal, call, promise, channelVars, read, abandoned>>

\* Under pending_mutex_: find the entry and erase it.
PollFind(c) ==
    /\ poller[c].pc = "finding"
    /\ poller' = [poller EXCEPT
          ![c].pc = IF Matching(c) = {} THEN "popping" ELSE "setting",
          ![c].read = IF Matching(c) = {} THEN 0 ELSE @,
          ![c].found = IF Matching(c) = {} THEN NoCall ELSE CHOOSE k \in Matching(c) : TRUE]
    /\ pending' = [pending EXCEPT ![c] = @ \ Matching(c)]
    /\ UNCHANGED <<clientVars, signal, call, promise, channelVars, read, abandoned>>

\* promise.set_value(*header)
PollSet(c) ==
    /\ poller[c].pc = "setting"
    /\ promise' = [promise EXCEPT ![poller[c].found] = Header(c)]
    /\ poller' = [poller EXCEPT ![c].pc = "popping", ![c].read = 0, ![c].found = NoCall]
    /\ UNCHANGED <<clientVars, pending, signal, call, channelVars, read, abandoned>>

\* Pop(): load and test, then store.
PollPop(c) ==
    LET w == poller[c].w
    IN  /\ poller[c].pc = "popping"
        /\ PollerGoes(c, IF Queued(w) > 0
                         THEN [poller[c] EXCEPT !.pc = "releasing", !.read = read[w]]
                         ELSE [poller[c] EXCEPT !.pc = "scanning"])

PollRelease(c) ==
    /\ poller[c].pc = "releasing"
    /\ read' = [read EXCEPT ![poller[c].w] = poller[c].read + 1]
    /\ poller' = [poller EXCEPT ![c].pc = "scanning", ![c].read = 0]
    /\ UNCHANGED <<clientVars, pending, signal, call, promise, channelVars, abandoned>>

----------------------------------------------------------------------------
\* The workers

AnswersSoFar == Cardinality(UNION {{w} \X DOMAIN answers[w] : w \in Workers})

WorkerAnswers(w) ==
    /\ requests[w] # << >> /\ ~unnotified[w] /\ AnswersSoFar < MaxAnswers
    /\ answers' = [answers EXCEPT ![w] = Append(@, Head(requests[w]))]
    /\ unnotified' = [unnotified EXCEPT ![w] = TRUE]
    /\ UNCHANGED <<clientVars, pending, signal, poller, call, promise, requests, read, abandoned>>

WorkerNotifies(w) ==
    /\ unnotified[w]
    /\ unnotified' = [unnotified EXCEPT ![w] = FALSE]
    /\ signal' = [c \in Clients |-> signal[c] \/ (Notified /\ Alive(c))]
    /\ UNCHANGED <<clientVars, pending, poller, call, promise, requests, answers, read, abandoned>>

WorkerPops(w) ==
    /\ requests[w] # << >> /\ ~unnotified[w]
    /\ requests' = [requests EXCEPT ![w] = Tail(@)]
    /\ UNCHANGED <<clientVars, pending, signal, poller, call, promise, answers, unnotified, read,
                   abandoned>>

----------------------------------------------------------------------------
Connection(c) ==
    \/ Connect(c) \/ ConnectDone(c) \/ Disconnect(c) \/ Join(c) \/ ResetDrains(c)
    \/ UnmapAfterReset(c) \/ DisconnectDone(c) \/ ClearPending(c)

CallStep(k) ==
    \/ SendRequest(k) \/ SendFaults(k) \/ Register(k)
    \/ WaitReturns(k) \/ WaitTimesOut(k)

Poll(c) ==
    \/ PollerEnds(c) \/ PollerWakes(c) \/ PollScan(c) \/ PollPeek(c)
    \/ PollFind(c) \/ PollSet(c) \/ PollPop(c) \/ PollRelease(c)

\* What the threads of a client's process do while it lives.
CallRuns(k)   == call[k].client \in Clients /\ Alive(call[k].client) /\ CallStep(k)
PollerRuns(c) == Alive(c) /\ Poll(c)

Next ==
    \/ \E c \in Clients : Connection(c) \/ PollerRuns(c)
    \/ \E k \in Calls, c \in Clients, kind \in Kinds : Alive(c) /\ CallStart(k, c, kind)
    \/ \E k \in Calls : CallRuns(k) \/ SendAsync(k)
    \/ \E w \in Workers : WorkerAnswers(w) \/ WorkerNotifies(w) \/ WorkerPops(w)

\* The poller runs when it can, and a worker that has queued an answer gets to its next
\* step.  Nobody has to connect, call, disconnect or answer.
Fairness ==
    /\ \A c \in Clients : WF_vars(PollerRuns(c))
    /\ \A w \in Workers : WF_vars(WorkerNotifies(w))

Spec == Init /\ [][Next]_vars /\ Fairness

----------------------------------------------------------------------------
\* The answers to call k that have been queued, and those taken off again.
Answered(k) == \E w \in Workers : \E i \in 1 .. Len(answers[w]) : answers[w][i] = k
Polled(k)   == \E w \in Workers : \E i \in 1 .. read[w] : answers[w][i] = k

(***************************************************************************)
(* The poller matches by number: a call is completed by the answer to a    *)
(* request with its own number, also when requests are answered twice,     *)
(* time out or are overtaken by a Disconnect and the next Connect.  If     *)
(* that is not the call's own request, another sender has made it, another *)
(* client or the server: each of them counts from 1.                       *)
(***************************************************************************)
AnswersMatchCalls ==
    \A k \in Calls : promise[k] \notin {NoCall, k} =>
        /\ call[promise[k]].seq = call[k].seq
        /\ call[promise[k]].client # call[k].client

(***************************************************************************)
(* README.md:319, the number of a request is globally unique and its       *)
(* answer carries it, so that the client can tell which request the answer *)
(* belongs to: among the answers queued for the poller none carries the    *)
(* number of a pending call without being the answer to it.  Refuted: the  *)
(* server's requests and the client's are both numbered from 1.            *)
(***************************************************************************)
AnswersIdentifyCalls ==
    \A c \in Clients : \A k \in pending[c] :
        \A w \in Workers : \A i \in read[w] + 1 .. Len(answers[w]) :
            call[answers[w][i]].seq = call[k].seq => answers[w][i] = k

(***************************************************************************)
(* A promise is set once: a second set_value throws in the poller thread   *)
(* and ends the process.  Erasing the entry when it is found is what keeps *)
(* a repeated answer from it.                                              *)
(***************************************************************************)
PromisesSetOnce ==
    \A c \in Clients : poller[c].pc = "setting" => promise[poller[c].found] = NoCall

(***************************************************************************)
(* The entries of the table belong to calls that still can be completed:   *)
(* whatever the order of answer, time-out and failure, none stays behind.  *)
(***************************************************************************)
EntriesHaveCallers ==
    \A c \in Clients : \A k \in pending[c] :
        /\ call[k].client = c /\ promise[k] = NoCall
        /\ call[k].pc \in [Call      |-> {"waiting"},
                           CallAsync |-> {"sending", "returned"}][call[k].kind]

(***************************************************************************)
(* CallAsync registers before it sends, so no answer can be polled too     *)
(* early: one that has been taken off the queue has set its promise,       *)
(* unless Disconnect cleared the entry.  Call registers afterwards and has *)
(* no such guarantee.                                                      *)
(***************************************************************************)
AsyncAnswersArrive ==
    \A k \in Calls :
        call[k].kind = "CallAsync" /\ call[k].pc = "returned" /\ Polled(k)
            => promise[k] # NoCall \/ k \in abandoned

(***************************************************************************)
(* The poller never touches the segment once Disconnect has unmapped it.   *)
(***************************************************************************)
PollerStaysMapped ==
    \A c \in Clients : Alive(c) /\ poller[c].pc \in Visiting => Mapped(c)

(***************************************************************************)
(* README.md:463, get() of the future waits for the result: an             *)
(* asynchronous call whose answer was queued is completed, unless its      *)
(* client disconnects.  It needs somebody who notifies the client: it is   *)
(* checked with Notified and refuted without.  A call that was overtaken   *)
(* by Disconnect and the next Connect is excepted: its notification can    *)
(* reach the new poller before connected_ is set, and is lost.             *)
(***************************************************************************)
AnsweredCallsComplete ==
    \A c \in Clients, k \in Calls :
        (/\ call[k].kind = "CallAsync" /\ call[k].pc = "returned" /\ call[k].client = c
         /\ Answered(k) /\ k \notin abandoned /\ call[k].since = connects[c])
            ~> promise[k] # NoCall \/ life[c] # "connected"
=============================================================================
