-------------------------- MODULE PipeServer_proofs --------------------------
(* Proofs about PipeServer, for any number of clients.                      *)
EXTENDS PipeServer, TLAPS

-----------------------------------------------------------------------------
(* Facts about the steps.                                                  *)

\* The stop poke and the empty instance are nobody's connection.
LEMMA PokeIsForeign == Poke \notin Clients /\ NoOne \notin Clients /\ NoOne # Poke
BY PokeIsNoClient

\* Closing a pipe cuts off the client that is on it, and nobody else.
LEMMA CloseTouchesOne ==
    ASSUME PipeTypeOK, NEW p, Close(p)
    PROVE  /\ client' \in [Clients -> ClientStates]
           /\ buffered' = buffered \ {p}
           /\ \A c \in Clients : c # p => client'[c] = client[c]
           /\ p \in Clients =>
                client'[p] = IF client[p] = "connected" THEN "cut" ELSE client[p]
BY DEF PipeTypeOK, Close, ClientStates

\* A step that leaves a client, its frame, its worker and its place alone leaves
\* the exchange in step.
LEMMA Untouched ==
    ASSUME NEW c \in Clients, InStep(c),
           UNCHANGED <<client[c], frame[c], worker[c]>>,
           c \in buffered <=> c \in buffered',
           instance' = c => instance = c
    PROVE  InStep(c)'
BY DEF InStep

-----------------------------------------------------------------------------
(* Type correctness and agreement, action by action.                       *)

LEMMA PipeInitInv == PipeInit => PipeInv
<1>. SUFFICES ASSUME PipeInit PROVE PipeInv
  OBVIOUS
<1>1. PipeTypeOK
  BY PokeIsForeign
     DEF PipeInit, PipeTypeOK, ClientStates, Frames, WorkerStates, ListenerStates
<1>2. ASSUME NEW c \in Clients PROVE InStep(c)
  BY <1>2, PokeIsForeign DEF PipeInit, InStep
<1>. QED BY <1>1, <1>2 DEF PipeInv

\* What the clients do by themselves.
LEMMA ClientsPreserve ==
    ASSUME PipeInv, NEW c \in Clients,
           \/ Try(c) \/ ConnectTimeout(c) \/ Connect(c) \/ Receive(c) \/ Disconnect(c)
           \/ \E f \in Frames : Send(c, f)
    PROVE  PipeInv'
<1>1. CASE Try(c)
  <2>1. PipeTypeOK'
    BY <1>1 DEF PipeInv, PipeTypeOK, Try, Client, ClientStates, Held
  <2>2. ASSUME NEW d \in Clients PROVE InStep(d)'
    BY <1>1, <2>2 DEF PipeInv, PipeTypeOK, InStep, Try, Client
  <2>. QED BY <2>1, <2>2 DEF PipeInv
<1>2. CASE ConnectTimeout(c)
  <2>1. PipeTypeOK'
    BY <1>2 DEF PipeInv, PipeTypeOK, ConnectTimeout, Client, ClientStates, Held
  <2>2. ASSUME NEW d \in Clients PROVE InStep(d)'
    BY <1>2, <2>2 DEF PipeInv, PipeTypeOK, InStep, ConnectTimeout, Client
  <2>. QED BY <2>1, <2>2 DEF PipeInv
<1>3. CASE Connect(c)
  <2>1. PipeTypeOK'
    BY <1>3 DEF PipeInv, PipeTypeOK, InStep, Connect, Client, ClientStates, Held
  <2>2. ASSUME NEW d \in Clients PROVE InStep(d)'
    BY <1>3, <2>2, PokeIsForeign DEF PipeInv, PipeTypeOK, InStep, Connect, Client
  <2>. QED BY <2>1, <2>2 DEF PipeInv
<1>4. CASE Receive(c)
  <2>1. PipeTypeOK'
    BY <1>4 DEF PipeInv, PipeTypeOK, Receive, Client, ClientStates, Held
  <2>2. ASSUME NEW d \in Clients PROVE InStep(d)'
    BY <1>4, <2>2 DEF PipeInv, PipeTypeOK, InStep, Receive, Client
  <2>. QED BY <2>1, <2>2 DEF PipeInv
<1>5. CASE Disconnect(c)
  <2>1. PipeTypeOK'
    BY <1>5 DEF PipeInv, PipeTypeOK, Disconnect, Client, ClientStates, Held
  <2>2. ASSUME NEW d \in Clients PROVE InStep(d)'
    BY <1>5, <2>2 DEF PipeInv, PipeTypeOK, InStep, Disconnect, Client
  <2>. QED BY <2>1, <2>2 DEF PipeInv
<1>6. ASSUME NEW f \in Frames, Send(c, f) PROVE PipeInv'
  <2>1. PipeTypeOK'
    BY <1>6 DEF PipeInv, PipeTypeOK, Send, Held
  <2>2. ASSUME NEW d \in Clients PROVE InStep(d)'
    BY <1>6, <2>2 DEF PipeInv, PipeTypeOK, InStep, Send
  <2>. QED BY <2>1, <2>2 DEF PipeInv
<1>. QED BY <1>1, <1>2, <1>3, <1>4, <1>5, <1>6

\* The listener's loop.
LEMMA ListenerPreserves ==
    ASSUME PipeInv, ListenerStep
    PROVE  PipeInv'
<1>1. CASE Check \/ CreatePipe \/ Accept \/ TakeForPoke
  <2>1. PipeTypeOK'
    BY <1>1 DEF PipeInv, PipeTypeOK, Check, CreatePipe, Accept, TakeForPoke, Listen,
                Held, ListenerStates
  <2>2. UNCHANGED <<client, frame, worker, buffered, instance>>
    BY <1>1 DEF Check, CreatePipe, Accept, TakeForPoke
  <2>. QED BY <2>1, <2>2 DEF PipeInv, InStep
<1>2. CASE AcceptNoData
  <2>1. PipeTypeOK'
    BY <1>2, PokeIsForeign DEF PipeInv, PipeTypeOK, AcceptNoData, Listen, Held, ListenerStates
  <2>2. ASSUME NEW c \in Clients PROVE InStep(c)'
    BY <1>2, <2>2, PokeIsForeign DEF PipeInv, AcceptNoData, InStep
  <2>. QED BY <2>1, <2>2 DEF PipeInv
<1>3. CASE HandOver /\ Close(instance) /\ UNCHANGED worker
  <2>1. PipeTypeOK'
    BY <1>3, PokeIsForeign, CloseTouchesOne
       DEF PipeInv, PipeTypeOK, HandOver, Listen, Held, ListenerStates
  <2>2. ASSUME NEW c \in Clients PROVE InStep(c)'
    BY <1>3, <2>2, PokeIsForeign, CloseTouchesOne DEF PipeInv, PipeTypeOK, HandOver, InStep
  <2>. QED BY <2>1, <2>2 DEF PipeInv
<1>4. CASE HandOver /\ worker' = [worker EXCEPT ![instance] = "reading"]
           /\ UNCHANGED <<client, buffered>>
  <2>1. PipeTypeOK'
    BY <1>4, PokeIsForeign
       DEF PipeInv, PipeTypeOK, HandOver, Listen, Held, ListenerStates, WorkerStates
  <2>2. ASSUME NEW c \in Clients PROVE InStep(c)'
    BY <1>4, <2>2, PokeIsForeign DEF PipeInv, PipeTypeOK, HandOver, InStep
  <2>. QED BY <2>1, <2>2 DEF PipeInv
<1>5. CASE Drain
  <2>1. PipeTypeOK'
    BY <1>5, PokeIsForeign, CloseTouchesOne
       DEF PipeInv, PipeTypeOK, Drain, Listen, Held, ListenerStates
  <2>2. ASSUME NEW c \in Clients PROVE InStep(c)'
    BY <1>5, <2>2, PokeIsForeign, CloseTouchesOne DEF PipeInv, PipeTypeOK, Drain, InStep
  <2>. QED BY <2>1, <2>2 DEF PipeInv
<1>. QED BY <1>1, <1>2, <1>3, <1>4, <1>5 DEF ListenerStep, HandOver

\* The worker of a connection: it closes a pipe under a waiting client only if
\* that client's request was not whole.
LEMMA WorkersPreserve ==
    ASSUME PipeInv, NEW c \in Clients, WorkerStep(c)
    PROVE  PipeInv'
<1>1. CASE ReadFrame(c)
  <2>1. PipeTypeOK'
    BY <1>1 DEF PipeInv, PipeTypeOK, ReadFrame, Worker, WorkerStates, Held
  <2>2. ASSUME NEW d \in Clients PROVE InStep(d)'
    BY <1>1, <2>2 DEF PipeInv, PipeTypeOK, InStep, ReadFrame, Worker
  <2>. QED BY <2>1, <2>2 DEF PipeInv
<1>2. CASE RejectFrame(c)
  <2>1. PipeTypeOK'
    BY <1>2, CloseTouchesOne
       DEF PipeInv, PipeTypeOK, RejectFrame, Worker, WorkerStates, Held
  <2>2. ASSUME NEW d \in Clients PROVE InStep(d)'
    BY <1>2, <2>2, CloseTouchesOne
       DEF PipeInv, PipeTypeOK, InStep, RejectFrame, Worker
  <2>. QED BY <2>1, <2>2 DEF PipeInv
<1>3. CASE Dispatch(c)
  <2>1. PipeTypeOK'
    BY <1>3 DEF PipeInv, PipeTypeOK, Dispatch, Worker, WorkerStates, Held
  <2>2. ASSUME NEW d \in Clients PROVE InStep(d)'
    BY <1>3, <2>2 DEF PipeInv, PipeTypeOK, InStep, Dispatch, Worker
  <2>. QED BY <2>1, <2>2 DEF PipeInv
<1>4. CASE CloseConnection(c)
  <2>1. PipeTypeOK'
    BY <1>4, CloseTouchesOne
       DEF PipeInv, PipeTypeOK, CloseConnection, Worker, WorkerStates, Held
  <2>2. ASSUME NEW d \in Clients PROVE InStep(d)'
    BY <1>4, <2>2, CloseTouchesOne
       DEF PipeInv, PipeTypeOK, InStep, CloseConnection, Flushed, Worker
  <2>. QED BY <2>1, <2>2 DEF PipeInv
<1>. QED BY <1>1, <1>2, <1>3, <1>4 DEF WorkerStep

\* stop(): the poke takes an empty instance only, a killed listener gives up
\* its own.
LEMMA StopPreserves ==
    ASSUME PipeInv, StopStep
    PROVE  PipeInv'
<1>1. CASE SetStop \/ Joined
  <2>1. PipeTypeOK'
    BY <1>1 DEF PipeInv, PipeTypeOK, SetStop, Joined, Held
  <2>2. UNCHANGED <<client, frame, worker, buffered, instance>>
    BY <1>1 DEF SetStop, Joined
  <2>. QED BY <2>1, <2>2 DEF PipeInv, InStep
<1>2. CASE PokeListener
  <2>1. PipeTypeOK'
    BY <1>2, PokeIsForeign DEF PipeInv, PipeTypeOK, PokeListener, Held
  <2>2. ASSUME NEW c \in Clients PROVE InStep(c)'
    BY <1>2, <2>2, PokeIsForeign DEF PipeInv, PokeListener, InStep
  <2>. QED BY <2>1, <2>2 DEF PipeInv
<1>3. CASE Kill
  <2>1. PipeTypeOK'
    BY <1>3, PokeIsForeign DEF PipeInv, PipeTypeOK, Kill, Stuck, Listen, Held, ListenerStates
  <2>2. UNCHANGED <<client, frame, worker, buffered, instance>>
    BY <1>3 DEF Kill
  <2>. QED BY <2>1, <2>2 DEF PipeInv, InStep
<1>4. CASE Exit
  <2>1. PipeTypeOK'
    BY <1>4, PokeIsForeign
       DEF PipeInv, PipeTypeOK, Exit, Held, ClientStates, WorkerStates
  <2>2. ASSUME NEW c \in Clients PROVE InStep(c)'
    BY <1>4, <2>2, PokeIsForeign DEF PipeInv, PipeTypeOK, Exit, InStep, ClientStates, WorkerStates
  <2>. QED BY <2>1, <2>2 DEF PipeInv
<1>. QED BY <1>1, <1>2, <1>3, <1>4 DEF StopStep

-----------------------------------------------------------------------------
(* The results.                                                            *)

LEMMA PipeInvariant == PipeSpec => []PipeInv
<1>1. ASSUME PipeInv, UNCHANGED pvars PROVE PipeInv'
  BY <1>1 DEF PipeInv, PipeTypeOK, InStep, Held, pvars
<1>2. PipeInv /\ [PipeNext]_pvars => PipeInv'
  BY <1>1, ClientsPreserve, ListenerPreserves, WorkersPreserve, StopPreserves
     DEF PipeNext
<1>. QED BY PipeInitInv, <1>2, PTL DEF PipeSpec

\* A pipe handle has one owner: at any time a connection is the listener's or
\* one worker's, never both; the loop's own states hold an instance, and what a
\* terminated listener has left.
THEOREM PipeTypeCorrect == PipeSpec => []PipeTypeOK
<1>1. PipeInv => PipeTypeOK
  BY DEF PipeInv
<1>. QED BY PipeInvariant, <1>1, PTL

\* handleOne waits (FlushFileBuffers) before it disconnects: whoever sent a whole
\* request has read its reply or has left when its worker closes the connection.
THEOREM NoReplyIsLost == PipeSpec => []NoReplyLost
<1>1. PipeInv => NoReplyLost
  BY DEF PipeInv, InStep, NoReplyLost
<1>. QED BY PipeInvariant, <1>1, PTL
=============================================================================
