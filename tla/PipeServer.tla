----------------------------- MODULE PipeServer -----------------------------
(***************************************************************************)
(* The named-pipe server: a listener thread that creates one pipe instance *)
(* at a time, hands each connected client to a worker thread of its own    *)
(* (one request, one reply, close), and PipeServer::stop, which wakes the  *)
(* listener by connecting once and kills it if it does not end within 3 s. *)
(* The process ends some time after stop(), and takes the workers with it, *)
(* which nobody joins.                                                     *)
(*                                                                         *)
(* Clients are external: the UI's one-shot ServiceClient and anything else *)
(* that opens the pipe - a probe that closes at once, a client that sends  *)
(* half a frame, or nothing, and stays.  A request is reduced to whether   *)
(* its frame is complete; what it does to the hardware or the stores is in *)
(* the other modules.                                                      *)
(***************************************************************************)
EXTENDS Naturals, FiniteSets

CONSTANTS Clients,     \* the connections that can be made
          Poke,        \* the connection stop() makes itself
          NoOne,       \* an instance nobody is connected to
          Faulty       \* may creating a pipe or a thread fail?

ASSUME PokeIsNoClient  == Poke \notin Clients /\ NoOne \notin Clients \cup {Poke}
ASSUME PipeFaultyIsBool == Faulty \in BOOLEAN

VARIABLES
    stopFlag,   \* stop_
    listener,   \* where the listener loop is
    instance,   \* who is on the listener's pipe instance
    client,     \* what each client has done so far
    frame,      \* what each client has sent
    worker,     \* where each client's worker is
    buffered,   \* clients with a reply in their pipe, not read yet
    stopper,    \* where stop() is
    killed      \* the listener was terminated

pvars == <<stopFlag, listener, instance, client, frame, worker, buffered,
           stopper, killed>>

ClientStates   == {"away", "trying", "connected", "answered", "cut", "left"}
Frames         == {"nothing", "part", "whole", "oversized"}
WorkerStates   == {"none", "reading", "dispatching", "flushing", "closed", "gone"}
ListenerStates == {"check", "create", "connect", "accepted", "drain", "ended"}

\* The loop holds a pipe instance between creating it and giving it away; that
\* of a terminated listener stays until the process ends.
Held == \/ listener \in {"connect", "accepted", "drain"}
        \/ killed /\ stopper = "ended"

PipeTypeOK ==
    /\ stopFlag \in BOOLEAN /\ killed \in BOOLEAN
    /\ listener \in ListenerStates
    /\ instance \in Clients \cup {Poke, NoOne}
    /\ client \in [Clients -> ClientStates]
    /\ frame \in [Clients -> Frames]
    /\ worker \in [Clients -> WorkerStates]
    /\ buffered \subseteq Clients
    /\ stopper \in {"up", "poke", "wait", "ended", "exited"}
    /\ instance # NoOne => Held
    /\ listener \in {"accepted", "drain"} => instance # NoOne
    \* a connection belongs to the listener or to a worker, not to both
    /\ instance \in Clients => worker[instance] = "none"
    /\ stopper \in {"ended", "exited"} => listener = "ended"
    \* nobody works on after the process
    /\ stopper = "exited" => \A c \in Clients : worker[c] \in {"none", "closed", "gone"}

PipeInit ==
    /\ stopFlag = FALSE
    /\ listener = "check"
    /\ instance = NoOne
    /\ client = [c \in Clients |-> "away"]
    /\ frame = [c \in Clients |-> "nothing"]
    /\ worker = [c \in Clients |-> "none"]
    /\ buffered = {}
    /\ stopper = "up"
    /\ killed = FALSE

-----------------------------------------------------------------------------
(* Clients.                                                                *)

Client(c, state) == client' = [client EXCEPT ![c] = state]

\* A client waits for a free instance; Connect gives up after its timeout.
Try(c) ==
    /\ client[c] = "away" /\ Client(c, "trying")
    /\ UNCHANGED <<stopFlag, listener, instance, frame, worker, buffered,
                   stopper, killed>>

ConnectTimeout(c) ==
    /\ client[c] = "trying" /\ Client(c, "left")
    /\ UNCHANGED <<stopFlag, listener, instance, frame, worker, buffered,
                   stopper, killed>>

\* An instance can be taken as soon as it exists, before ConnectNamedPipe.
Connect(c) ==
    /\ client[c] = "trying" /\ Held /\ instance = NoOne
    /\ instance' = c
    /\ Client(c, "connected")
    /\ UNCHANGED <<stopFlag, listener, frame, worker, buffered, stopper, killed>>

\* A frame arrives in parts, whole, or with a length the server refuses.
Send(c, f) ==
    /\ client[c] = "connected" /\ frame[c] \in {"nothing", "part"}
    /\ f # frame[c] /\ f # "nothing"
    /\ frame' = [frame EXCEPT ![c] = f]
    /\ UNCHANGED <<stopFlag, listener, instance, client, worker, buffered,
                   stopper, killed>>

Receive(c) ==
    /\ client[c] = "connected" /\ c \in buffered
    /\ buffered' = buffered \ {c}
    /\ Client(c, "answered")
    /\ UNCHANGED <<stopFlag, listener, instance, frame, worker, stopper, killed>>

\* The client closes its end or dies.
Disconnect(c) ==
    /\ client[c] = "connected" /\ Client(c, "left")
    /\ buffered' = buffered \ {c}
    /\ UNCHANGED <<stopFlag, listener, instance, frame, worker, stopper, killed>>

\* The server closes the pipe of c: a client that is still there is cut off,
\* and a reply it has not read is gone.
Close(c) ==
    /\ client' = IF c \in Clients /\ client[c] = "connected"
                   THEN [client EXCEPT ![c] = "cut"] ELSE client
    /\ buffered' = buffered \ {c}

-----------------------------------------------------------------------------
(* listenerLoop.                                                           *)

Listen(state) == listener' = state

\* Is the peer on the instance still there?  The poke closes at once.
PeerGone(p) == p = Poke \/ (p \in Clients /\ client[p] # "connected")

Check ==
    /\ listener = "check"
    /\ Listen(IF stopFlag THEN "ended" ELSE "create")
    /\ UNCHANGED <<stopFlag, instance, client, frame, worker, buffered,
                   stopper, killed>>

\* CreateNamedPipe; on failure the loop looks at stop_ and starts over.
CreatePipe ==
    /\ listener = "create"
    /\ \/ Listen("connect")
       \/ Faulty /\ Listen(IF stopFlag THEN "ended" ELSE "check")
    /\ UNCHANGED <<stopFlag, instance, client, frame, worker, buffered, stopper, killed>>

\* ConnectNamedPipe returns once somebody is on the instance ...
Accept ==
    /\ listener = "connect" /\ instance # NoOne
    /\ Listen("accepted")
    /\ UNCHANGED <<stopFlag, instance, client, frame, worker, buffered,
                   stopper, killed>>

\* ... or fails if that peer was gone before it was called.
AcceptNoData ==
    /\ listener = "connect" /\ PeerGone(instance)
    /\ instance' = NoOne
    /\ Listen(IF stopFlag THEN "ended" ELSE "check")
    /\ UNCHANGED <<stopFlag, client, frame, worker, buffered, stopper, killed>>

\* Mutant: the listener waits for the worker it started.
HandOverInline ==
    /\ listener = "accepted" /\ ~stopFlag /\ worker[instance] \in {"none", "closed"}
    /\ IF worker[instance] = "none"
         THEN /\ worker' = [worker EXCEPT ![instance] = "reading"]
              /\ UNCHANGED <<instance, listener>>
         ELSE UNCHANGED worker /\ instance' = NoOne /\ Listen("check")
    /\ UNCHANGED <<stopFlag, client, frame, buffered, stopper, killed>>

\* handleOne: the connection goes to a new worker, or is closed if there is none.
HandOver ==
    /\ listener = "accepted" /\ ~stopFlag
    /\ \/ /\ worker' = [worker EXCEPT ![instance] = "reading"]
          /\ UNCHANGED <<client, buffered>>
       \/ Faulty /\ Close(instance) /\ UNCHANGED worker
    /\ instance' = NoOne
    /\ Listen("check")
    /\ UNCHANGED <<stopFlag, frame, stopper, killed>>

\* With stop_ set, whoever is on the instance is taken for the poke.
TakeForPoke ==
    /\ listener = "accepted" /\ stopFlag
    /\ Listen("drain")
    /\ UNCHANGED <<stopFlag, instance, client, frame, worker, buffered,
                   stopper, killed>>

\* The drain ends when the peer has sent something or is gone.
Drained(p) == IF PeerGone(p) THEN TRUE ELSE frame[p] # "nothing"

Drain ==
    /\ listener = "drain" /\ Drained(instance)
    /\ Close(instance)
    /\ instance' = NoOne
    /\ Listen("ended")
    /\ UNCHANGED <<stopFlag, frame, worker, stopper, killed>>

ListenerStep ==
    \/ Check \/ CreatePipe \/ Accept \/ AcceptNoData \/ HandOver \/ TakeForPoke
    \/ Drain

-----------------------------------------------------------------------------
(* The worker of a connection.                                             *)

Worker(c, state) == worker' = [worker EXCEPT ![c] = state]

\* The frame is complete: dispatch it.
ReadFrame(c) ==
    /\ worker[c] = "reading" /\ frame[c] = "whole"
    /\ Worker(c, "dispatching")
    /\ UNCHANGED <<stopFlag, listener, instance, client, frame, buffered,
                   stopper, killed>>

\* A frame that is too long, or cut short by the client, ends the connection.
RejectFrame(c) ==
    /\ worker[c] = "reading"
    /\ frame[c] = "oversized" \/ (frame[c] # "whole" /\ client[c] # "connected")
    /\ Worker(c, "closed")
    /\ Close(c)
    /\ UNCHANGED <<stopFlag, listener, instance, frame, stopper, killed>>

\* dispatch answers every request, known or not, and catches what it throws.
Dispatch(c) ==
    /\ worker[c] = "dispatching"
    /\ Worker(c, "flushing")
    /\ buffered' = IF client[c] = "connected" THEN buffered \cup {c} ELSE buffered
    /\ UNCHANGED <<stopFlag, listener, instance, client, frame, stopper, killed>>

\* Mutant: the pipe is closed without waiting for the reply to be read.
NotWaiting(c) == TRUE

\* FlushFileBuffers returns when the client has read the reply or is gone.
Flushed(c) == c \notin buffered

CloseConnection(c) ==
    /\ worker[c] = "flushing" /\ Flushed(c)
    /\ Worker(c, "closed")
    /\ Close(c)
    /\ UNCHANGED <<stopFlag, listener, instance, frame, stopper, killed>>

WorkerStep(c) == ReadFrame(c) \/ RejectFrame(c) \/ Dispatch(c) \/ CloseConnection(c)

-----------------------------------------------------------------------------
(* stop().                                                                 *)

SetStop ==
    /\ stopper = "up" /\ stopper' = "poke"
    /\ stopFlag' = TRUE
    /\ UNCHANGED <<listener, instance, client, frame, worker, buffered, killed>>

\* CreateFile on the pipe, closed again at once: it reaches a free instance or
\* nothing at all.
PokeListener ==
    /\ stopper = "poke" /\ stopper' = "wait"
    /\ instance' = IF Held /\ instance = NoOne THEN Poke ELSE instance
    /\ UNCHANGED <<stopFlag, listener, client, frame, worker, buffered, killed>>

Joined ==
    /\ stopper = "wait" /\ listener = "ended"
    /\ stopper' = "ended"
    /\ UNCHANGED <<stopFlag, listener, instance, client, frame, worker,
                   buffered, killed>>

\* Mutant: the wait has no time limit.
NeverStuck == FALSE

\* The listener waits for somebody who may never do anything.
Stuck == \/ listener = "connect" /\ instance = NoOne
         \/ listener = "drain" /\ ~Drained(instance)

\* 3 s pass: TerminateThread, which closes no handle: the instance stays, and
\* a client on it - or one that comes yet - waits there.  A listener that can
\* move does so in that time.
Kill ==
    /\ stopper = "wait" /\ Stuck
    /\ stopper' = "ended" /\ killed' = TRUE
    /\ Listen("ended")
    /\ UNCHANGED <<stopFlag, instance, client, frame, worker, buffered>>

\* wWinMain returns: the process ends in the middle of whatever its workers do,
\* and every pipe is closed.
Exit ==
    /\ stopper = "ended" /\ stopper' = "exited"
    /\ worker' = [c \in Clients |-> IF worker[c] \in {"none", "closed"} THEN worker[c]
                                    ELSE "gone"]
    /\ client' = [c \in Clients |-> IF client[c] = "connected" THEN "cut" ELSE client[c]]
    /\ buffered' = {} /\ instance' = NoOne
    /\ UNCHANGED <<stopFlag, listener, frame, killed>>

StopStep == SetStop \/ PokeListener \/ Joined \/ Kill \/ Exit

PipeNext ==
    \/ ListenerStep \/ StopStep
    \/ \E c \in Clients :
        \/ WorkerStep(c)
        \/ Try(c) \/ ConnectTimeout(c) \/ Connect(c) \/ Receive(c) \/ Disconnect(c)
        \/ \E f \in Frames : Send(c, f)

PipeSpec == PipeInit /\ [][PipeNext]_pvars

\* While the process lives its threads run, and creating a pipe does not fail
\* for ever; when the process ends after stop() is open.  A
\* client that tries connects when it can and one that is sent a reply reads it;
\* nothing else is expected of clients.
FairPipeSpec ==
    /\ PipeSpec
    /\ WF_pvars(ListenerStep) /\ SF_pvars(CreatePipe /\ Listen("connect"))
    /\ WF_pvars(PokeListener) /\ WF_pvars(Joined \/ Kill)
    /\ \A c \in Clients :
        WF_pvars(WorkerStep(c)) /\ WF_pvars(Connect(c)) /\ WF_pvars(Receive(c))

-----------------------------------------------------------------------------
(* Properties.                                                             *)

\* A whole request that a worker has taken is answered or its client has left:
\* the server never closes a connection under a client that still waits for a
\* reply, however slowly it reads.  (The end of the process closes its pipe without it.)
NoReplyLost ==
    \A c \in Clients :
        worker[c] = "closed" /\ frame[c] = "whole" => client[c] \in {"answered", "left"}

\* The inductive strengthening of NoReplyLost: a client and its worker agree on
\* how far the exchange has come.  A reply is in the pipe only while a worker
\* flushes it, and a client that is still there then has it before it.
InStep(c) ==
    /\ client[c] \in {"away", "trying"} => worker[c] = "none" /\ instance # c
    /\ instance = c \/ worker[c] = "reading" => client[c] \in {"connected", "left"}
    /\ worker[c] = "dispatching" => frame[c] = "whole" /\ client[c] \in {"connected", "left"}
    /\ worker[c] = "flushing" =>
         /\ frame[c] = "whole"
         /\ client[c] \in {"answered", "left"} \/ (client[c] = "connected" /\ c \in buffered)
    /\ worker[c] = "closed" =>
         client[c] \in {"answered", "left"} \/ (client[c] = "cut" /\ frame[c] # "whole")
    /\ worker[c] = "gone" => client[c] \in {"answered", "left", "cut"}
    /\ c \in buffered => worker[c] = "flushing"
PipeInv == PipeTypeOK /\ \A c \in Clients : InStep(c)

\* Clients that stall on the pipe do not keep others out: whoever tries gets an
\* instance, unless it gives up or the server stops.
EveryoneGetsIn == \A c \in Clients : client[c] = "trying" ~> client[c] # "trying" \/ stopFlag

\* A whole request in a worker's hands is answered, also while stop() is under
\* way, unless the process ends first - which joins no worker.
EveryRequestAnswered ==
    \A c \in Clients :
        worker[c] = "reading" /\ frame[c] = "whole"
            ~> client[c] \in {"answered", "left"} \/ stopper = "exited"

\* stop() returns, whatever clients do.
StopReturns == stopFlag ~> stopper \in {"ended", "exited"}

\* stop() breaks the listener's wait by connecting once (pipe_server.cpp:39), so
\* it need not kill it.
PokeWakesListener == ~killed
=============================================================================
