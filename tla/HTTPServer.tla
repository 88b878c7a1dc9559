----------------------------- MODULE HTTPServer -----------------------------
(***************************************************************************)
(* The HTTP server under the RPC interface (httpserver.cpp): an event      *)
(* thread that receives requests and sends replies, a bounded WorkQueue,   *)
(* its worker threads, and the main thread that interrupts and stops the   *)
(* server.  libevent is external: its loop runs one callback at a time.    *)
(***************************************************************************)
EXTENDS Naturals, Sequences, Functions

CONSTANTS Requests, HTTPWorkers, MaxDepth, NoRequest

ASSUME HTTPAssumption == MaxDepth \in Nat \ {0} /\ NoRequest \notin Requests

VARIABLES
    received,     \* requests the event thread has seen
    callback,     \* the request http_request_cb is busy with
    rejecting,    \* the generic callback is http_reject_request_cb
    events,       \* reply events triggered and not yet run, in order
    sent,         \* requests whose reply was sent (a sequence: history)
    workQueue, running,
    worker,       \* where each worker is
    item,         \* the work item a worker holds
    replySent,    \* HTTPRequest::replySent
    mainThread,   \* where the main thread is
    loop          \* event loop: "on", "exit" or "break" asked for, "off"

httpVars == <<received, callback, rejecting, events, sent, workQueue, running, worker, item,
          replySent, mainThread, loop>>
queueVars == <<workQueue, running, worker, item>>
eventVars == <<received, callback, sent>>
stopVars == <<rejecting, mainThread, loop>>

InitHTTP ==
    /\ received = {} /\ callback = NoRequest /\ rejecting = FALSE
    /\ events = <<>> /\ sent = <<>> /\ workQueue = <<>> /\ running = TRUE
    /\ worker = [w \in HTTPWorkers |-> "check"] /\ item = [w \in HTTPWorkers |-> NoRequest]
    /\ replySent = {} /\ mainThread = "run" /\ loop = "on"

Asleep == {w \in HTTPWorkers : worker[w] = "waiting"}

(* HTTPRequest::WriteReply and the destructor, which replies if nobody did. *)
WriteReply(r) == replySent' = replySent \cup {r} /\ events' = Append(events, r)
DestroyRequest_NoReply(r) == UNCHANGED <<replySent, events>>
DestroyRequest_Always(r) == WriteReply(r)
DestroyRequest(r) ==
    \/ r \notin replySent /\ WriteReply(r)
    \/ r \in replySent /\ UNCHANGED <<replySent, events>>

----------------------------------------------------------------------------
(* The event thread *)

Receive(r) ==
    /\ loop \in {"on", "exit"} /\ callback = NoRequest /\ r \notin received
    /\ received' = received \cup {r}
    /\ \/ rejecting /\ sent' = Append(sent, r) /\ UNCHANGED callback
       \/ ~rejecting /\ callback' = r /\ UNCHANGED sent
    /\ UNCHANGED <<queueVars, events, replySent, stopVars>>

(* http_request_cb: not allowed, an unknown method, or no handler. *)
Refuse ==
    /\ callback # NoRequest /\ WriteReply(callback)
    /\ callback' = NoRequest
    /\ UNCHANGED <<received, sent, queueVars, stopVars>>

(* WorkQueue::Enqueue, or the answer that its depth is exceeded. *)
Enqueue_NoNotify ==
    /\ Len(workQueue) < MaxDepth
    /\ workQueue' = Append(workQueue, callback) /\ UNCHANGED <<worker, events, replySent>>
Enqueue ==
    /\ Len(workQueue) < MaxDepth
    /\ workQueue' = Append(workQueue, callback)
    /\ \/ Asleep = {} /\ UNCHANGED worker
       \/ \E w \in Asleep : worker' = [worker EXCEPT ![w] = "check"]
    /\ UNCHANGED <<events, replySent>>

Dispatch ==
    /\ callback # NoRequest
    /\ \/ Enqueue
       \/ Len(workQueue) >= MaxDepth /\ WriteReply(callback) /\ UNCHANGED <<workQueue, worker>>
    /\ callback' = NoRequest
    /\ UNCHANGED <<received, sent, running, item, stopVars>>

(* httpevent_callback_fn: evhttp_send_reply. *)
SendReply ==
    /\ loop \in {"on", "exit"} /\ callback = NoRequest /\ events # <<>>
    /\ sent' = Append(sent, Head(events)) /\ events' = Tail(events)
    /\ UNCHANGED <<received, callback, queueVars, replySent, stopVars>>

(* event_base_dispatch returns: with nothing active, or broken off. *)
ExitLoop ==
    /\ callback = NoRequest
    /\ (loop = "exit" /\ events = <<>>) \/ loop = "break"
    /\ loop' = "off"
    /\ UNCHANGED <<eventVars, events, replySent, queueVars, rejecting, mainThread>>

----------------------------------------------------------------------------
(* WorkQueue::Run *)

Check_IgnoresInterrupt(w) ==
    /\ worker[w] = "check"
    /\ \/ /\ workQueue = <<>> /\ UNCHANGED <<workQueue, item>>
          /\ worker' = [worker EXCEPT ![w] = "waiting"]
       \/ /\ workQueue # <<>> /\ workQueue' = Tail(workQueue)
          /\ worker' = [worker EXCEPT ![w] = "working"]
          /\ item' = [item EXCEPT ![w] = Head(workQueue)]
    /\ UNCHANGED <<eventVars, events, replySent, running, stopVars>>
Check(w) ==
    /\ worker[w] = "check"
    /\ \/ /\ ~running /\ UNCHANGED <<workQueue, item>>
          /\ worker' = [worker EXCEPT ![w] = "exited"]
       \/ /\ running /\ workQueue = <<>> /\ UNCHANGED <<workQueue, item>>
          /\ worker' = [worker EXCEPT ![w] = "waiting"]
       \/ /\ running /\ workQueue # <<>> /\ workQueue' = Tail(workQueue)
          /\ worker' = [worker EXCEPT ![w] = "working"]
          /\ item' = [item EXCEPT ![w] = Head(workQueue)]
    /\ UNCHANGED <<eventVars, events, replySent, running, stopVars>>

(* cond.wait may return without a notification. *)
WakeupForNothing(w) ==
    /\ worker[w] = "waiting" /\ worker' = [worker EXCEPT ![w] = "check"]
    /\ UNCHANGED <<eventVars, events, replySent, workQueue, running, item, stopVars>>

(* The handler writes its reply, or returns without one. *)
Handle(w) ==
    /\ worker[w] = "working" /\ item[w] \notin replySent
    /\ WriteReply(item[w])
    /\ UNCHANGED <<eventVars, queueVars, stopVars>>

DestroyItem(w) ==
    /\ worker[w] = "working"
    /\ DestroyRequest(item[w])
    /\ worker' = [worker EXCEPT ![w] = "check"] /\ item' = [item EXCEPT ![w] = NoRequest]
    /\ UNCHANGED <<eventVars, workQueue, running, stopVars>>

Worker(w) == Check(w) \/ Handle(w) \/ DestroyItem(w)

----------------------------------------------------------------------------
(* The main thread: InterruptHTTPServer and StopHTTPServer *)

SetReject ==
    /\ mainThread = "run" /\ mainThread' = "interrupt" /\ rejecting' = TRUE
    /\ UNCHANGED <<eventVars, events, replySent, queueVars, loop>>

InterruptWorkers ==
    /\ mainThread = "interrupt" /\ mainThread' = "join"
    /\ running' = FALSE
    /\ worker' = [w \in HTTPWorkers |-> IF w \in Asleep THEN "check" ELSE worker[w]]
    /\ UNCHANGED <<eventVars, events, replySent, workQueue, item, rejecting, loop>>

(* The workers are joined.  A callback that began before SetReject is taken *)
(* to be over by then.                                                      *)
JoinWorkers ==
    /\ mainThread = "join" /\ mainThread' = "delete"
    /\ \A w \in HTTPWorkers : worker[w] = "exited"
    /\ callback = NoRequest
    /\ UNCHANGED <<eventVars, events, replySent, queueVars, rejecting, loop>>

(* The queue is deleted with what is left in it. *)
DeleteQueued ==
    /\ mainThread = "delete" /\ workQueue # <<>>
    /\ workQueue' = Tail(workQueue) /\ DestroyRequest(Head(workQueue))
    /\ UNCHANGED <<eventVars, running, worker, item, stopVars>>

LoopExit ==
    /\ mainThread = "delete" /\ workQueue = <<>>
    /\ mainThread' = "wait" /\ loop' = "exit"
    /\ UNCHANGED <<eventVars, events, replySent, queueVars, rejecting>>

(* The two seconds are over before the loop is. *)
LoopBreak ==
    /\ mainThread = "wait" /\ loop = "exit" /\ loop' = "break"
    /\ UNCHANGED <<eventVars, events, replySent, queueVars, rejecting, mainThread>>

Joined ==
    /\ mainThread = "wait" /\ loop = "off" /\ mainThread' = "stopped"
    /\ UNCHANGED <<eventVars, events, replySent, queueVars, rejecting, loop>>

EventThread == Refuse \/ Dispatch \/ SendReply \/ ExitLoop
MainThread == InterruptWorkers \/ JoinWorkers \/ DeleteQueued \/ LoopExit \/ Joined

NextHTTP ==
    \/ \E r \in Requests : Receive(r)
    \/ EventThread \/ \E w \in HTTPWorkers : Worker(w) \/ WakeupForNothing(w)
    \/ SetReject \/ MainThread \/ LoopBreak

SpecHTTP == InitHTTP /\ [][NextHTTP]_httpVars

(* Every thread goes on when it can and handlers return; no request has to  *)
(* come and nobody has to stop the server.                                  *)
FairHTTP ==
    /\ SpecHTTP /\ WF_httpVars(EventThread) /\ WF_httpVars(MainThread)
    /\ \A w \in HTTPWorkers : WF_httpVars(Check(w)) /\ WF_httpVars(DestroyItem(w))

----------------------------------------------------------------------------
(* Properties *)

(* Shape of the state; WorkQueue::Enqueue keeps to maxDepth.                *)
HTTPTypeOK ==
    /\ received \subseteq Requests /\ callback \in Requests \cup {NoRequest}
    /\ {rejecting, running} \subseteq BOOLEAN
    /\ events \in Seq(Requests) /\ sent \in Seq(Requests) /\ workQueue \in Seq(Requests)
    /\ Len(workQueue) <= MaxDepth /\ replySent \subseteq received
    /\ worker \in [HTTPWorkers -> {"check", "waiting", "working", "exited"}]
    /\ item \in [HTTPWorkers -> Requests \cup {NoRequest}]
    /\ mainThread \in {"run", "interrupt", "join", "delete", "wait", "stopped"}
    /\ loop \in {"on", "exit", "break", "off"}

Replied == Range(sent) \cup Range(events)

(* A request is in one place at a time, and leaves the server through one   *)
(* reply: no request is answered by two of handler, destructor and refusal, *)
(* two workers never hold the same one, what waits in the queue or in the   *)
(* callback has not been answered, and none is lost on the way.             *)
OneOwner ==
    /\ HTTPTypeOK
    /\ IsInjective(sent) /\ IsInjective(events) /\ Range(sent) \cap Range(events) = {}
    /\ IsInjective(workQueue) /\ callback \notin Range(workQueue)
    /\ \A w \in HTTPWorkers : item[w] # NoRequest => item[w] \notin Range(workQueue) \cup {callback}
    /\ \A v, w \in HTTPWorkers : v # w /\ item[v] = item[w] => item[v] = NoRequest
    /\ Replied \cap (Range(workQueue) \cup {callback}) = {}
    /\ received = (Replied \cup Range(workQueue) \cup {callback} \cup {item[w] : w \in HTTPWorkers})
                     \ {NoRequest}

(* A server that stops of itself, without the two seconds running out, has  *)
(* answered every request it ever received, those left in the queue too.    *)
NobodyForgotten ==
    mainThread = "stopped" /\ events = <<>> => received = Range(sent)

(* While the event loop is not broken off, every request is answered.       *)
EveryRequestAnswered ==
    \A r \in Requests : r \in received ~> r \in Range(sent) \/ loop \in {"break", "off"}

(* Interrupting the server leads to its end.                                *)
InterruptStops == mainThread = "interrupt" ~> mainThread = "stopped"
=============================================================================
