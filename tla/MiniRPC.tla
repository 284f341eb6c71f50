------------------------------ MODULE MiniRPC ------------------------------
(***************************************************************************)
(* The stage7 mini-rpc: the server of internal/server (Start's accept     *)
(* loop, one handleConnection goroutine per connection, Stop) publishing   *)
(* itself in the MemoryRegistry, and clients of internal/client (Dial,     *)
(* Call through resilience.CallWithTimeout, the invoke goroutine that Go   *)
(* starts, Close), each over its own TCP connection.                       *)
(*                                                                         *)
(* A request is its RequestID; a response is the RequestID it echoes and   *)
(* whether it carries data or an error string.  Arguments, replies and    *)
(* the JSON and header encodings are never looked at by the code paths     *)
(* modelled here beyond that, and are left out.                            *)
(***************************************************************************)
EXTENDS Integers, Sequences, FiniteSets

CONSTANTS
    Clients,          \* client.Client objects, each with its own connection
    CallsPerClient    \* Client.Call invocations per client, each in its own goroutine

Calls == Clients \X (1 .. CallsPerClient)
ReqIds == 1 .. CallsPerClient       \* values of Client.reqID after AddUint64
Outcomes == {"ok", "err"}           \* RPCResponse with Data, or with Error set
Response == [id : ReqIds, out : Outcomes]
\* What invoke returns: the decoded response, or a transport error (id 0).
Result == [id : 0 .. CallsPerClient, out : Outcomes]
TransportError == [id |-> 0, out |-> "err"]

VARIABLES
    \* server.Server
    listener,   \* s.listener: "nil", "open" or "closed"
    startPc,    \* where the goroutine running Start is
    accepted,   \* the connection Accept just returned, not yet in s.conns
    instance,   \* s.instance has been set
    registered, \* the MemoryRegistry lists the server's instance
    conns,      \* s.conns
    stopPc,     \* where the goroutine running Stop is
    stopInst,   \* Stop's copy of s.instance
    hpc,        \* hpc[c]: the handleConnection goroutine of connection c
    hreq,       \* hreq[c]: the RequestID that goroutine is serving
    \* the TCP connection of each client
    link,       \* "none", "refused", "backlog" (not yet accepted) or "accepted"
    srvClosed,  \* the server side was closed (conn.Close, or a listener reset)
    cliClosed,  \* the client side was closed (Client.Close)
    toServer,   \* request frames in flight to the server
    toClient,   \* response frames in flight to the client
    \* client.Client
    closing,    \* c.closing
    cmu,        \* c.mu: 0, or the index of the call holding it
    reqID,      \* c.reqID
    \* one Client.Call each
    cpc,        \* where its invoke goroutine is
    cid,        \* the RequestID its invoke took
    got,        \* what its invoke will return
    callerSt,   \* the caller of Call: "idle", "waiting" or "returned"
    res,        \* what Call returned to the caller
    reply       \* RequestID of the response unmarshalled into its reply (0: none)

srvVars == <<listener, startPc, accepted, instance, registered, conns, stopPc,
             stopInst, hpc, hreq>>
netVars == <<link, srvClosed, cliClosed, toServer, toClient>>
cliVars == <<closing, cmu, reqID, cpc, cid, got, callerSt, res, reply>>
vars == <<srvVars, netVars, cliVars>>

TypeOK ==
    /\ listener \in {"nil", "open", "closed"}
    /\ startPc \in {"listen", "publish", "register", "accept", "track", "exited"}
    /\ accepted \in Clients
    /\ instance \in BOOLEAN /\ registered \in BOOLEAN
    /\ conns \subseteq Clients
    /\ stopPc \in {"idle", "deregister", "closeConns", "closeListener", "done"}
    /\ stopInst \in BOOLEAN
    /\ hpc \in [Clients -> {"none", "read", "handle", "exit"}]
    /\ hreq \in [Clients -> 0 .. CallsPerClient]
    /\ link \in [Clients -> {"none", "refused", "backlog", "accepted"}]
    /\ srvClosed \in [Clients -> BOOLEAN] /\ cliClosed \in [Clients -> BOOLEAN]
    /\ toServer \in [Clients -> Seq(ReqIds)]
    /\ toClient \in [Clients -> Seq(Response)]
    /\ closing \in [Clients -> BOOLEAN]
    /\ cmu \in [Clients -> 0 .. CallsPerClient]
    /\ reqID \in [Clients -> 0 .. CallsPerClient]
    /\ cpc \in [Calls -> {"idle", "lock", "read", "finish", "done"}]
    /\ cid \in [Calls -> 0 .. CallsPerClient]
    /\ got \in [Calls -> Result]
    /\ callerSt \in [Calls -> {"idle", "waiting", "returned"}]
    /\ res \in [Calls -> {"none", "timeout"} \cup Outcomes]
    /\ reply \in [Calls -> 0 .. CallsPerClient]

-----------------------------------------------------------------------------
(* Server.Start: net.Listen, s.instance under s.mu, registry.Register     *)
(* outside it, then the accept loop; each accepted connection goes into    *)
(* s.conns under s.mu and gets its own handleConnection goroutine.         *)

Listen ==
    /\ startPc = "listen"
    /\ listener' = "open"
    /\ startPc' = "publish"
    /\ UNCHANGED <<accepted, instance, registered, conns, stopPc, stopInst,
                   hpc, hreq, netVars, cliVars>>

\* net.Listen fails (address in use): Start returns the error.
ListenFails ==
    /\ startPc = "listen"
    /\ startPc' = "exited"
    /\ UNCHANGED <<listener, accepted, instance, registered, conns, stopPc,
                   stopInst, hpc, hreq, netVars, cliVars>>

Publish ==
    /\ startPc = "publish"
    /\ instance' = TRUE
    /\ startPc' = "register"
    /\ UNCHANGED <<listener, accepted, registered, conns, stopPc, stopInst,
                   hpc, hreq, netVars, cliVars>>

\* MemoryRegistry.Register: appends the instance unless its ID is listed.
RegisterInstance ==
    /\ startPc = "register"
    /\ registered' = TRUE
    /\ startPc' = "accept"
    /\ UNCHANGED <<listener, accepted, instance, conns, stopPc, stopInst,
                   hpc, hreq, netVars, cliVars>>

Accept(c) ==
    /\ startPc = "accept" /\ listener = "open"
    /\ link[c] = "backlog"
    /\ link' = [link EXCEPT ![c] = "accepted"]
    /\ accepted' = c
    /\ startPc' = "track"
    /\ UNCHANGED <<listener, instance, registered, conns, stopPc, stopInst,
                   hpc, hreq, srvClosed, cliClosed, toServer, toClient, cliVars>>

\* Accept on a closed listener returns net.ErrClosed: Start returns nil.
AcceptClosed ==
    /\ startPc = "accept" /\ listener = "closed"
    /\ startPc' = "exited"
    /\ UNCHANGED <<listener, accepted, instance, registered, conns, stopPc,
                   stopInst, hpc, hreq, netVars, cliVars>>

Track ==
    /\ startPc = "track"
    /\ conns' = conns \cup {accepted}
    /\ hpc' = [hpc EXCEPT ![accepted] = "read"]
    /\ startPc' = "accept"
    /\ UNCHANGED <<listener, accepted, instance, registered, stopPc, stopInst,
                   hreq, netVars, cliVars>>

-----------------------------------------------------------------------------
(* Server.Stop: copy s.instance under s.mu, Deregister it, close and      *)
(* forget every connection in s.conns under s.mu, then close s.listener    *)
(* if Start has set it.  Closing a listener resets the connections still   *)
(* waiting in its accept queue.                                            *)

StopBegin ==
    /\ stopPc = "idle"
    /\ stopInst' = instance
    /\ stopPc' = "deregister"
    /\ UNCHANGED <<listener, startPc, accepted, instance, registered, conns,
                   hpc, hreq, netVars, cliVars>>

\* MemoryRegistry.Deregister: keeps every instance with another ID.
StopDeregister ==
    /\ stopPc = "deregister"
    /\ registered' = (registered /\ ~stopInst)
    /\ stopPc' = "closeConns"
    /\ UNCHANGED <<listener, startPc, accepted, instance, conns, stopInst,
                   hpc, hreq, netVars, cliVars>>

StopCloseConns ==
    /\ stopPc = "closeConns"
    /\ srvClosed' = [c \in Clients |-> srvClosed[c] \/ c \in conns]
    /\ conns' = {}
    /\ stopPc' = "closeListener"
    /\ UNCHANGED <<listener, startPc, accepted, instance, registered, stopInst,
                   hpc, hreq, link, cliClosed, toServer, toClient, cliVars>>

StopCloseListener ==
    /\ stopPc = "closeListener"
    /\ IF listener = "open"
       THEN /\ listener' = "closed"
            /\ srvClosed' = [c \in Clients |-> srvClosed[c] \/ link[c] = "backlog"]
       ELSE UNCHANGED <<listener, srvClosed>>
    /\ stopPc' = "done"
    /\ UNCHANGED <<startPc, accepted, instance, registered, conns, stopInst,
                   hpc, hreq, link, cliClosed, toServer, toClient, cliVars>>

-----------------------------------------------------------------------------
(* handleConnection(c): read a header and payload, run the middleware     *)
(* chain around s.invoke, write the response, and loop; a failed read      *)
(* ends it, and its deferred function removes c from s.conns and closes    *)
(* it.  A read on the server's own closed side fails at once; after the    *)
(* client closed its side the buffered frames are still read first.        *)

HRead(c) ==
    /\ hpc[c] = "read" /\ ~srvClosed[c]
    /\ toServer[c] # <<>>
    /\ hreq' = [hreq EXCEPT ![c] = Head(toServer[c])]
    /\ toServer' = [toServer EXCEPT ![c] = Tail(@)]
    /\ hpc' = [hpc EXCEPT ![c] = "handle"]
    /\ UNCHANGED <<listener, startPc, accepted, instance, registered, conns,
                   stopPc, stopInst, link, srvClosed, cliClosed, toClient,
                   cliVars>>

HExit(c) ==
    /\ hpc[c] = "read"
    /\ srvClosed[c] \/ (cliClosed[c] /\ toServer[c] = <<>>)
    /\ conns' = conns \ {c}
    /\ srvClosed' = [srvClosed EXCEPT ![c] = TRUE]
    /\ hpc' = [hpc EXCEPT ![c] = "exit"]
    /\ UNCHANGED <<listener, startPc, accepted, instance, registered, stopPc,
                   stopInst, hreq, link, cliClosed, toServer, toClient, cliVars>>

\* Mutant: an error result of the chain is returned without writeResp.
ServeDropsError(c) ==
    /\ hpc[c] = "handle"
    /\ \E o \in Outcomes :
         toClient' = [toClient EXCEPT ![c] =
                        IF srvClosed[c] \/ cliClosed[c] \/ o = "err" THEN @
                        ELSE Append(@, [id |-> hreq[c], out |-> o])]
    /\ hpc' = [hpc EXCEPT ![c] = "read"]
    /\ UNCHANGED <<listener, startPc, accepted, instance, registered, conns,
                   stopPc, stopInst, hreq, link, srvClosed, cliClosed,
                   toServer, cliVars>>

\* Mutant: the loop also answers, with the last RequestID it holds, when
\* no request has been read yet.
ServeOnReadError(c) ==
    /\ hpc[c] \in {"read", "handle"}
    /\ \E o \in Outcomes :
         toClient' = [toClient EXCEPT ![c] =
                        IF srvClosed[c] \/ cliClosed[c] THEN @
                        ELSE Append(@, [id |-> hreq[c], out |-> o])]
    /\ hpc' = [hpc EXCEPT ![c] = "read"]
    /\ UNCHANGED <<listener, startPc, accepted, instance, registered, conns,
                   stopPc, stopInst, hreq, link, srvClosed, cliClosed,
                   toServer, cliVars>>

\* The chain (logging, recovery, rate limit) around s.invoke ends in data or
\* an error (rate limited, method not found, a failing method, a recovered
\* panic); writeResp sends it with the request's ID, and a write on a closed
\* connection is lost, its error ignored.
Serve(c) ==
    /\ hpc[c] = "handle"
    /\ \E o \in Outcomes :
         toClient' = [toClient EXCEPT ![c] =
                        IF srvClosed[c] \/ cliClosed[c] THEN @
                        ELSE Append(@, [id |-> hreq[c], out |-> o])]
    /\ hpc' = [hpc EXCEPT ![c] = "read"]
    /\ UNCHANGED <<listener, startPc, accepted, instance, registered, conns,
                   stopPc, stopInst, hreq, link, srvClosed, cliClosed,
                   toServer, cliVars>>

-----------------------------------------------------------------------------
(* The client: Dial, Close, and each Call.  Call runs its closure in a    *)
(* goroutine of CallWithTimeout; the closure starts invoke through Go and  *)
(* waits on call.Done, and CallWithTimeout returns whichever comes first,  *)
(* that result or the 2-second timer.  invoke takes a RequestID, then      *)
(* under c.mu writes the request and reads one response, and decodes it    *)
(* outside the lock.                                                       *)

Dial(c) ==
    /\ link[c] = "none"
    /\ link' = [link EXCEPT ![c] = IF listener = "open" THEN "backlog" ELSE "refused"]
    /\ UNCHANGED <<srvVars, srvClosed, cliClosed, toServer, toClient, cliVars>>

Connected(c) == link[c] \in {"backlog", "accepted"}

\* Client.Close: under c.mu, set closing and close the connection once.
Close(c) ==
    /\ Connected(c) /\ ~closing[c] /\ cmu[c] = 0
    /\ closing' = [closing EXCEPT ![c] = TRUE]
    /\ cliClosed' = [cliClosed EXCEPT ![c] = TRUE]
    /\ UNCHANGED <<srvVars, link, srvClosed, toServer, toClient, cmu, reqID,
                   cpc, cid, got, callerSt, res, reply>>

\* Call and Go up to invoke's atomic.AddUint64(&c.reqID, 1).
Call(k) ==
    LET c == k[1] IN
    /\ Connected(c) /\ callerSt[k] = "idle"
    /\ reqID' = [reqID EXCEPT ![c] = @ + 1]
    /\ cid' = [cid EXCEPT ![k] = reqID[c] + 1]
    /\ callerSt' = [callerSt EXCEPT ![k] = "waiting"]
    /\ cpc' = [cpc EXCEPT ![k] = "lock"]
    /\ UNCHANGED <<srvVars, netVars, closing, cmu, got, res, reply>>

\* Mutant: c.mu released as soon as the request is written.
SendUnlocked(k) ==
    LET c == k[1] IN
    /\ cpc[k] = "lock" /\ cmu[c] = 0
    /\ \/ /\ closing[c] \/ srvClosed[c]
          /\ got' = [got EXCEPT ![k] = TransportError]
          /\ cpc' = [cpc EXCEPT ![k] = "finish"]
          /\ UNCHANGED toServer
       \/ /\ ~closing[c]
          /\ toServer' = [toServer EXCEPT ![c] =
                            IF srvClosed[c] THEN @ ELSE Append(@, cid[k])]
          /\ cpc' = [cpc EXCEPT ![k] = "read"]
          /\ UNCHANGED got
    /\ UNCHANGED <<srvVars, link, srvClosed, cliClosed, toClient, closing, cmu,
                   reqID, cid, callerSt, res, reply>>

\* c.mu.Lock(), then the closing check and the two conn.Write calls.  On a
\* connection the server has closed a write either fails or is accepted by
\* the kernel and lost.
Send(k) ==
    LET c == k[1] IN
    /\ cpc[k] = "lock" /\ cmu[c] = 0
    /\ \/ /\ closing[c]
          /\ got' = [got EXCEPT ![k] = TransportError]
          /\ cpc' = [cpc EXCEPT ![k] = "finish"]
          /\ UNCHANGED <<cmu, toServer>>
       \/ /\ ~closing[c] /\ srvClosed[c]
          /\ got' = [got EXCEPT ![k] = TransportError]
          /\ cpc' = [cpc EXCEPT ![k] = "finish"]
          /\ UNCHANGED <<cmu, toServer>>
       \/ /\ ~closing[c]
          /\ toServer' = [toServer EXCEPT ![c] =
                            IF srvClosed[c] THEN @ ELSE Append(@, cid[k])]
          /\ cmu' = [cmu EXCEPT ![c] = k[2]]
          /\ cpc' = [cpc EXCEPT ![k] = "read"]
          /\ UNCHANGED got
    /\ UNCHANGED <<srvVars, link, srvClosed, cliClosed, toClient, closing,
                   reqID, cid, callerSt, res, reply>>

\* The two io.ReadFull calls, then c.mu.Unlock().  The RequestID of the
\* response is never compared with the request's.
Receive(k) ==
    LET c == k[1] IN
    /\ cpc[k] = "read" /\ toClient[c] # <<>>
    /\ got' = [got EXCEPT ![k] = Head(toClient[c])]
    /\ toClient' = [toClient EXCEPT ![c] = Tail(@)]
    /\ cmu' = [cmu EXCEPT ![c] = 0]
    /\ cpc' = [cpc EXCEPT ![k] = "finish"]
    /\ UNCHANGED <<srvVars, link, srvClosed, cliClosed, toServer, closing,
                   reqID, cid, callerSt, res, reply>>

ReceiveFails(k) ==
    LET c == k[1] IN
    /\ cpc[k] = "read" /\ toClient[c] = <<>> /\ srvClosed[c]
    /\ got' = [got EXCEPT ![k] = TransportError]
    /\ cmu' = [cmu EXCEPT ![c] = 0]
    /\ cpc' = [cpc EXCEPT ![k] = "finish"]
    /\ UNCHANGED <<srvVars, netVars, closing, reqID, cid, callerSt, res, reply>>

\* Decode; json.Unmarshal(resp.Data, reply) when resp.Error is empty; then
\* done <- call, which hands the result to a caller still waiting for it.
Finish(k) ==
    /\ cpc[k] = "finish"
    /\ reply' = [reply EXCEPT ![k] = IF got[k].out = "ok" THEN got[k].id ELSE @]
    /\ res' = [res EXCEPT ![k] = IF callerSt[k] = "waiting" THEN got[k].out ELSE @]
    /\ callerSt' = [callerSt EXCEPT ![k] = "returned"]
    /\ cpc' = [cpc EXCEPT ![k] = "done"]
    /\ UNCHANGED <<srvVars, netVars, closing, cmu, reqID, cid, got>>

\* CallWithTimeout's timer fires first: Call returns ErrTimeout.
Timeout(k) ==
    /\ callerSt[k] = "waiting"
    /\ callerSt' = [callerSt EXCEPT ![k] = "returned"]
    /\ res' = [res EXCEPT ![k] = "timeout"]
    /\ UNCHANGED <<srvVars, netVars, closing, cmu, reqID, cpc, cid, got, reply>>

-----------------------------------------------------------------------------
Init ==
    /\ listener = "nil" /\ startPc = "listen"
    /\ accepted = CHOOSE c \in Clients : TRUE
    /\ instance = FALSE /\ registered = FALSE
    /\ conns = {}
    /\ stopPc = "idle" /\ stopInst = FALSE
    /\ hpc = [c \in Clients |-> "none"]
    /\ hreq = [c \in Clients |-> 0]
    /\ link = [c \in Clients |-> "none"]
    /\ srvClosed = [c \in Clients |-> FALSE]
    /\ cliClosed = [c \in Clients |-> FALSE]
    /\ toServer = [c \in Clients |-> <<>>]
    /\ toClient = [c \in Clients |-> <<>>]
    /\ closing = [c \in Clients |-> FALSE]
    /\ cmu = [c \in Clients |-> 0]
    /\ reqID = [c \in Clients |-> 0]
    /\ cpc = [k \in Calls |-> "idle"]
    /\ cid = [k \in Calls |-> 0]
    /\ got = [k \in Calls |-> TransportError]
    /\ callerSt = [k \in Calls |-> "idle"]
    /\ res = [k \in Calls |-> "none"]
    /\ reply = [k \in Calls |-> 0]

StartStep ==
    \/ Listen \/ ListenFails \/ Publish \/ RegisterInstance
    \/ \E c \in Clients : Accept(c)
    \/ AcceptClosed \/ Track

StopStep == StopBegin \/ StopDeregister \/ StopCloseConns \/ StopCloseListener

ConnStep(c) == HRead(c) \/ HExit(c) \/ Serve(c)

CallStep(k) ==
    Call(k) \/ Send(k) \/ Receive(k) \/ ReceiveFails(k) \/ Finish(k) \/ Timeout(k)

Next ==
    \/ StartStep \/ StopStep
    \/ \E c \in Clients : ConnStep(c) \/ Dial(c) \/ Close(c)
    \/ \E k \in Calls : CallStep(k)

(***************************************************************************)
(* Fairness: a goroutine that can run does, so every step of Start after   *)
(* Listen, of a Stop once called, of a connection's handler and of an      *)
(* invoke is weakly fair; c.mu, released and retaken by the other calls,   *)
(* is strongly fair.  Whether Start fails, whether Stop, Dial, Close or a  *)
(* Call is issued at all, and whether a timer fires first, are up to the   *)
(* environment.                                                            *)
(***************************************************************************)
Fairness ==
    /\ WF_vars(Publish) /\ WF_vars(RegisterInstance) /\ WF_vars(Track)
    /\ WF_vars(\E c \in Clients : Accept(c)) /\ WF_vars(AcceptClosed)
    /\ WF_vars(StopDeregister) /\ WF_vars(StopCloseConns) /\ WF_vars(StopCloseListener)
    /\ \A c \in Clients : WF_vars(ConnStep(c))
    /\ \A k \in Calls :
         /\ SF_vars(Send(k))
         /\ WF_vars(Receive(k) \/ ReceiveFails(k) \/ Finish(k))

Spec == Init /\ [][Next]_vars /\ Fairness

-----------------------------------------------------------------------------
(***************************************************************************)
(* Properties.                                                             *)
(***************************************************************************)

(* invoke holds c.mu from its request's first Write to its response's last *)
(* ReadFull, and handleConnection answers a connection's requests one at   *)
(* a time in order, so although invoke never compares the response's       *)
(* RequestID with its own, concurrent Calls on one Client never get each   *)
(* other's reply: whatever is unmarshalled into a call's reply is the      *)
(* answer to that call's request.                                          *)
ReplyMatchesRequest ==
    \A k \in Calls : reply[k] # 0 => reply[k] = cid[k]

(* Every invoke goroutine, once started, returns and releases c.mu: the   *)
(* server answers, or its side of the connection is closed (by Stop, by    *)
(* the handler's exit or by the listener's reset), so no call, and no      *)
(* later Call or Close waiting on c.mu, hangs.                             *)
InvokeReturns ==
    \A k \in Calls : cpc[k] \in {"lock", "read", "finish"} ~> cpc[k] = "done"

(* Server.Stop, as TestServerStopChaos relies on: once Stop has returned,  *)
(* the server is no longer listed in the registry and every connection it *)
(* accepted is closed, so later calls fail.                                *)
StoppedServerUnreachable ==
    stopPc = "done" =>
        /\ ~registered
        /\ \A c \in Clients : link[c] = "accepted" => srvClosed[c]

(* CallWithTimeout: a Call that returned ErrTimeout has not had a reply    *)
(* unmarshalled into its reply argument.                                   *)
TimedOutReplyUntouched ==
    \A k \in Calls : res[k] = "timeout" => reply[k] = 0

=============================================================================
