------------------------------ MODULE Gateway ------------------------------
(***************************************************************************)
(* The life of a request in a gateway of LazyEdge: the public edge, a      *)
(* private or compatibility listener (src/edge-server.js) or the worker    *)
(* (src/worker-server.js), and proxyHttpRequest (src/proxy.js), which they *)
(* share.  An action is one callback of the event loop: a request that     *)
(* arrives, the answer of the token store, an event of the client's        *)
(* connection, of the upstream request or of the upstream response.        *)
(*                                                                         *)
(* Clients may leave at any time and upstream services do as they please.  *)
(*                                                                         *)
(* Simplifications.  A connection carries one request.  Headers, paths,    *)
(* methods and tokens are reduced to the decision taken on them; a body is *)
(* a number of chunks, of which the limit allows MaxBody.  Back-pressure   *)
(* (pause and resume) is left out: a chunk may come at any time or never.  *)
(***************************************************************************)
EXTENDS Naturals, FiniteSets

CONSTANTS Request,    \* the requests that may arrive
          Verified,   \* those whose bearer token the token store has to verify
          Service,
          ServiceOf,  \* the service that a request is for
          MaxSlots,   \* maxConcurrentRequests
          MaxBody     \* maxBodyBytes

ASSUME GatewayConstants ==
    /\ Verified \subseteq Request
    /\ ServiceOf \in [Request -> Service]
    /\ MaxSlots \in Nat \ {0}
    /\ MaxBody \in Nat \ {0}

VARIABLES
    ex,      \* ex[r]: the exchange of request r
    slots,   \* slots[s]: the counter of admitted requests of service s
    server   \* is the server listening, closing or closed

vars == <<ex, slots, server>>

Exchange == [
    stage    : {"idle", "verifying", "proxying", "over"},
    client   : {"here", "gone"},
    body     : {"arriving", "received", "read", "cut"},  \* request.complete; 'end' emitted
    size     : 0 .. MaxBody + 1,                         \* bodyBytes
    rejected : BOOLEAN,                                  \* bodyRejected
    reply    : {"none", "error", "head", "whole"},       \* what response has been given
    flushed  : BOOLEAN,                                  \* response emitted 'finish'
    up       : {"none", "open", "sent", "cut"},          \* upstreamRequest
    incoming : {"none", "flowing", "end", "cut"}]        \* upstreamResponse

NoExchange == [stage |-> "idle", client |-> "here", body |-> "arriving", size |-> 0,
               rejected |-> FALSE, reply |-> "none", flushed |-> FALSE,
               up |-> "none", incoming |-> "none"]

Proxying(s) == {r \in Request : ServiceOf[r] = s /\ ex[r].stage = "proxying"}

\* An upstream service is still at work for r.
Busy(r) == ex[r].up \in {"open", "sent"} /\ ex[r].incoming # "end"

(***************************************************************************)
(* What callbacks do to an exchange                                        *)
(***************************************************************************)
\* upstreamRequest.destroy and upstreamResponse.destroy.
CutUp(e) ==
    [e EXCEPT !.up = IF @ = "none" THEN @ ELSE "cut",
              !.incoming = IF @ \in {"none", "end"} THEN @ ELSE "cut"]

\* Mutant: 'close' settles the promise and leaves the upstream request alone.
VanishUncut(e) ==
    [e EXCEPT !.client = "gone", !.body = IF @ \in {"arriving", "received"} THEN "cut" ELSE @,
              !.stage = IF @ = "proxying" THEN "over" ELSE @]

\* Mutant: nobody listens to the close of the connection.
VanishUnheard(e) ==
    [e EXCEPT !.client = "gone", !.body = IF @ \in {"arriving", "received"} THEN "cut" ELSE @]

\* The connection is closed, by either side: 'aborted' of the request, unless
\* it was read to its end, and 'close' of the response.  Only proxyHttpRequest
\* listens.
Vanish(e) ==
    LET gone == [e EXCEPT !.client = "gone",
                          !.body = IF @ \in {"arriving", "received"} THEN "cut" ELSE @]
    IN IF e.stage = "proxying" THEN [CutUp(gone) EXCEPT !.stage = "over"] ELSE gone

\* sendJsonError
SendError(e) ==
    IF e.client = "gone" \/ e.flushed THEN e
    ELSE IF e.reply = "none" THEN [e EXCEPT !.reply = "error"]
    ELSE Vanish(e)

Refuse(e) == [SendError(e) EXCEPT !.stage = "over"]

\* Mutant: the slot is given back after a success only.
SettleSucceeded(r, e) ==
    /\ ex' = [ex EXCEPT ![r] = e]
    /\ slots' = IF ex[r].stage = "proxying" /\ e.stage = "over" /\ e.flushed
                THEN [slots EXCEPT ![ServiceOf[r]] = IF @ = 0 THEN 0 ELSE @ - 1]
                ELSE slots

\* When the promise of proxyHttpRequest settles, the finally block of the
\* handler follows at once.
Settle(r, e) ==
    /\ ex' = [ex EXCEPT ![r] = e]
    /\ slots' = IF ex[r].stage = "proxying" /\ e.stage = "over"
                THEN [slots EXCEPT ![ServiceOf[r]] = IF @ = 0 THEN 0 ELSE @ - 1]
                ELSE slots

(***************************************************************************)
(* The handler                                                             *)
(***************************************************************************)
\* A free slot, and the start of proxyHttpRequest; which may refuse at once, by
\* the declared length or by an exception, and gives the slot back.
Admit(r, e) ==
    \/ ex' = [ex EXCEPT ![r] = Refuse(e)] /\ UNCHANGED slots
    \/ /\ slots[ServiceOf[r]] < MaxSlots
       /\ ex' = [ex EXCEPT ![r] = [e EXCEPT !.stage = "proxying", !.up = "open"]]
       /\ slots' = [slots EXCEPT ![ServiceOf[r]] = @ + 1]

\* Policy, route, relay capability and the presence of a bearer token are
\* decided at once; the token is given to the store.
Arrive(r) ==
    /\ server = "listening"
    /\ ex[r].stage = "idle"
    /\ \/ ex' = [ex EXCEPT ![r] = Refuse(@)] /\ UNCHANGED slots
       \/ r \in Verified /\ ex' = [ex EXCEPT ![r].stage = "verifying"] /\ UNCHANGED slots
       \/ r \notin Verified /\ Admit(r, ex[r])
    /\ UNCHANGED server

\* verify resolves to a record, to null or to an error.
Answer(r) ==
    /\ ex[r].stage = "verifying"
    /\ \/ ex' = [ex EXCEPT ![r] = Refuse(@)] /\ UNCHANGED slots
       \/ Admit(r, ex[r])
    /\ UNCHANGED server

(***************************************************************************)
(* Events of the client                                                    *)
(***************************************************************************)
\* The rest of the body is there; it has not been read yet.
Receive(r) ==
    /\ ex[r].stage # "idle" /\ ex[r].client = "here" /\ ex[r].body = "arriving"
    /\ ex' = [ex EXCEPT ![r].body = "received"]
    /\ UNCHANGED <<slots, server>>

\* Mutant: the limit stops nothing but the client.
ChunkForwarded(r) ==
    /\ ex[r].stage = "proxying" /\ ex[r].client = "here"
    /\ ex[r].body \in {"arriving", "received"} /\ ~ex[r].rejected
    /\ LET more == [ex[r] EXCEPT !.size = @ + 1]
       IN Settle(r, IF more.size <= MaxBody THEN more
                    ELSE SendError([more EXCEPT !.rejected = TRUE]))
    /\ UNCHANGED server

\* 'data' of the request: forwarded, up to the limit.
Chunk(r) ==
    /\ ex[r].stage = "proxying" /\ ex[r].client = "here"
    /\ ex[r].body \in {"arriving", "received"} /\ ~ex[r].rejected
    /\ LET more == [ex[r] EXCEPT !.size = @ + 1]
       IN Settle(r, IF more.size <= MaxBody THEN more
                    ELSE SendError(CutUp([more EXCEPT !.rejected = TRUE])))
    /\ UNCHANGED server

\* 'end' of the request.
BodyEnd(r) ==
    /\ ex[r].stage = "proxying" /\ ex[r].client = "here" /\ ex[r].body = "received"
    /\ ex' = [ex EXCEPT ![r].body = "read",
                        ![r].up = IF ~ex[r].rejected /\ @ = "open" THEN "sent" ELSE @]
    /\ UNCHANGED <<slots, server>>

\* Mutant: close ends idle connections only.
LeaveIdle(r) ==
    /\ ex[r].stage # "idle" /\ ex[r].client = "here"
    /\ server = "closing" => ex[r].stage = "over"
    /\ Settle(r, Vanish(ex[r]))
    /\ UNCHANGED server

\* The connection breaks: the client leaves, or close destroys it.
Leave(r) ==
    /\ ex[r].stage # "idle" /\ ex[r].client = "here"
    /\ Settle(r, Vanish(ex[r]))
    /\ UNCHANGED server

\* 'finish' of the response: a client that has not sent all of its body is cut
\* off, which aborts its request.
Flush(r) ==
    /\ ex[r].client = "here" /\ ex[r].reply \in {"error", "whole"} /\ ~ex[r].flushed
    /\ LET done == [ex[r] EXCEPT !.flushed = TRUE]
       IN Settle(r, IF done.stage = "over" THEN done
                    ELSE IF done.body = "arriving" THEN Vanish(done)
                    ELSE [done EXCEPT !.stage = "over"])
    /\ UNCHANGED server

(***************************************************************************)
(* Events of the upstream request and its response                         *)
(***************************************************************************)
\* 'response'
UpHead(r) ==
    /\ ex[r].up \in {"open", "sent"} /\ ex[r].incoming = "none"
    /\ ex' = [ex EXCEPT ![r] = IF @.rejected \/ @.client = "gone"
                               THEN [@ EXCEPT !.up = "cut", !.incoming = "cut"]
                               ELSE [@ EXCEPT !.reply = "head", !.incoming = "flowing"]]
    /\ UNCHANGED <<slots, server>>

\* 'end' of the response
UpEnd(r) ==
    /\ ex[r].incoming = "flowing"
    /\ ex' = [ex EXCEPT ![r].incoming = "end",
                        ![r].reply = IF ex[r].client = "here" THEN "whole" ELSE @]
    /\ UNCHANGED <<slots, server>>

\* 'aborted' or 'error' of the response, an idle timeout among their causes
UpBreak(r) ==
    /\ ex[r].incoming = "flowing"
    /\ Settle(r, IF ex[r].client = "here" THEN Vanish(CutUp(ex[r])) ELSE CutUp(ex[r]))
    /\ UNCHANGED server

\* Mutant: an upstream request that fails is not answered.
UpFailSilent(r) ==
    /\ ex[r].up # "none" /\ ex[r].incoming = "none"
    /\ Settle(r, CutUp(ex[r]))
    /\ UNCHANGED server

\* 'error' of the request: no connection, a reset, timeoutMs without a sign, or
\* that it was destroyed
UpFail(r) ==
    /\ ex[r].up # "none" /\ ex[r].incoming = "none"
    /\ Settle(r, IF ex[r].rejected THEN CutUp(ex[r]) ELSE SendError(CutUp(ex[r])))
    /\ UNCHANGED server

(***************************************************************************)
(* close of the runtime handle                                             *)
(***************************************************************************)
Close ==
    /\ server = "listening"
    /\ server' = "closing"
    /\ UNCHANGED <<ex, slots>>

\* Mutant: close does not wait for the connections.
ClosedEarly ==
    /\ server = "closing"
    /\ server' = "closed"
    /\ UNCHANGED <<ex, slots>>

\* It resolves when the last connection is closed.
Closed ==
    /\ server = "closing"
    /\ \A r \in Request : ex[r].stage # "idle" => ex[r].client = "gone"
    /\ server' = "closed"
    /\ UNCHANGED <<ex, slots>>

-----------------------------------------------------------------------------
Init ==
    /\ ex = [r \in Request |-> NoExchange]
    /\ slots = [s \in Service |-> 0]
    /\ server = "listening"

Upstream(r) == UpHead(r) \/ UpFail(r)

Next ==
    \/ \E r \in Request :
          \/ Arrive(r) \/ Answer(r)
          \/ Receive(r) \/ Chunk(r) \/ BodyEnd(r) \/ Leave(r) \/ Flush(r)
          \/ Upstream(r) \/ UpEnd(r) \/ UpBreak(r)
    \/ Close \/ Closed

Spec == Init /\ [][Next]_vars

\* The store answers, what is written reaches the client or the connection
\* fails, an upstream service responds or times out, and close destroys the
\* connections.  Nothing makes a client send its body or an upstream service
\* come to an end.
Fairness ==
    /\ \A r \in Request :
          /\ WF_vars(Answer(r))
          /\ WF_vars(Flush(r))
          /\ WF_vars(Upstream(r))
          /\ WF_vars(server = "closing" /\ Leave(r))
    /\ WF_vars(Closed)

FairSpec == Spec /\ Fairness

-----------------------------------------------------------------------------
(***************************************************************************)
(* Properties                                                              *)
(***************************************************************************)
\* Every variable has its type.
GatewayTypeOK ==
    /\ ex \in [Request -> Exchange]
    /\ slots \in [Service -> 0 .. MaxSlots]
    /\ server \in {"listening", "closing", "closed"}

\* docs/configuration.md: maxConcurrentRequests are "admitted requests".  No more
\* than so many upstream requests of a service are at work, whatever clients and
\* upstream services do in between.
LoadBounded ==
    \A s \in Service : Cardinality({r \in Request : ServiceOf[r] = s /\ Busy(r)}) <= MaxSlots

\* A handler that has ended leaves no upstream request at work.
NothingOutlives == \A r \in Request : ex[r].stage = "over" => ~Busy(r)

\* A body over the limit is not completed upstream, and no answer to it passes
\* for a whole one.
OversizeNeverPasses ==
    \A r \in Request : ex[r].rejected =>
        ex[r].up = "cut" /\ ~(ex[r].reply = "whole" /\ ex[r].flushed)

\* The counter is the number of exchanges that are being proxied: no way out of the
\* handler keeps a slot or gives it back twice.
SlotsCounted == \A s \in Service : slots[s] = Cardinality(Proxying(s))

\* Where no token is to be verified, as in the worker, a slot is held for a client that
\* is there.
SlotsInUse ==
    \A r \in Request \ Verified : ex[r].stage = "proxying" => ex[r].client = "here"

\* docs/private-service-listeners.md: "Offline automated tests cover ... concurrency,
\* streaming detach cleanup".  The slot of a client that has left is given back.
SlotsReturned ==
    \A r \in Request :
        (ex[r].stage = "proxying" /\ ex[r].client = "gone") ~> ex[r].stage = "over"

\* Test: "worker close and abort are bounded, idempotent, and release the exact
\* listener".  When close has resolved nothing is being proxied, but what waited for
\* a verification.
QuietWhenClosed ==
    server = "closed" => \A r \in Request \ Verified : ex[r].stage \in {"idle", "over"}

\* Every request that is accepted gets an answer or at least the beginning of one,
\* unless its client leaves.
EveryoneAnswered ==
    \A r \in Request :
        ex[r].stage \in {"verifying", "proxying"} ~>
            ex[r].flushed \/ ex[r].reply = "head" \/ ex[r].client = "gone"

\* Test: "client cancellation reaches local compute".  When a client has left, the
\* upstream request for it comes to an end.
CancellationArrives ==
    \A r \in Request : (ex[r].client = "gone") ~> [](~Busy(r))

\* The same test: close comes to an end, also with streams that do not.
CloseEnds == server = "closing" ~> server = "closed"
=============================================================================
