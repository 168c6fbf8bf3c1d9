--------------------------- MODULE GatewayProofs ---------------------------
(***************************************************************************)
(* The safety of Gateway, for any set of requests and services.            *)
(*                                                                         *)
(* Sound is what holds of each exchange by itself; GatewayInv adds the     *)
(* count of slots.  Every action replaces one exchange by a sound one, and *)
(* all but an admission do so by Settle.                                   *)
(*                                                                         *)
(* Then what the two operator modules beside it promise: the policies that *)
(* decide about a request before it is admitted (Manifest), for any        *)
(* accepted manifest, and the admission of the node that serves it         *)
(* (NodeAdmission), for any documents.                                     *)
(***************************************************************************)
EXTENDS Gateway, Integers, Sequences, FiniteSetTheorems, TLAPS

\* The constants of the manifest and of the documents of a node.
CONSTANTS Id, Host, Method, Path, Absent,
          Role, Alias, Model, Digest, Release, Version, Protocol, RoleAlias, RequiredProtocols

Policy == INSTANCE Manifest
Node == INSTANCE NodeAdmission

AtWork(e) == e.up \in {"open", "sent"} /\ e.incoming # "end"

\* What is true of an exchange at any moment.
Sound(e) ==
    /\ e.stage = "idle" => e.client = "here"
    /\ e.stage \in {"idle", "verifying"} =>
           e.up = "none" /\ e.incoming = "none" /\ e.reply = "none"
           /\ ~e.flushed /\ ~e.rejected
    /\ e.stage = "proxying" => e.up # "none" /\ ~e.flushed
    /\ e.stage = "over" => ~AtWork(e)
    /\ e.reply \in {"error", "whole"} => ~AtWork(e)
    /\ ~e.rejected => e.size <= MaxBody
    /\ e.rejected => /\ e.up = "cut" /\ e.incoming # "flowing"
                     /\ e.reply = "error" \/ e.client = "gone"
                     /\ ~(e.reply = "whole" /\ e.flushed)

SlotsBalance == \A s \in Service : /\ IsFiniteSet(Proxying(s))
                                   /\ slots[s] = Cardinality(Proxying(s))

\* Who does not wait for a verification is there while being proxied.
Present ==
    \A r \in Request \ Verified :
        ex[r].stage # "verifying" /\ (ex[r].stage = "proxying" => ex[r].client = "here")

ClosedIsQuiet ==
    server = "closed" => \A r \in Request : ex[r].stage # "idle" => ex[r].client = "gone"

GatewayInv ==
    /\ GatewayTypeOK
    /\ \A r \in Request : Sound(ex[r])
    /\ SlotsBalance
    /\ Present
    /\ ClosedIsQuiet

\* e may follow the exchange d.
Follows(d, e) ==
    /\ e \in Exchange /\ Sound(e)
    /\ d.stage = "proxying" => e.stage \in {"proxying", "over"}
    /\ d.stage = "over" => e.stage = "over"
    /\ d.client = "gone" => e.client = "gone"
    /\ d.client = "here" /\ e.stage = "proxying" => e.client = "here"
    /\ e.stage = "verifying" => d.stage \in {"idle", "verifying"}

-----------------------------------------------------------------------------
\* Cutting the upstream off leaves nothing of it at work.
LEMMA CutUpType ==
    ASSUME NEW e \in Exchange
    PROVE  CutUp(e) \in Exchange /\ ~AtWork(CutUp(e))
BY GatewayConstants DEF CutUp, Exchange, AtWork

\* The rest of an exchange stays as it was when its upstream is cut off.
LEMMA CutUpRest ==
    ASSUME NEW e \in Exchange
    PROVE  /\ CutUp(e).stage = e.stage /\ CutUp(e).client = e.client
           /\ CutUp(e).reply = e.reply /\ CutUp(e).flushed = e.flushed
           /\ CutUp(e).rejected = e.rejected /\ CutUp(e).size = e.size
           /\ CutUp(e).body = e.body
           /\ CutUp(e).up = (IF e.up = "none" THEN "none" ELSE "cut")
           /\ CutUp(e).incoming = (IF e.incoming \in {"none", "end"} THEN e.incoming ELSE "cut")
BY DEF CutUp, Exchange

\* A connection that closes takes the upstream of a request being proxied with it.
LEMMA VanishFields ==
    ASSUME NEW e \in Exchange
    PROVE  /\ Vanish(e) \in Exchange
           /\ Vanish(e).client = "gone"
           /\ Vanish(e).reply = e.reply /\ Vanish(e).flushed = e.flushed
           /\ Vanish(e).rejected = e.rejected /\ Vanish(e).size = e.size
           /\ Vanish(e).stage = (IF e.stage = "proxying" THEN "over" ELSE e.stage)
           /\ e.stage # "proxying" => Vanish(e).up = e.up /\ Vanish(e).incoming = e.incoming
           /\ e.stage = "proxying" =>
                 /\ ~AtWork(Vanish(e))
                 /\ Vanish(e).up = CutUp(e).up /\ Vanish(e).incoming = CutUp(e).incoming
<1> DEFINE gone == [e EXCEPT !.client = "gone",
                             !.body = IF @ \in {"arriving", "received"} THEN "cut" ELSE @]
<1>1. /\ gone \in Exchange /\ gone.client = "gone"
      /\ gone.reply = e.reply /\ gone.flushed = e.flushed
      /\ gone.rejected = e.rejected /\ gone.size = e.size
      /\ gone.stage = e.stage /\ gone.up = e.up /\ gone.incoming = e.incoming
  BY DEF Exchange
<1> HIDE DEF gone
<1>2. Vanish(e) = IF e.stage = "proxying" THEN [CutUp(gone) EXCEPT !.stage = "over"] ELSE gone
  BY DEF Vanish, gone
<1>3. CASE e.stage = "proxying"
  <2>1. CutUp(gone) \in Exchange /\ ~AtWork(CutUp(gone))
    BY <1>1, CutUpType
  <2>2. Vanish(e) = [CutUp(gone) EXCEPT !.stage = "over"]
    BY <1>2, <1>3
  <2>3. /\ Vanish(e) \in Exchange /\ ~AtWork(Vanish(e))
        /\ Vanish(e).stage = "over" /\ Vanish(e).client = CutUp(gone).client
        /\ Vanish(e).reply = CutUp(gone).reply /\ Vanish(e).flushed = CutUp(gone).flushed
        /\ Vanish(e).rejected = CutUp(gone).rejected /\ Vanish(e).size = CutUp(gone).size
        /\ Vanish(e).up = CutUp(gone).up /\ Vanish(e).incoming = CutUp(gone).incoming
    BY <2>1, <2>2 DEF Exchange, AtWork
  <2> QED
    BY <1>1, <1>3, <2>3, CutUpRest
<1>4. CASE e.stage # "proxying"
  BY <1>1, <1>2, <1>4
<1> QED
  BY <1>3, <1>4

\* An exchange whose connection closes is followed by a sound one.
LEMMA VanishFollows ==
    ASSUME NEW e \in Exchange, Sound(e), e.stage # "idle"
    PROVE  Follows(e, Vanish(e))
BY VanishFields, CutUpRest DEF Follows, Sound, AtWork, Exchange

\* An error message leaves alone what is not the reply, or ends the connection.
LEMMA SendErrorCases ==
    ASSUME NEW e \in Exchange
    PROVE  \/ SendError(e) = e /\ (e.client = "gone" \/ e.flushed)
           \/ /\ SendError(e) = [e EXCEPT !.reply = "error"]
              /\ e.client = "here" /\ e.reply = "none" /\ ~e.flushed
           \/ SendError(e) = Vanish(e) /\ e.client = "here" /\ e.reply # "none"
BY DEF SendError, Exchange

\* A refusal ends an exchange that has no upstream yet.
LEMMA RefuseFollows ==
    ASSUME NEW e \in Exchange, Sound(e), e.stage \in {"idle", "verifying"}
    PROVE  Follows(e, Refuse(e)) /\ Refuse(e).stage = "over"
<1>1. CASE e.client = "gone"
  <2>1. Refuse(e) = [e EXCEPT !.stage = "over"]
    BY <1>1, SendErrorCases DEF Refuse, Sound, Exchange
  <2> QED
    BY <1>1, <2>1 DEF Follows, Sound, AtWork, Exchange
<1>2. CASE e.client = "here"
  <2>1. Refuse(e) = [[e EXCEPT !.reply = "error"] EXCEPT !.stage = "over"]
    BY <1>2, SendErrorCases DEF Refuse, Sound, Exchange
  <2> QED
    BY <1>2, <2>1 DEF Follows, Sound, AtWork, Exchange
<1> QED
  BY <1>1, <1>2 DEF Exchange

\* An error message to an exchange whose upstream has been cut off.
LEMMA SendErrorFollows ==
    ASSUME NEW e \in Exchange, Sound(e), e.stage # "idle", e.stage # "verifying", ~AtWork(e)
    PROVE  Follows(e, SendError(e))
<1>1. CASE SendError(e) = e
  BY <1>1 DEF Follows, Exchange
<1>2. CASE SendError(e) = [e EXCEPT !.reply = "error"]
  BY <1>2 DEF Follows, Sound, AtWork, Exchange
<1>3. CASE SendError(e) = Vanish(e)
  BY <1>3, VanishFollows
<1> QED
  BY <1>1, <1>2, <1>3, SendErrorCases

-----------------------------------------------------------------------------
\* What a step of one exchange leaves of the others, and of the sets that count.
LEMMA ProxyingAfter ==
    ASSUME GatewayInv, NEW r \in Request, NEW e \in Exchange, NEW s \in Service,
           ex' = [ex EXCEPT ![r] = e]
    PROVE  Proxying(s)' = IF ServiceOf[r] = s /\ e.stage = "proxying"
                          THEN Proxying(s) \cup {r} ELSE Proxying(s) \ {r}
BY DEF GatewayInv, GatewayTypeOK, Proxying

\* A step that settles an exchange, or changes it while it goes on, keeps the count.
LEMMA SettleCounts ==
    ASSUME GatewayInv, NEW r \in Request, NEW e, Follows(ex[r], e), Settle(r, e),
           e.stage = "proxying" => ex[r].stage = "proxying"
    PROVE  slots' \in [Service -> 0 .. MaxSlots] /\ SlotsBalance'
<1> USE GatewayConstants
<1>1. ex' = [ex EXCEPT ![r] = e] /\ e \in Exchange /\ ex \in [Request -> Exchange]
  BY DEF Settle, Follows, GatewayInv, GatewayTypeOK
<1>2. /\ slots \in [Service -> 0 .. MaxSlots]
      /\ ServiceOf[r] \in Service
  BY DEF GatewayInv, GatewayTypeOK
<1>3. CASE ex[r].stage = "proxying" /\ e.stage = "over"
  <2>1. slots' = [slots EXCEPT ![ServiceOf[r]] = IF @ = 0 THEN 0 ELSE @ - 1]
    BY <1>3 DEF Settle
  <2>2. slots' \in [Service -> 0 .. MaxSlots]
    BY <1>2, <2>1
  <2>3. ASSUME NEW s \in Service
        PROVE  IsFiniteSet(Proxying(s))' /\ slots'[s] = Cardinality(Proxying(s)')
    <3>1. Proxying(s)' = Proxying(s) \ {r}
      BY <1>1, <1>3, ProxyingAfter
    <3>2. IsFiniteSet(Proxying(s)) /\ slots[s] = Cardinality(Proxying(s))
      BY DEF GatewayInv, SlotsBalance
    <3>3. /\ IsFiniteSet(Proxying(s) \ {r})
          /\ Cardinality(Proxying(s) \ {r}) =
                IF r \in Proxying(s) THEN Cardinality(Proxying(s)) - 1
                                     ELSE Cardinality(Proxying(s))
      BY <3>2, FS_RemoveElement
    <3>4. CASE ServiceOf[r] = s
      <4>1. r \in Proxying(s)
        BY <1>3, <3>4 DEF Proxying
      <4>2. Cardinality(Proxying(s)) # 0
        BY <3>2, <4>1, FS_EmptySet
      <4>3. slots'[s] = slots[s] - 1
        BY <1>2, <2>1, <3>2, <3>4, <4>2
      <4> QED
        BY <3>1, <3>2, <3>3, <4>1, <4>3
    <3>5. CASE ServiceOf[r] # s
      <4>1. r \notin Proxying(s) /\ slots'[s] = slots[s]
        BY <1>2, <2>1, <3>5 DEF Proxying
      <4> QED
        BY <3>1, <3>2, <3>3, <4>1
    <3> QED
      BY <3>4, <3>5
  <2> QED
    BY <2>2, <2>3 DEF SlotsBalance
<1>4. CASE ~(ex[r].stage = "proxying" /\ e.stage = "over")
  <2>1. slots' = slots
    BY <1>4 DEF Settle
  <2>2. (e.stage = "proxying") <=> (ex[r].stage = "proxying")
    BY <1>4 DEF Follows
  <2>3. ASSUME NEW s \in Service PROVE Proxying(s)' = Proxying(s)
    BY <1>1, <2>2, ProxyingAfter DEF Proxying
  <2> QED
    BY <1>2, <2>1, <2>3 DEF GatewayInv, SlotsBalance
<1> QED
  BY <1>3, <1>4

\* An admission takes the slot that it counts for.
LEMMA AdmitCounts ==
    ASSUME GatewayInv, NEW r \in Request, NEW e \in Exchange,
           ex[r].stage # "proxying", e.stage = "proxying",
           ex' = [ex EXCEPT ![r] = e],
           slots[ServiceOf[r]] < MaxSlots,
           slots' = [slots EXCEPT ![ServiceOf[r]] = @ + 1]
    PROVE  slots' \in [Service -> 0 .. MaxSlots] /\ SlotsBalance'
<1> USE GatewayConstants
<1>1. /\ slots \in [Service -> 0 .. MaxSlots]
      /\ ServiceOf[r] \in Service
  BY DEF GatewayInv, GatewayTypeOK
<1>2. slots' \in [Service -> 0 .. MaxSlots]
  BY <1>1
<1>3. ASSUME NEW s \in Service
      PROVE  IsFiniteSet(Proxying(s))' /\ slots'[s] = Cardinality(Proxying(s)')
  <2>1. IsFiniteSet(Proxying(s)) /\ slots[s] = Cardinality(Proxying(s))
    BY DEF GatewayInv, SlotsBalance
  <2>2. r \notin Proxying(s)
    BY DEF Proxying
  <2>3. CASE ServiceOf[r] = s
    <3>1. Proxying(s)' = Proxying(s) \cup {r}
      BY <2>3, ProxyingAfter
    <3>2. /\ IsFiniteSet(Proxying(s) \cup {r})
          /\ Cardinality(Proxying(s) \cup {r}) = Cardinality(Proxying(s)) + 1
      BY <2>1, <2>2, FS_AddElement
    <3> QED
      BY <1>1, <2>1, <2>3, <3>1, <3>2
  <2>4. CASE ServiceOf[r] # s
    <3>1. Proxying(s)' = Proxying(s) \ {r}
      BY <2>4, ProxyingAfter
    <3>2. Proxying(s)' = Proxying(s)
      BY <2>2, <3>1
    <3> QED
      BY <1>1, <2>1, <2>4, <3>2
  <2> QED
    BY <2>3, <2>4
<1> QED
  BY <1>2, <1>3 DEF SlotsBalance

\* What follows a sound exchange keeps the rest of the invariant.
LEMMA FollowsKeeps ==
    ASSUME GatewayInv, NEW r \in Request, NEW e, Follows(ex[r], e),
           ex' = [ex EXCEPT ![r] = e],
           slots' \in [Service -> 0 .. MaxSlots], SlotsBalance',
           server' = server,
           server = "listening" \/ ex[r].stage # "idle",
           ex[r].stage # "idle" \/ r \in Verified \/ e.stage # "verifying"
    PROVE  GatewayInv'
<1>1. GatewayTypeOK'
  BY DEF GatewayInv, GatewayTypeOK, Follows
<1>2. ASSUME NEW q \in Request PROVE Sound(ex'[q])
  BY DEF GatewayInv, GatewayTypeOK, Follows
<1>3. ClosedIsQuiet'
  BY DEF GatewayInv, GatewayTypeOK, Follows, ClosedIsQuiet
<1>4. ASSUME NEW q \in Request \ Verified
      PROVE  ex'[q].stage # "verifying" /\ (ex'[q].stage = "proxying" => ex'[q].client = "here")
  <2>1. CASE q = r
    <3>1. /\ ex'[q] = e /\ ex[r] \in Exchange
          /\ ex[r].stage # "verifying"
          /\ ex[r].stage = "proxying" => ex[r].client = "here"
          /\ ex[r].stage = "idle" => ex[r].client = "here"
      BY <2>1 DEF GatewayInv, GatewayTypeOK, Present, Sound
    <3>2. ex[r].stage \in {"idle", "proxying", "over"}
      BY <3>1 DEF Exchange
    <3> QED
      BY <2>1, <3>1, <3>2 DEF Follows
  <2>2. CASE q # r
    BY <2>2 DEF GatewayInv, GatewayTypeOK, Present
  <2> QED
    BY <2>1, <2>2
<1> QED
  BY <1>1, <1>2, <1>3, <1>4 DEF GatewayInv, Sound, AtWork, Present

\* A step of Settle keeps the invariant.
LEMMA SettleKeeps ==
    ASSUME GatewayInv, NEW r \in Request, NEW e, Follows(ex[r], e), Settle(r, e),
           e.stage = "proxying" => ex[r].stage = "proxying",
           server' = server,
           server = "listening" \/ ex[r].stage # "idle",
           ex[r].stage # "idle" \/ r \in Verified \/ e.stage # "verifying"
    PROVE  GatewayInv'
<1>1. slots' \in [Service -> 0 .. MaxSlots] /\ SlotsBalance'
  BY SettleCounts
<1>2. ex' = [ex EXCEPT ![r] = e]
  BY DEF Settle
<1> QED
  BY <1>1, <1>2, FollowsKeeps

\* A decision on a request that is admitted or refused keeps it.
LEMMA AdmitKeeps ==
    ASSUME GatewayInv, NEW r \in Request,
           ex[r].stage = "idle" \/ ex[r].stage = "verifying",
           ex[r].stage = "idle" => server = "listening" /\ r \notin Verified,
           Admit(r, ex[r]), server' = server
    PROVE  GatewayInv'
<1>0. ex[r] \in Exchange /\ Sound(ex[r])
  BY DEF GatewayInv, GatewayTypeOK
<1>1. CASE ex' = [ex EXCEPT ![r] = Refuse(ex[r])] /\ UNCHANGED slots
  <2>1. Follows(ex[r], Refuse(ex[r])) /\ Refuse(ex[r]).stage = "over"
    BY <1>0, RefuseFollows
  <2>2. Settle(r, Refuse(ex[r]))
    BY <1>1 DEF Settle
  <2> QED
    BY <2>1, <2>2, SettleKeeps
<1>2. CASE /\ slots[ServiceOf[r]] < MaxSlots
           /\ ex' = [ex EXCEPT ![r] = [ex[r] EXCEPT !.stage = "proxying", !.up = "open"]]
           /\ slots' = [slots EXCEPT ![ServiceOf[r]] = @ + 1]
  <2> DEFINE e == [ex[r] EXCEPT !.stage = "proxying", !.up = "open"]
  <2>1. Follows(ex[r], e) /\ e.stage = "proxying"
    BY <1>0 DEF Follows, Sound, AtWork, Exchange
  <2>2. slots' \in [Service -> 0 .. MaxSlots] /\ SlotsBalance'
    BY <1>2, <2>1, AdmitCounts DEF Follows
  <2> QED
    BY <1>2, <2>1, <2>2, FollowsKeeps
<1> QED
  BY <1>1, <1>2 DEF Admit

-----------------------------------------------------------------------------
\* The actions of the handler keep the invariant.
LEMMA HandlerKeeps ==
    ASSUME GatewayInv, NEW r \in Request, Arrive(r) \/ Answer(r)
    PROVE  GatewayInv'
<1>0. ex[r] \in Exchange /\ Sound(ex[r])
  BY DEF GatewayInv, GatewayTypeOK
<1>1. ASSUME ex[r].stage \in {"idle", "verifying"},
             ex' = [ex EXCEPT ![r] = Refuse(ex[r])], UNCHANGED <<slots, server>>,
             server = "listening" \/ ex[r].stage # "idle"
      PROVE  GatewayInv'
  <2>1. Follows(ex[r], Refuse(ex[r])) /\ Refuse(ex[r]).stage = "over"
    BY <1>0, <1>1, RefuseFollows
  <2>2. Settle(r, Refuse(ex[r]))
    BY <1>1 DEF Settle
  <2> QED
    BY <1>1, <2>1, <2>2, SettleKeeps
<1>2. CASE Arrive(r)
  <2>1. CASE r \in Verified /\ ex' = [ex EXCEPT ![r].stage = "verifying"] /\ UNCHANGED slots
    <3> DEFINE e == [ex[r] EXCEPT !.stage = "verifying"]
    <3>1. Follows(ex[r], e) /\ e.stage = "verifying"
      BY <1>0, <1>2, <2>1 DEF Arrive, Follows, Sound, AtWork, Exchange
    <3>2. Settle(r, e)
      BY <1>2, <2>1 DEF Arrive, Settle
    <3>3. server' = server /\ server = "listening" /\ r \in Verified
      BY <1>2, <2>1 DEF Arrive
    <3> HIDE DEF e
    <3> QED
      BY <3>1, <3>2, <3>3, SettleKeeps
  <2> QED
    BY <1>1, <1>2, <2>1, AdmitKeeps DEF Arrive
<1>3. CASE Answer(r)
  BY <1>1, <1>3, AdmitKeeps DEF Answer
<1> QED
  BY <1>2, <1>3

\* The events of the body of a request keep the invariant.
LEMMA BodyKeeps ==
    ASSUME GatewayInv, NEW r \in Request, Receive(r) \/ Chunk(r) \/ BodyEnd(r)
    PROVE  GatewayInv'
<1>0. ex[r] \in Exchange /\ Sound(ex[r])
  BY DEF GatewayInv, GatewayTypeOK
<1>1. CASE Receive(r)
  <2> DEFINE e == [ex[r] EXCEPT !.body = "received"]
  <2>1. Follows(ex[r], e) /\ e.stage = ex[r].stage
    BY <1>0, <1>1 DEF Receive, Follows, Sound, AtWork, Exchange
  <2>2. Settle(r, e)
    BY <1>1, <2>1 DEF Receive, Settle
  <2> QED
    BY <1>1, <2>1, <2>2, SettleKeeps DEF Receive
<1>2. CASE Chunk(r)
  <2> DEFINE more == [ex[r] EXCEPT !.size = @ + 1]
             e == IF more.size <= MaxBody THEN more
                  ELSE SendError(CutUp([more EXCEPT !.rejected = TRUE]))
  <2>1. Settle(r, e) /\ server' = server /\ ex[r].stage = "proxying"
    BY <1>2 DEF Chunk
  <2>2. CASE more.size <= MaxBody
    <3>1. Follows(ex[r], more) /\ more.stage = ex[r].stage
      BY <1>0, <1>2, <2>2, GatewayConstants DEF Chunk, Follows, Sound, AtWork, Exchange
    <3> QED
      BY <2>1, <2>2, <3>1, SettleKeeps
  <2>3. CASE ~(more.size <= MaxBody)
    <3>1. /\ ex[r].stage = "proxying" /\ ex[r].client = "here" /\ ~ex[r].rejected
          /\ ex[r].up # "none" /\ ~ex[r].flushed
      BY <1>0, <1>2 DEF Chunk, Sound
    <3>2. ex[r].size + 1 \in 0 .. MaxBody + 1
      BY <1>0, <3>1, GatewayConstants DEF Sound, Exchange
    <3>3. /\ more \in Exchange /\ more.stage = "proxying" /\ more.client = "here"
          /\ more.up # "none" /\ ~more.flushed
      BY <1>0, <3>1, <3>2 DEF Exchange
    <3> HIDE DEF more
    <3> DEFINE over == [more EXCEPT !.rejected = TRUE]
    <3>4. /\ over \in Exchange /\ over.stage = "proxying" /\ over.client = "here"
          /\ over.up # "none" /\ ~over.flushed /\ over.rejected
      BY <3>3 DEF Exchange
    <3> HIDE DEF over
    <3>5. /\ CutUp(over) \in Exchange /\ ~AtWork(CutUp(over))
          /\ CutUp(over).stage = "proxying" /\ CutUp(over).client = "here"
          /\ CutUp(over).up = "cut" /\ CutUp(over).incoming # "flowing"
          /\ ~CutUp(over).flushed /\ CutUp(over).rejected
      BY <3>4, CutUpType, CutUpRest
    <3>6. ASSUME NEW c \in Exchange,
                 ~AtWork(c), c.stage = "proxying", c.client = "here",
                 c.up = "cut", c.incoming # "flowing", ~c.flushed, c.rejected
          PROVE  Follows(ex[r], SendError(c)) /\ SendError(c).stage \in {"proxying", "over"}
      <4>1. CASE SendError(c) = [c EXCEPT !.reply = "error"]
        <5> DEFINE d == [c EXCEPT !.reply = "error"]
        <5>1. /\ d \in Exchange /\ ~AtWork(d) /\ d.stage = "proxying" /\ d.client = "here"
              /\ d.up = "cut" /\ d.incoming # "flowing" /\ ~d.flushed /\ d.rejected
              /\ d.reply = "error"
          BY <3>6 DEF AtWork, Exchange
        <5> HIDE DEF d
        <5>2. Follows(ex[r], d)
          BY <3>1, <5>1 DEF Follows, Sound
        <5> QED
          BY <4>1, <5>1, <5>2 DEF d
      <4>2. CASE SendError(c) = Vanish(c)
        <5>1. /\ Vanish(c) \in Exchange /\ Vanish(c).client = "gone"
              /\ ~Vanish(c).flushed /\ Vanish(c).rejected
              /\ Vanish(c).stage = "over" /\ ~AtWork(Vanish(c))
              /\ Vanish(c).up = "cut" /\ Vanish(c).incoming # "flowing"
          BY <3>6, VanishFields, CutUpRest
        <5>2. Follows(ex[r], Vanish(c))
          BY <3>1, <5>1 DEF Follows, Sound
        <5> QED
          BY <4>2, <5>1, <5>2
      <4> QED
        BY <3>6, <4>1, <4>2, SendErrorCases
    <3>7. e = SendError(CutUp(over))
      BY <2>3 DEF over
    <3>8. Follows(ex[r], e)
      BY <3>5, <3>6, <3>7
    <3> QED
      BY <2>1, <3>8, SettleKeeps
  <2> QED
    BY <2>2, <2>3
<1>3. CASE BodyEnd(r)
  <2> DEFINE e == [ex[r] EXCEPT !.body = "read",
                                !.up = IF ~ex[r].rejected /\ @ = "open" THEN "sent" ELSE @]
  <2>1. Follows(ex[r], e) /\ e.stage = ex[r].stage
    BY <1>0, <1>3 DEF BodyEnd, Follows, Sound, AtWork, Exchange
  <2>2. Settle(r, e)
    BY <1>3, <2>1 DEF BodyEnd, Settle
  <2> QED
    BY <1>3, <2>1, <2>2, SettleKeeps DEF BodyEnd
<1> QED
  BY <1>1, <1>2, <1>3

\* The ends of a connection and of a response keep the invariant.
LEMMA ClientKeeps ==
    ASSUME GatewayInv, NEW r \in Request, Leave(r) \/ Flush(r)
    PROVE  GatewayInv'
<1>0. ex[r] \in Exchange /\ Sound(ex[r])
  BY DEF GatewayInv, GatewayTypeOK
<1>1. CASE Leave(r)
  <2>1. Follows(ex[r], Vanish(ex[r]))
    BY <1>0, <1>1, VanishFollows DEF Leave
  <2>2. Vanish(ex[r]).stage # "proxying"
    BY <1>0, VanishFields
  <2> QED
    BY <1>1, <2>1, <2>2, SettleKeeps DEF Leave
<1>2. CASE Flush(r)
  <2> DEFINE done == [ex[r] EXCEPT !.flushed = TRUE]
             e == IF done.stage = "over" THEN done
                  ELSE IF done.body = "arriving" THEN Vanish(done)
                  ELSE [done EXCEPT !.stage = "over"]
  <2>1. Settle(r, e) /\ server' = server
    BY <1>2 DEF Flush
  <2>2. ex[r].stage # "idle" /\ ex[r].stage # "verifying" /\ ~AtWork(ex[r])
    BY <1>0, <1>2 DEF Flush, Sound
  <2>3. /\ done \in Exchange /\ done.flushed /\ done.stage = ex[r].stage
        /\ done.client = "here" /\ done.reply = ex[r].reply /\ ~AtWork(done)
        /\ done.size = ex[r].size /\ done.rejected = ex[r].rejected
        /\ done.up = ex[r].up /\ done.incoming = ex[r].incoming
    BY <1>0, <1>2, <2>2 DEF Flush, Exchange, AtWork
  <2>4. /\ e \in Exchange /\ e.flushed /\ e.stage = "over"
        /\ e.reply = done.reply /\ ~AtWork(e)
        /\ e.size = done.size /\ e.rejected = done.rejected
        /\ e.rejected => e.up = "cut" /\ e.incoming # "flowing"
        /\ ex[r].client = "here"
    <3> HIDE DEF done
    <3>0. ex[r].client = "here" /\ (done.rejected => done.up = "cut" /\ done.incoming # "flowing")
      BY <1>0, <1>2, <2>3 DEF Flush, Sound
    <3>1. CASE done.stage = "over"
      BY <2>3, <3>0, <3>1
    <3>2. CASE done.stage # "over" /\ done.body = "arriving"
      <4>1. done.stage = "proxying"
        BY <2>2, <2>3, <3>2 DEF Exchange
      <4>2. /\ Vanish(done) \in Exchange /\ Vanish(done).stage = "over"
            /\ Vanish(done).reply = done.reply /\ Vanish(done).flushed
            /\ Vanish(done).size = done.size /\ Vanish(done).rejected = done.rejected
            /\ ~AtWork(Vanish(done))
            /\ done.up = "cut" => Vanish(done).up = "cut"
            /\ done.incoming # "flowing" => Vanish(done).incoming # "flowing"
        BY <2>3, <4>1, VanishFields, CutUpRest
      <4> QED
        BY <3>0, <3>2, <4>2
    <3>3. CASE done.stage # "over" /\ done.body # "arriving"
      BY <2>3, <3>0, <3>3 DEF Exchange, AtWork
    <3> QED
      BY <3>1, <3>2, <3>3
  <2>5. Follows(ex[r], e)
    <3> HIDE DEF done, e
    <3>1. ex[r].rejected => ex[r].reply = "error"
      BY <1>0, <2>4 DEF Sound
    <3>2. ex[r].reply \in {"error", "whole"} /\ (~ex[r].rejected => ex[r].size <= MaxBody)
      BY <1>0, <1>2 DEF Flush, Sound
    <3> QED
      BY <2>3, <2>4, <3>1, <3>2 DEF Follows, Sound
  <2> QED
    BY <2>1, <2>2, <2>4, <2>5, SettleKeeps
<1> QED
  BY <1>1, <1>2

\* What the upstream service does keeps the invariant.
LEMMA UpstreamKeeps ==
    ASSUME GatewayInv, NEW r \in Request, Upstream(r) \/ UpEnd(r) \/ UpBreak(r)
    PROVE  GatewayInv'
<1>0. ex[r] \in Exchange /\ Sound(ex[r])
  BY DEF GatewayInv, GatewayTypeOK
<1>1. CASE UpHead(r)
  <2> DEFINE e == IF ex[r].rejected \/ ex[r].client = "gone"
                  THEN [ex[r] EXCEPT !.up = "cut", !.incoming = "cut"]
                  ELSE [ex[r] EXCEPT !.reply = "head", !.incoming = "flowing"]
  <2>1. Follows(ex[r], e) /\ e.stage = ex[r].stage
    BY <1>0, <1>1 DEF UpHead, Follows, Sound, AtWork, Exchange
  <2>2. ex[r].stage # "idle" /\ Settle(r, e) /\ server' = server
    BY <1>0, <1>1, <2>1 DEF UpHead, Settle, Sound
  <2> QED
    BY <2>1, <2>2, SettleKeeps
<1>2. CASE UpFail(r)
  <2>1. /\ ex[r].stage \in {"proxying", "over"} /\ server' = server
        /\ Settle(r, IF ex[r].rejected THEN CutUp(ex[r]) ELSE SendError(CutUp(ex[r])))
    BY <1>0, <1>2 DEF UpFail, Sound, Exchange
  <2>2. /\ CutUp(ex[r]) \in Exchange /\ ~AtWork(CutUp(ex[r]))
        /\ Sound(CutUp(ex[r])) /\ CutUp(ex[r]).stage = ex[r].stage
        /\ CutUp(ex[r]).client = ex[r].client
    BY <1>0, <2>1, CutUpType, CutUpRest DEF Sound
  <2>3. CASE ex[r].rejected
    BY <2>1, <2>2, <2>3, SettleKeeps DEF Follows
  <2>4. CASE ~ex[r].rejected
    <3>1. Follows(CutUp(ex[r]), SendError(CutUp(ex[r])))
      BY <2>1, <2>2, SendErrorFollows
    <3>2. SendError(CutUp(ex[r])).stage = "proxying" => ex[r].stage = "proxying"
      BY <2>2, SendErrorCases, VanishFields DEF Exchange
    <3> QED
      BY <2>1, <2>2, <2>4, <3>1, <3>2, SettleKeeps DEF Follows
  <2> QED
    BY <2>3, <2>4
<1>3. CASE UpEnd(r)
  <2> DEFINE e == [ex[r] EXCEPT !.incoming = "end",
                                !.reply = IF ex[r].client = "here" THEN "whole" ELSE @]
  <2>1. Follows(ex[r], e) /\ e.stage = ex[r].stage
    BY <1>0, <1>3 DEF UpEnd, Follows, Sound, AtWork, Exchange
  <2>2. ex[r].stage # "idle" /\ Settle(r, e) /\ server' = server
    BY <1>0, <1>3, <2>1 DEF UpEnd, Settle, Sound
  <2> QED
    BY <2>1, <2>2, SettleKeeps
<1>4. CASE UpBreak(r)
  <2> DEFINE c == CutUp(ex[r])
             e == IF ex[r].client = "here" THEN Vanish(c) ELSE c
  <2>1. /\ ex[r].stage \in {"proxying", "over"} /\ server' = server
        /\ Settle(r, e)
    BY <1>0, <1>4 DEF UpBreak, Sound, Exchange
  <2>2. /\ c \in Exchange /\ Sound(c) /\ c.stage = ex[r].stage /\ c.client = ex[r].client
    BY <1>0, <2>1, CutUpType, CutUpRest DEF Sound
  <2>3. Follows(ex[r], Vanish(c)) /\ Vanish(c).stage # "proxying"
    BY <2>1, <2>2, VanishFollows, VanishFields DEF Follows
  <2> QED
    BY <2>1, <2>2, <2>3, SettleKeeps DEF Follows
<1> QED
  BY <1>1, <1>2, <1>3, <1>4 DEF Upstream

-----------------------------------------------------------------------------
\* The invariant holds in the initial states.
LEMMA GatewayInit == Init => GatewayInv
<1> SUFFICES ASSUME Init PROVE GatewayInv
  OBVIOUS
<1>1. NoExchange \in Exchange /\ Sound(NoExchange) /\ NoExchange.stage = "idle"
  BY GatewayConstants DEF NoExchange, Exchange, Sound, AtWork
<1>2. GatewayTypeOK
  BY <1>1, GatewayConstants DEF Init, GatewayTypeOK
<1>3. SlotsBalance
  <2>1. ASSUME NEW s \in Service PROVE Proxying(s) = {}
    BY <1>1 DEF Init, Proxying
  <2> QED
    BY <2>1, FS_EmptySet DEF Init, SlotsBalance
<1> QED
  BY <1>1, <1>2, <1>3 DEF Init, GatewayInv, Present, ClosedIsQuiet

\* Every step keeps it.
LEMMA GatewayNext == GatewayInv /\ [Next]_vars => GatewayInv'
<1> SUFFICES ASSUME GatewayInv, [Next]_vars PROVE GatewayInv'
  OBVIOUS
<1>1. ASSUME NEW r \in Request, Arrive(r) \/ Answer(r) PROVE GatewayInv'
  BY <1>1, HandlerKeeps
<1>2. ASSUME NEW r \in Request, Receive(r) \/ Chunk(r) \/ BodyEnd(r) PROVE GatewayInv'
  BY <1>2, BodyKeeps
<1>3. ASSUME NEW r \in Request, Leave(r) \/ Flush(r) PROVE GatewayInv'
  BY <1>3, ClientKeeps
<1>4. ASSUME NEW r \in Request, Upstream(r) \/ UpEnd(r) \/ UpBreak(r) PROVE GatewayInv'
  BY <1>4, UpstreamKeeps
<1>5. ASSUME UNCHANGED <<ex, slots>>, server' \in {"closing", "closed"},
             server' = "closed" => \A r \in Request : ex[r].stage # "idle" => ex[r].client = "gone"
      PROVE  GatewayInv'
  BY <1>5 DEF GatewayInv, GatewayTypeOK, SlotsBalance, Proxying, Present, ClosedIsQuiet, Sound, AtWork
<1>6. CASE Close \/ Closed
  BY <1>5, <1>6 DEF Close, Closed
<1>7. CASE UNCHANGED vars
  BY <1>7 DEF vars, GatewayInv, GatewayTypeOK, SlotsBalance, Proxying, Present, ClosedIsQuiet, Sound, AtWork
<1> QED
  BY <1>1, <1>2, <1>3, <1>4, <1>6, <1>7 DEF Next

\* The invariant holds always, whatever clients and upstream services do.
THEOREM GatewayInvariant == Spec => []GatewayInv
BY GatewayInit, GatewayNext, PTL DEF Spec

\* The counter of a service is the number of its requests that are being proxied.
THEOREM SlotsAreCounted == Spec => []SlotsCounted
<1>1. GatewayInv => SlotsCounted
  BY DEF GatewayInv, SlotsBalance, SlotsCounted
<1> QED
  BY <1>1, GatewayInvariant, PTL

\* No more than MaxSlots upstream requests of a service are at work.
THEOREM LoadIsBounded == Spec => []LoadBounded
<1>1. ASSUME GatewayInv, NEW s \in Service
      PROVE  Cardinality({r \in Request : ServiceOf[r] = s /\ Busy(r)}) <= MaxSlots
  <2> DEFINE B == {r \in Request : ServiceOf[r] = s /\ Busy(r)}
  <2>1. B \subseteq Proxying(s)
    BY <1>1 DEF GatewayInv, GatewayTypeOK, Exchange, Sound, AtWork, Busy, Proxying
  <2>2. IsFiniteSet(Proxying(s)) /\ Cardinality(Proxying(s)) \in 0 .. MaxSlots
    BY <1>1 DEF GatewayInv, GatewayTypeOK, SlotsBalance
  <2>3. Cardinality(B) <= Cardinality(Proxying(s)) /\ Cardinality(B) \in Nat
    BY <2>1, <2>2, FS_Subset, FS_CardinalityType
  <2> QED
    BY <2>2, <2>3, GatewayConstants
<1>2. GatewayInv => LoadBounded
  BY <1>1 DEF LoadBounded
<1> QED
  BY <1>2, GatewayInvariant, PTL

\* A handler that has ended leaves nothing at work upstream.
THEOREM NothingIsOutlived == Spec => []NothingOutlives
<1>1. GatewayInv => NothingOutlives
  BY DEF GatewayInv, Sound, AtWork, NothingOutlives, Busy
<1> QED
  BY <1>1, GatewayInvariant, PTL

\* An oversized body is neither completed upstream nor answered as if it were.
THEOREM OversizeIsCaught == Spec => []OversizeNeverPasses
<1>1. GatewayInv => OversizeNeverPasses
  BY DEF GatewayInv, Sound, OversizeNeverPasses
<1> QED
  BY <1>1, GatewayInvariant, PTL

\* A slot is held for a client that is there, unless its request had to wait for the
\* token store.
THEOREM SlotsStayInUse == Spec => []SlotsInUse
<1>1. GatewayInv => SlotsInUse
  BY DEF GatewayInv, Present, SlotsInUse
<1> QED
  BY <1>1, GatewayInvariant, PTL

\* When close has resolved, nothing is being proxied that did not have to wait for the
\* token store.
THEOREM QuietAfterClose == Spec => []QuietWhenClosed
<1>1. ASSUME GatewayInv, server = "closed", NEW r \in Request \ Verified
      PROVE  ex[r].stage \in {"idle", "over"}
  <2>1. ex[r].stage \in {"idle", "verifying", "proxying", "over"} /\ ex[r].client \in {"here", "gone"}
    BY <1>1 DEF GatewayInv, GatewayTypeOK, Exchange
  <2>2. /\ ex[r].stage # "verifying"
        /\ ex[r].stage = "proxying" => ex[r].client = "here"
        /\ ex[r].stage # "idle" => ex[r].client = "gone"
    BY <1>1 DEF GatewayInv, Present, ClosedIsQuiet
  <2> QED
    BY <2>1, <2>2
<1>2. GatewayInv => QuietWhenClosed
  BY <1>1 DEF QuietWhenClosed
<1> QED
  BY <1>2, GatewayInvariant, PTL

-----------------------------------------------------------------------------
(***************************************************************************)
(* What an accepted manifest promises of every request, and what the       *)
(* admission of a node promises of its models, for all documents.          *)
(***************************************************************************)
\* One service only claims a request: the claims that the map of the gateway
\* keeps do not depend on the order of the services.
THEOREM OneClaimant ==
    ASSUME NEW m \in Policy!RawManifest, Policy!Accepted(m), NEW host \in Host, NEW method \in Method,
           NEW path \in Path, Policy!EdgeReason(m, host, method, path) = "exact-claim"
    PROVE  Policy!Claimants(m, host, method, path) = {Policy!EdgeService(m, host, method, path)}
<1>1. PICK i \in DOMAIN m.services : i \in Policy!Claimants(m, host, method, path)
    BY DEF Policy!EdgeReason, Policy!Claimants
<1>2. \A j \in Policy!Claimants(m, host, method, path) : j = i
    BY <1>1 DEF Policy!Accepted, Policy!ServicesOk, Policy!ClaimsOk, Policy!Claimants
<1>3. i <= i
    BY <1>1 DEF Policy!RawManifest
<1>4. Policy!EdgeService(m, host, method, path) = i
    BY <1>1, <1>2, <1>3 DEF Policy!EdgeService
<1> QED
    BY <1>1, <1>2, <1>4

\* A request that the edge lets pass goes to a public service whose worker lets
\* it pass as well, as a claim and never as the private health check; nothing
\* else on the edge listens at the port it is sent to, and nothing of LazyEdge
\* listens at the port where the worker sends it.
THEOREM AllowedEndToEnd ==
    ASSUME NEW m \in Policy!RawManifest, Policy!Accepted(m), NEW host \in Host, NEW method \in Method,
           NEW path \in Path, Policy!EdgeReason(m, host, method, path) = "exact-claim"
    PROVE  LET i == Policy!EdgeService(m, host, method, path)
               s == m.services[i]
           IN /\ i \in DOMAIN m.services /\ s.exposure = "public"
              /\ Policy!WorkerReason(s, method, path) = "exact-claim" /\ path # s.health
              /\ \A b \in Policy!EdgeBinders(m) : b[3] = s.upstream => b[2] = i /\ b[1] = "upstream"
              /\ \A j \in DOMAIN m.services : m.services[j].listen # s.target
<1> DEFINE i == Policy!EdgeService(m, host, method, path)
<1>1. i \in Policy!Claimants(m, host, method, path)
    BY OneClaimant
<1> HIDE DEF i
<1>2. /\ i \in DOMAIN m.services /\ m.services[i].exposure = "public"
      /\ <<method, path>> \in m.services[i].claims
    BY <1>1 DEF Policy!Claimants
<1>3. path # m.services[i].health
    BY <1>2 DEF Policy!Accepted, Policy!ServicesOk, Policy!ServiceOk
<1>4. <<"upstream", i, m.services[i].upstream>> \in Policy!EdgeBinders(m)
    BY <1>2 DEF Policy!EdgeBinders
<1>5. \A b \in Policy!EdgeBinders(m) : b[3] = m.services[i].upstream => b[2] = i /\ b[1] = "upstream"
    BY <1>4 DEF Policy!Accepted, Policy!PortsOk
<1>6. \A j \in DOMAIN m.services : m.services[j].listen # m.services[i].target
    BY <1>2 DEF Policy!Accepted, Policy!PortsOk
<1> QED
    BY <1>2, <1>3, <1>5, <1>6 DEF Policy!WorkerReason, i

\* No request to the gateway reaches a private service, and each private service
\* has exactly one listener, which shares its port with nothing on the edge.
THEOREM PrivateStaysPrivate ==
    ASSUME NEW m \in Policy!RawManifest, Policy!Accepted(m), NEW i \in DOMAIN m.services,
           m.services[i].exposure = "private"
    PROVE  /\ \A host \in Host, method \in Method, path \in Path :
                  i \notin Policy!Claimants(m, host, method, path)
           /\ \E k \in DOMAIN m.private :
                  /\ \A l \in DOMAIN m.private :
                        (m.private[l].service = m.services[i].id) <=> (l = k)
                  /\ \A b \in Policy!EdgeBinders(m) :
                        b[3] = m.private[k].port => b[2] = k /\ b[1] = "private"
<1>1. PICK k \in DOMAIN m.private : m.private[k].service = m.services[i].id
    BY DEF Policy!Accepted, Policy!PrivateOk
<1> DEFINE owner == [l \in DOMAIN m.private |-> m.private[l].service]
<1>a. Policy!Distinct(owner)
    BY DEF Policy!Accepted, Policy!PrivateOk
<1>b. \A l \in DOMAIN m.private : owner[l] = m.private[l].service
    OBVIOUS
<1> HIDE DEF owner
<1>c. DOMAIN owner = DOMAIN m.private
    BY DEF owner
<1>2. \A l \in DOMAIN m.private : (m.private[l].service = m.services[i].id) <=> (l = k)
    BY <1>1, <1>a, <1>b, <1>c DEF Policy!Distinct
<1>3. <<"private", k, m.private[k].port>> \in Policy!EdgeBinders(m)
    BY <1>1 DEF Policy!EdgeBinders
<1>4. \A b \in Policy!EdgeBinders(m) : b[3] = m.private[k].port => b[2] = k /\ b[1] = "private"
    BY <1>3 DEF Policy!Accepted, Policy!PortsOk
<1> QED
    BY <1>2, <1>4 DEF Policy!Claimants

---------------------------------------------------------------------------
LEMMA ReceiptType ==
    ASSUME NEW c \in Node!Capabilities
    PROVE  /\ c.functional.max_age \in Int /\ c.functional.age \in Int
           /\ \A i \in DOMAIN c.functional.roles : c.functional.roles[i].time \in Int
<1> DEFINE f == c.functional
<1>1. f \in Node!Receipt
    BY DEF Node!Capabilities
<1> HIDE DEF f
<1>2. f.max_age \in Int /\ f.age \in Int /\ f.roles \in Seq(Node!Evidence)
    BY <1>1 DEF Node!Receipt
<1>3. \A i \in DOMAIN f.roles : f.roles[i] \in Node!Evidence
    BY <1>2
<1>4. \A i \in DOMAIN f.roles : f.roles[i].time \in Int
    BY <1>3 DEF Node!Evidence
<1> QED
    BY <1>2, <1>4 DEF f

LEMMA AgeBounds ==
    ASSUME NEW now \in Int, NEW time \in Int
    PROVE  /\ Node!AgeAt(now, time) \in Nat
           /\ now - time < Node!Second * (Node!AgeAt(now, time) + 1)
           /\ time <= now => Node!Second * Node!AgeAt(now, time) <= now - time
BY DEF Node!AgeAt, Node!Second

\* Each required role of an admitted node has passed exactly one canary, under
\* its own alias, which is not older than max_age_seconds and was made for the
\* release that runs; exactly one of the models of the node is the one tested.
THEOREM AdmittedIsTested ==
    ASSUME NEW r \in Node!Readyz, NEW c \in Node!Capabilities, NEW now \in Nat,
           Node!Admissible(r, c, now), NEW k \in DOMAIN c.functional.required_roles
    PROVE  \E i \in DOMAIN c.functional.roles :
               LET e == c.functional.roles[i]
               IN /\ \A j \in DOMAIN c.functional.roles :
                        (c.functional.roles[j].role = c.functional.required_roles[k]) <=> (j = i)
                  /\ e.passed /\ e.alias = RoleAlias[c.functional.required_roles[k]]
                  /\ c.functional.release = c.release
                  /\ now - e.time < Node!Second * (c.functional.max_age + 1)
                  /\ e.time <= now + Node!Tolerance
                  /\ \E n \in DOMAIN c.models : Node!Matching(c, e) = {n}
<1> DEFINE f == c.functional
<1>1. PICK i \in DOMAIN f.roles : f.roles[i].role = f.required_roles[k]
    BY DEF Node!Admissible, Node!RolesOk
<1>2. \A j \in DOMAIN f.roles : (f.roles[j].role = f.required_roles[k]) <=> (j = i)
    BY <1>1 DEF Node!Admissible, Node!RolesOk
<1>3. f.roles[i].passed /\ f.roles[i].alias = RoleAlias[f.required_roles[k]]
    BY <1>1 DEF Node!Admissible, Node!RolesOk
<1>4. i \in Node!RequiredEvidence(c)
    BY <1>1 DEF Node!RequiredEvidence
<1>5. f.roles[i].time \in Int /\ f.max_age \in Int
    BY <1>1, ReceiptType
<1>6. PICK o \in Node!RequiredEvidence(c) :
         f.roles[o].time <= f.roles[i].time /\ Node!AgeAt(now, f.roles[o].time) <= f.max_age
    BY <1>4 DEF Node!Admissible, Node!TimesOk
<1>7. f.roles[o].time \in Int
    BY <1>6, ReceiptType DEF Node!RequiredEvidence
<1>8. now - f.roles[i].time < Node!Second * (f.max_age + 1)
  <2> DEFINE a == Node!AgeAt(now, f.roles[o].time)
  <2>1. a \in Nat /\ now - f.roles[o].time < Node!Second * (a + 1) /\ a <= f.max_age
        /\ f.roles[o].time <= f.roles[i].time
    BY <1>6, <1>7, AgeBounds
  <2> HIDE DEF a, f
  <2> QED
    BY <1>5, <1>7, <2>1 DEF Node!Second
<1>9. f.roles[i].time <= now + Node!Tolerance
    BY <1>4 DEF Node!Admissible, Node!TimesOk
<1>10. \E n \in DOMAIN c.models : Node!Matching(c, f.roles[i]) = {n}
    BY <1>4 DEF Node!Admissible, Node!ProvenanceOk
<1>11. f.release = c.release
    BY DEF Node!Admissible, Node!ReceiptOk
<1> HIDE DEF f
<1> QED
    BY <1>1, <1>2, <1>3, <1>8, <1>9, <1>10, <1>11, Zenon DEF f

\* The clock is read before the documents are fetched: a node with the same
\* clock that states the age of its oldest required result when it answers is
\* refused if its answer is six seconds away, however long a timeout is allowed.
THEOREM SlowAnswerIsStale ==
    ASSUME NEW r \in Node!Readyz, NEW c \in Node!Capabilities, NEW now \in Nat, NEW then \in Nat,
           then >= now + Node!Tolerance + Node!Second,
           \A i \in Node!RequiredEvidence(c) : c.functional.roles[i].time <= now,
           \A o \in Node!RequiredEvidence(c) :
               (\A i \in Node!RequiredEvidence(c) :
                   c.functional.roles[o].time <= c.functional.roles[i].time)
               => c.functional.age = Node!AgeAt(then, c.functional.roles[o].time)
    PROVE  ~Node!Admissible(r, c, now)
<1> DEFINE f == c.functional
<1> SUFFICES ASSUME Node!TimesOk(c, now) PROVE FALSE
    BY DEF Node!Admissible
<1>1. PICK o \in Node!RequiredEvidence(c) :
         /\ \A i \in Node!RequiredEvidence(c) : f.roles[o].time <= f.roles[i].time
         /\ Node!Apart(Node!AgeAt(now, f.roles[o].time), f.age) * Node!Second <= Node!Tolerance
    BY DEF Node!TimesOk
<1> DEFINE t == f.roles[o].time
           early == Node!AgeAt(now, t)
           late == Node!AgeAt(then, t)
<1>2. t \in Int
    BY <1>1, ReceiptType DEF Node!RequiredEvidence
<1>3. t <= now
    BY <1>1
<1>4. f.age = late
    BY <1>1
<1>5. Node!Apart(early, late) * Node!Second <= Node!Tolerance
    BY <1>1, <1>4
<1> HIDE DEF t
<1>6. early = (now - t) \div 1000 /\ late = (then - t) \div 1000 /\ then >= now + 6000
    BY <1>2, <1>3 DEF Node!AgeAt, Node!Second, Node!Tolerance
<1> HIDE DEF early, late
<1>7. early \in Int /\ late \in Int /\ late >= early + 6
    BY <1>2, <1>6
<1> QED
    BY <1>5, <1>7 DEF Node!Apart, Node!Second, Node!Tolerance
=============================================================================
