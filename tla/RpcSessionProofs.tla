-------------------------- MODULE RpcSessionProofs --------------------------
(***************************************************************************)
(* Theorems about RpcSession for any set of rpcs, any length of the        *)
(* response streams and any send budget, whether or not connections are    *)
(* lost: who serves an rpc, that it is answered once, and that its caller  *)
(* is given the items of a stream in order, all of them by its end.        *)
(***************************************************************************)
EXTENDS RpcSession, SequenceTheorems, TLAPS

-----------------------------------------------------------------------------
(* The types. *)

Codes == {"normal", "cancel", "end"}
WireMessage == [code : Codes, id : Rpcs, item : Nat]
Submission == {New(r) : r \in Rpcs} \cup {Cancel(r) : r \in Rpcs}

WireType ==
    /\ requests \in Seq(WireMessage) /\ responses \in Seq(WireMessage)
    /\ client_up \in BOOLEAN /\ server_up \in BOOLEAN

ClientType ==
    /\ user \in [Rpcs -> {"idle", "sending", "waiting", "resolved", "dropped"}]
    /\ result \in [Rpcs -> {"none", "response", "cancelled", "finished", "closed"}]
    /\ queue \subseteq Submission /\ in_flight \subseteq Rpcs
    /\ channel \in [Rpcs -> Seq(Nat)] /\ got \in [Rpcs -> Seq(Nat)]
    /\ scanned \subseteq Streaming

(* An abort handle is kept for rpcs of the pool only. *)
ServerType ==
    /\ rpcs \subseteq Rpcs /\ aborts \subseteq rpcs
    /\ rejections \in Seq(Rpcs)
    /\ work \in [Rpcs -> Nat] /\ made \in [Rpcs -> Nat]
    /\ \A r \in Rpcs : work[r] <= made[r]
    /\ replies \in [Rpcs -> Seq(WireMessage)]

TypeInv == WireType /\ ClientType /\ ServerType

(* The messages of an rpc are messages of the wire. *)
LEMMA Messages ==
    ASSUME NEW r \in Rpcs, NEW n \in Nat
    PROVE  Normal(r, n) \in WireMessage /\ Cancelled(r) \in WireMessage /\ EndMessage(r) \in WireMessage
BY DEF Normal, Cancelled, EndMessage, WireMessage, Codes

(* What a channel holds after a message is added, taken, or the last ones are lost. *)
LEMMA Added ==
    ASSUME NEW S, NEW s \in Seq(S), NEW m \in S
    PROVE  /\ Append(s, m) \in Seq(S) /\ Len(s) \in Nat
           /\ DOMAIN s = 1 .. Len(s) /\ DOMAIN Append(s, m) = 1 .. Len(s) + 1
           /\ \A i \in 1 .. Len(s) : Append(s, m)[i] = s[i]
           /\ Append(s, m)[Len(s) + 1] = m
BY AppendProperties, LenProperties

(* A channel after its first message is taken. *)
LEMMA Taken ==
    ASSUME NEW S, NEW s \in Seq(S), s # <<>>
    PROVE  /\ Tail(s) \in Seq(S) /\ Len(s) \in Nat \ {0}
           /\ DOMAIN s = 1 .. Len(s) /\ DOMAIN Tail(s) = 1 .. Len(s) - 1
           /\ Head(s) \in S /\ Head(s) = s[1]
           /\ \A i \in 1 .. Len(s) - 1 : Tail(s)[i] = s[i + 1]
<1>1. Tail(s) \in Seq(S) /\ Len(Tail(s)) = Len(s) - 1 /\ Head(s) \in S BY HeadTailProperties
<1>2. \A i \in 1 .. Len(Tail(s)) : Tail(s)[i] = s[i + 1] BY HeadTailProperties
<1>3. Len(s) \in Nat \ {0} BY EmptySeq
<1>4. Head(s) = s[1] BY <1>3
<1>5. DOMAIN s = 1 .. Len(s) BY LenProperties
<1>6. DOMAIN Tail(s) = 1 .. Len(Tail(s)) BY <1>1, LenProperties
<1> QED BY <1>1, <1>2, <1>3, <1>4, <1>5, <1>6

(* A channel whose last messages are lost. *)
LEMMA Cut ==
    ASSUME NEW S, NEW s \in Seq(S), NEW n \in 0 .. Len(s)
    PROVE  /\ SubSeq(s, 1, n) \in Seq(S) /\ Len(SubSeq(s, 1, n)) = n
           /\ DOMAIN s = 1 .. Len(s) /\ DOMAIN SubSeq(s, 1, n) = 1 .. n /\ Len(s) \in Nat
           /\ \A i \in 1 .. n : SubSeq(s, 1, n)[i] = s[i]
<1>1. Len(s) \in Nat /\ DOMAIN s = 1 .. Len(s) BY LenProperties
<1>2. \A i \in 1 .. n : s[i] \in S BY <1>1, ElementOfSeq
<1>3. SubSeq(s, 1, n) \in Seq(S) /\ Len(SubSeq(s, 1, n)) = n BY <1>1, <1>2, SubSeqProperties
<1>4. DOMAIN SubSeq(s, 1, n) = 1 .. n BY <1>3, LenProperties
<1>5. \A i \in 1 .. n : SubSeq(s, 1, n)[i] = s[1 + i - 1] BY <1>1, <1>2, SubSeqProperties
<1> QED BY <1>1, <1>3, <1>4, <1>5

(* A new session is well typed. *)
LEMMA TypeInit == Init => TypeInv
<1> SUFFICES ASSUME Init PROVE TypeInv OBVIOUS
<1>1. WireType BY EmptySeq DEF Init, WireInit, WireType
<1>2. ClientType BY EmptySeq DEF Init, ClientInit, ClientType
<1>3. ServerType
  <2>1. rpcs = {} /\ aborts = {} /\ rejections \in Seq(Rpcs) BY EmptySeq DEF Init, ServerInit
  <2>2. work \in [Rpcs -> Nat] /\ made \in [Rpcs -> Nat] /\ \A r \in Rpcs : work[r] <= made[r]
    BY DEF Init, ServerInit
  <2>3. replies \in [Rpcs -> Seq(WireMessage)] BY EmptySeq DEF Init, ServerInit
  <2> QED BY <2>1, <2>2, <2>3 DEF ServerType
<1> QED BY <1>1, <1>2, <1>3 DEF TypeInv

(* What the server's step for an rpc of the pool sends: an item, after which the rpc *)
(* stays, or its last word, after which it is gone.                                  *)
Sends(r, m) ==
    /\ r \in rpcs /\ m \in WireMessage /\ m.id = r
    /\ server_up /\ HasPermit(responses)
    /\ responses' = Append(responses, m)
    /\ replies' = [replies EXCEPT ![r] = Append(@, m)]
    /\ UNCHANGED <<requests, client_up, server_up, aborted, rejections, ended, made, clientVars>>

SendsItem(r, m) ==
    /\ Sends(r, m)
    /\ r \in Streaming /\ m.code = "normal" /\ m.item = made[r] - work[r] + 1 /\ work[r] > 0
    /\ work' = [work EXCEPT ![r] = @ - 1]
    /\ UNCHANGED <<rpcs, woken, aborts>>

SendsLast(r, m) ==
    /\ Sends(r, m)
    /\ Terminal(r, m) /\ (m.code = "normal" => r \notin Streaming)
    /\ rpcs' = rpcs \ {r} /\ woken' = woken \ {r} /\ aborts' = aborts \ {r}
    /\ \/ work' = work /\ (m.code = "end" => work[r] = 0)
       \/ m.code = "normal" /\ work[r] > 0 /\ work' = [work EXCEPT ![r] = @ - 1]

(* What poll_outbound_many does for an rpc of the pool is one of these, or finds it pending. *)
LEMMA OutboundForms ==
    ASSUME TypeInv, NEW r \in Rpcs, Outbound(r), UNCHANGED clientVars
    PROVE  \/ \E m : SendsItem(r, m) \/ SendsLast(r, m)
           \/ PollRpcPending(r)
<1> USE DEF Emit, Reply, Retired, Untracked, IsTerminal, MessageForEvent, Polled
<1>1. work[r] \in Nat /\ made[r] \in Nat /\ work[r] <= made[r] BY DEF TypeInv, ServerType
<1>2. CASE ReplyCancelled(r)
  <2>1. SendsLast(r, Cancelled(r))
    BY <1>2, Messages DEF ReplyCancelled, SendsLast, Sends, Terminal, Cancelled
  <2> QED BY <2>1
<1>3. CASE ReplyComplete(r)
  <2>1. SendsLast(r, Normal(r, 1))
    BY <1>1, <1>3, Messages DEF ReplyComplete, SendsLast, Sends, Terminal, Normal
  <2> QED BY <2>1
<1>4. CASE ReplyItem(r)
  <2>1. NextItem(r) \in Nat BY <1>1 DEF NextItem
  <2>2. SendsItem(r, Normal(r, NextItem(r)))
    BY <1>1, <1>4, <2>1, Messages DEF ReplyItem, SendsItem, Sends, Terminal, Normal, NextItem
  <2> QED BY <2>2
<1>5. CASE ReplyEnd(r)
  <2>1. SendsLast(r, EndMessage(r))
    BY <1>1, <1>5, Messages DEF ReplyEnd, SendsLast, Sends, Terminal, EndMessage, StreamDone
  <2> QED BY <2>1
<1> QED BY <1>2, <1>3, <1>4, <1>5 DEF Outbound

(* The steps there are. *)
LEMMA StepForms ==
    ASSUME TypeInv, [Next]_vars
    PROVE  \/ \E r \in Rpcs : /\ UNCHANGED serverVars
                              /\ \/ CheckAlive(r) \/ Submit(r) \/ DropCompletion(r) \/ Poll(r)
                                 \/ OnNew(r) \/ OnCancel(r)
           \/ OnResponse /\ UNCHANGED serverVars
           \/ ClientDrops /\ UNCHANGED serverVars
           \/ (OnInbound \/ ReplyRejected \/ ServerDrops) /\ UNCHANGED clientVars
           \/ \E r \in Rpcs : /\ UNCHANGED clientVars
                              /\ ServiceMakes(r) \/ ServiceEnds(r) \/ PollRpcPending(r)
           \/ \E r \in Rpcs : \E m : SendsItem(r, m) \/ SendsLast(r, m)
           \/ UNCHANGED vars
<1>1. CASE ClientStep /\ UNCHANGED serverVars BY <1>1 DEF ClientStep, ClientTask
<1>2. CASE (ServerTask \/ Service) /\ UNCHANGED clientVars
  <2>1. ASSUME NEW r \in Rpcs, Outbound(r)
        PROVE  PollRpcPending(r) \/ \E m : SendsItem(r, m) \/ SendsLast(r, m)
    BY <1>2, <2>1, OutboundForms
  <2> QED BY <1>2, <2>1 DEF ServerTask, Service
<1>3. CASE Lose \/ ClientReadsEof \/ ServerReadsEof BY <1>3 DEF Lose, ClientReadsEof, ServerReadsEof
<1> QED BY <1>1, <1>2, <1>3 DEF Next

(* Every step keeps the types. *)
LEMMA TypeNext == TypeInv /\ [Next]_vars => TypeInv'
<1> SUFFICES ASSUME TypeInv, [Next]_vars PROVE TypeInv' OBVIOUS
<1> USE DEF TypeInv, wireVars, clientVars, serverVars, serviceVars
<1>1. ASSUME NEW r \in Rpcs, UNCHANGED serverVars,
             \/ CheckAlive(r) \/ Submit(r) \/ DropCompletion(r) \/ Poll(r) \/ OnNew(r) \/ OnCancel(r)
      PROVE  TypeInv'
  <2>1. ServerType' BY <1>1 DEF ServerType
  <2>2. New(r) \in Submission /\ Cancel(r) \in Submission BY DEF Submission
  <2>3. channel[r] \in Seq(Nat) /\ got[r] \in Seq(Nat) BY DEF ClientType
  <2>4. CASE CheckAlive(r) BY <2>1, <2>4 DEF CheckAlive, ClientType, WireType
  <2>5. CASE Submit(r) BY <2>1, <2>2, <2>5 DEF Submit, ClientType, WireType
  <2>6. CASE DropCompletion(r)
    <3>1. channel' \in [Rpcs -> Seq(Nat)] BY <2>6, EmptySeq DEF DropCompletion, ClientType
    <3> QED BY <2>1, <2>2, <2>6, <3>1 DEF DropCompletion, ClientType, WireType
  <2>7. CASE PollUnary(r)
    <3>1. channel' \in [Rpcs -> Seq(Nat)] /\ got' \in [Rpcs -> Seq(Nat)]
      <4>1. <<>> \in Seq(Nat) BY EmptySeq
      <4>2. CASE UNCHANGED <<got, channel>> BY <4>2 DEF ClientType
      <4>3. CASE /\ got' = [got EXCEPT ![r] = channel[r]]
                 /\ channel' = [channel EXCEPT ![r] = <<>>]
        BY <2>3, <4>1, <4>3 DEF ClientType
      <4> QED BY <2>7, <4>2, <4>3 DEF PollUnary
    <3> QED BY <2>1, <2>7, <3>1 DEF PollUnary, Resolve, ClientType, WireType
  <2>8. CASE PollItem(r)
    <3>1. Tail(channel[r]) \in Seq(Nat) /\ Head(channel[r]) \in Nat BY <2>3, <2>8, Taken DEF PollItem
    <3>2. Append(got[r], Head(channel[r])) \in Seq(Nat) BY <2>3, <3>1, AppendProperties
    <3> QED BY <2>1, <2>8, <3>1, <3>2 DEF PollItem, ClientType, WireType
  <2>9. CASE PollFinished(r) BY <2>1, <2>9 DEF PollFinished, Resolve, ClientType, WireType
  <2>12. CASE PollEmpty(r) \/ PollPending(r)
    BY <2>1, <2>12 DEF PollEmpty, PollPending, ClientType, WireType
  <2>10. CASE OnNew(r)
    <3>1. requests' \in Seq(WireMessage) BY <2>10, Messages, AppendProperties DEF OnNew, WireType
    <3> QED BY <2>1, <2>10, <3>1 DEF OnNew, ClientType, WireType
  <2>11. CASE OnCancel(r)
    <3>1. requests' \in Seq(WireMessage) BY <2>11, Messages, AppendProperties DEF OnCancel, WireType
    <3> QED BY <2>1, <2>11, <3>1 DEF OnCancel, ClientType, WireType
  <2> QED BY <1>1, <2>4, <2>5, <2>6, <2>7, <2>8, <2>9, <2>10, <2>11, <2>12 DEF Poll
<1>2. ASSUME OnResponse, UNCHANGED serverVars PROVE TypeInv'
  <2> DEFINE m == Head(responses)
  <2>1. Response BY <1>2 DEF OnResponse, OnControl, OnItem, OnUnary, OnUnregistered
  <2>2. Tail(responses) \in Seq(WireMessage) /\ m \in WireMessage BY <2>1, Taken DEF Response, WireType
  <2>3. m.id \in Rpcs /\ m.item \in Nat BY <2>2 DEF WireMessage
  <2> HIDE DEF m
  <2>4. Completed(m) \in [Rpcs -> Seq(Nat)]
    <3>1. channel[m.id] \in Seq(Nat) BY <2>3 DEF ClientType
    <3>2. Append(channel[m.id], m.item) \in Seq(Nat) BY <2>3, <3>1, AppendProperties
    <3> QED BY <2>3, <3>2 DEF Completed, ClientType
  <2>5. in_flight' \subseteq Rpcs /\ channel' \in [Rpcs -> Seq(Nat)]
    BY <1>2, <2>4 DEF OnResponse, OnControl, OnItem, OnUnary, OnUnregistered, ClientType, m
  <2> QED BY <1>2, <2>1, <2>2, <2>5 DEF Response, WireType, ClientType, ServerType
<1>3. ASSUME ClientDrops, UNCHANGED serverVars PROVE TypeInv'
  <2>1. requests' \in Seq(WireMessage) BY <1>3, Cut DEF ClientDrops, WireType
  <2> QED BY <1>3, <2>1 DEF ClientDrops, WireType, ClientType, ServerType
<1>4. ASSUME OnInbound \/ ReplyRejected \/ ServerDrops, UNCHANGED clientVars PROVE TypeInv'
  <2>1. ClientType' BY <1>4 DEF ClientType
  <2>2. CASE OnInbound
    <3> DEFINE r == Head(requests).id
    <3>1. requests # <<>> /\ requests' = Tail(requests) /\ UNCHANGED <<responses, client_up, server_up>>
      BY <2>2 DEF OnInbound, Accept, Reject, Abort, AbortUntracked, Request
    <3>2. Tail(requests) \in Seq(WireMessage) /\ r \in Rpcs
      <4>1. Tail(requests) \in Seq(WireMessage) /\ Head(requests) \in WireMessage BY <3>1, Taken DEF WireType
      <4> QED BY <4>1 DEF WireMessage
    <3>3. WireType' BY <3>1, <3>2 DEF WireType
    <3>4. rejections \o Rejected(r) \in Seq(Rpcs)
      <4>1. Rejected(r) \in Seq(Rpcs) BY <3>2 DEF Rejected
      <4> QED BY <4>1, ConcatProperties DEF ServerType
    <3>5. CASE Accept BY <2>1, <3>2, <3>3, <3>5 DEF Accept, NewRpcStream, ServerType
    <3>6. CASE Reject BY <2>1, <3>3, <3>4, <3>6 DEF Reject, ServerType
    <3>7. CASE Abort BY <2>1, <3>3, <3>7 DEF Abort, ServerType
    <3>8. CASE AbortUntracked BY <2>1, <3>3, <3>8 DEF AbortUntracked, ServerType
    <3> QED BY <2>2, <3>5, <3>6, <3>7, <3>8 DEF OnInbound
  <2>3. CASE ReplyRejected
    <3>1. PICK n \in Nat \ {0} : n = Len(rejections) BY <2>3, EmptySeq DEF ReplyRejected, ServerType
    <3>2. PICK r \in Rpcs : r = rejections[n] BY <3>1, ElementOfSeq DEF ServerType
    <3>3. /\ responses' = Append(responses, Cancelled(r)) /\ UNCHANGED <<requests, client_up, server_up>>
          /\ replies' = [replies EXCEPT ![r] = Append(@, Cancelled(r))]
          /\ rejections' = SubSeq(rejections, 1, n - 1)
      BY <2>3, <3>1, <3>2 DEF ReplyRejected, Reply
    <3>4. responses' \in Seq(WireMessage) BY <3>3, Messages, AppendProperties DEF WireType
    <3>5. replies' \in [Rpcs -> Seq(WireMessage)]
      <4>1. replies[r] \in Seq(WireMessage) BY DEF ServerType
      <4>2. Append(replies[r], Cancelled(r)) \in Seq(WireMessage) BY <4>1, Messages, AppendProperties
      <4> QED BY <3>3, <4>2 DEF ServerType
    <3>6. rejections' \in Seq(Rpcs)
      <4>1. n - 1 \in 0 .. Len(rejections) BY <3>1
      <4> QED BY <3>3, <4>1, Cut DEF ServerType
    <3> QED BY <2>1, <2>3, <3>3, <3>4, <3>5, <3>6 DEF ReplyRejected, WireType, ServerType
  <2>4. CASE ServerDrops
    <3>1. responses' \in Seq(WireMessage) BY <2>4, Cut DEF ServerDrops, WireType
    <3>2. rejections' \in Seq(Rpcs) BY <2>4, EmptySeq DEF ServerDrops
    <3> QED BY <2>1, <2>4, <3>1, <3>2 DEF ServerDrops, WireType, ServerType
  <2> QED BY <1>4, <2>2, <2>3, <2>4
<1>5. ASSUME NEW r \in Rpcs, UNCHANGED clientVars, ServiceMakes(r) \/ ServiceEnds(r) \/ PollRpcPending(r)
      PROVE  TypeInv'
  <2>1. WireType' /\ ClientType'
    BY <1>5 DEF ServiceMakes, ServiceEnds, PollRpcPending, WireType, ClientType
  <2>2. CASE ServiceMakes(r)
    <3>1. /\ work' = [work EXCEPT ![r] = @ + 1] /\ made' = [made EXCEPT ![r] = @ + 1]
          /\ UNCHANGED <<rpcs, aborts, rejections, replies>>
      BY <2>2 DEF ServiceMakes
    <3>2. /\ work' \in [Rpcs -> Nat] /\ made' \in [Rpcs -> Nat]
          /\ \A q \in Rpcs : work'[q] <= made'[q]
      BY <3>1 DEF ServerType
    <3> QED BY <2>1, <3>1, <3>2 DEF ServerType
  <2>3. CASE ServiceEnds(r) \/ PollRpcPending(r)
    BY <2>1, <2>3 DEF ServiceEnds, PollRpcPending, ServerType
  <2> QED BY <1>5, <2>2, <2>3
<1>6. ASSUME NEW r \in Rpcs, NEW m, SendsItem(r, m) \/ SendsLast(r, m) PROVE TypeInv'
  <2>1. Sends(r, m) BY <1>6 DEF SendsItem, SendsLast
  <2>2. responses' \in Seq(WireMessage) BY <2>1, AppendProperties DEF Sends, WireType
  <2>3. replies' \in [Rpcs -> Seq(WireMessage)]
    <3>1. replies[r] \in Seq(WireMessage) BY DEF ServerType
    <3>2. Append(replies[r], m) \in Seq(WireMessage) BY <2>1, <3>1, AppendProperties DEF Sends
    <3> QED BY <2>1, <3>2 DEF Sends, ServerType
  <2>4. work' \in [Rpcs -> Nat] /\ \A q \in Rpcs : work'[q] <= made[q]
    <3>1. work[r] \in Nat /\ (work[r] > 0 => work[r] - 1 \in Nat /\ work[r] - 1 <= made[r]) BY DEF ServerType
    <3> QED BY <1>6, <3>1 DEF SendsItem, SendsLast, ServerType
  <2>5. rpcs' \subseteq Rpcs /\ aborts' \subseteq rpcs' BY <1>6 DEF SendsItem, SendsLast, ServerType
  <2> QED BY <2>1, <2>2, <2>3, <2>4, <2>5 DEF Sends, WireType, ClientType, ServerType
<1>7. CASE UNCHANGED vars BY <1>7 DEF vars, WireType, ClientType, ServerType
<1> QED BY <1>1, <1>2, <1>3, <1>4, <1>5, <1>6, <1>7, StepForms

(* The types hold of every rpc session. *)
THEOREM TypesHold == Spec => []TypeInv
BY TypeInit, TypeNext, PTL DEF Spec

-----------------------------------------------------------------------------
(* A cancellation reaches every rpc of the pool. *)

(* No step puts an rpc out of a cancellation's reach. *)
LEMMA ReachNext == TypeInv /\ CancelReaches /\ [Next]_vars => CancelReaches'
<1> SUFFICES ASSUME TypeInv, CancelReaches, [Next]_vars PROVE CancelReaches' OBVIOUS
<1> USE DEF CancelReaches, serverVars, serviceVars
<1>1. ASSUME UNCHANGED serverVars PROVE CancelReaches' BY <1>1
<1>2. CASE OnInbound
  BY <1>2 DEF OnInbound, Accept, NewRpcStream, Reject, Abort, AbortUntracked, WokenBy
<1>3. CASE ReplyRejected \/ ServerDrops BY <1>3 DEF ReplyRejected, ServerDrops
<1>4. ASSUME NEW r \in Rpcs, ServiceMakes(r) \/ ServiceEnds(r) \/ PollRpcPending(r) PROVE CancelReaches'
  BY <1>4 DEF ServiceMakes, ServiceEnds, PollRpcPending
<1>5. ASSUME NEW r \in Rpcs, NEW m, SendsItem(r, m) PROVE CancelReaches' BY <1>5 DEF SendsItem, Sends
<1>6. ASSUME NEW r \in Rpcs, NEW m, SendsLast(r, m) PROVE CancelReaches' BY <1>6 DEF SendsLast, Sends
<1>7. CASE UNCHANGED vars BY <1>1, <1>7 DEF vars
<1> QED BY <1>1, <1>2, <1>3, <1>4, <1>5, <1>6, <1>7, StepForms

(* No rpc of the pool is beyond the reach of a cancellation, however aborts race the *)
(* pool's polling (AbortionTracker, RpcAbortHandle::mark_aborted).                   *)
THEOREM CancellationReaches == Spec => []CancelReaches
<1>1. Init => CancelReaches BY DEF Init, ServerInit, CancelReaches
<1>2. TypeInv /\ CancelReaches /\ [Next]_vars => CancelReaches' BY ReachNext
<1> QED BY <1>1, <1>2, TypesHold, PTL DEF Spec

-----------------------------------------------------------------------------
(* Where an rpc that the client has in flight is. *)

(* Its request is on the way; it was refused and is not answered yet; its last word is *)
(* on the way.                                                                         *)
Requested(r) == \E i \in DOMAIN requests : requests[i].code = "normal" /\ requests[i].id = r
Refused(r) == \E i \in DOMAIN rejections : rejections[i] = r
LastWord(r) == \E i \in DOMAIN responses : responses[i].id = r /\ Terminal(r, responses[i])

Somewhere(r) == Requested(r) \/ Refused(r) \/ r \in rpcs \/ LastWord(r)

Tracked == client_up /\ server_up => \A r \in in_flight : Somewhere(r)

(* What adding to and taking from a channel does to these. *)
LEMMA RequestAdded ==
    ASSUME TypeInv, NEW m \in WireMessage, requests' = Append(requests, m), NEW r
    PROVE  Requested(r)' <=> Requested(r) \/ (m.code = "normal" /\ m.id = r)
<1>1. /\ Len(requests) \in Nat /\ DOMAIN requests = 1 .. Len(requests)
      /\ DOMAIN requests' = 1 .. Len(requests) + 1
      /\ \A i \in 1 .. Len(requests) : requests'[i] = requests[i]
      /\ requests'[Len(requests) + 1] = m
  BY Added DEF TypeInv, WireType
<1> QED BY <1>1 DEF Requested

(* Taking a message takes the request of no other rpc away. *)
LEMMA RequestTaken ==
    ASSUME TypeInv, requests # <<>>, requests' = Tail(requests), NEW r
    PROVE  /\ Requested(r)' => Requested(r)
           /\ Requested(r) => Requested(r)' \/ (Head(requests).code = "normal" /\ Head(requests).id = r)
<1>1. PICK n \in Nat \ {0} : n = Len(requests) BY Taken DEF TypeInv, WireType
<1>2. /\ DOMAIN requests = 1 .. n /\ DOMAIN requests' = 1 .. n - 1 /\ Head(requests) = requests[1]
      /\ \A i \in 1 .. n - 1 : requests'[i] = requests[i + 1]
  BY <1>1, Taken DEF TypeInv, WireType
<1>3. Requested(r)' => Requested(r)
  <2> SUFFICES ASSUME NEW i \in 1 .. n - 1, requests'[i].code = "normal", requests'[i].id = r
               PROVE  Requested(r)
    BY <1>2 DEF Requested
  <2>1. i + 1 \in 1 .. n BY <1>1
  <2> QED BY <1>2, <2>1 DEF Requested
<1>4. Requested(r) => Requested(r)' \/ (Head(requests).code = "normal" /\ Head(requests).id = r)
  <2> SUFFICES ASSUME NEW i \in 1 .. n, requests[i].code = "normal", requests[i].id = r, i # 1
               PROVE  Requested(r)'
    BY <1>2 DEF Requested
  <2>1. i - 1 \in 1 .. n - 1 /\ (i - 1) + 1 = i BY <1>1
  <2>2. requests'[i - 1] = requests[i] BY <1>2, <2>1
  <2> QED BY <1>2, <2>1, <2>2 DEF Requested
<1> QED BY <1>3, <1>4

(* A message is a last word only of its own rpc. *)
LEMMA LastWordAdded ==
    ASSUME TypeInv, NEW m \in WireMessage, responses' = Append(responses, m), NEW r
    PROVE  LastWord(r)' <=> LastWord(r) \/ (m.id = r /\ Terminal(r, m))
<1>1. /\ Len(responses) \in Nat /\ DOMAIN responses = 1 .. Len(responses)
      /\ DOMAIN responses' = 1 .. Len(responses) + 1
      /\ \A i \in 1 .. Len(responses) : responses'[i] = responses[i]
      /\ responses'[Len(responses) + 1] = m
  BY Added DEF TypeInv, WireType
<1> QED BY <1>1 DEF LastWord, Terminal

(* Taking a message takes the last word of no other rpc away. *)
LEMMA LastWordTaken ==
    ASSUME TypeInv, responses # <<>>, responses' = Tail(responses), NEW r
    PROVE  LastWord(r) => LastWord(r)' \/ (Head(responses).id = r /\ Terminal(r, Head(responses)))
<1>1. PICK n \in Nat \ {0} : n = Len(responses) BY Taken DEF TypeInv, WireType
<1>2. /\ DOMAIN responses = 1 .. n /\ DOMAIN responses' = 1 .. n - 1 /\ Head(responses) = responses[1]
      /\ \A i \in 1 .. n - 1 : responses'[i] = responses[i + 1]
  BY <1>1, Taken DEF TypeInv, WireType
<1> SUFFICES ASSUME NEW i \in 1 .. n, responses[i].id = r, Terminal(r, responses[i]), i # 1
             PROVE  LastWord(r)'
  BY <1>2 DEF LastWord
<1>3. i - 1 \in 1 .. n - 1 /\ (i - 1) + 1 = i BY <1>1
<1>4. responses'[i - 1] = responses[i] BY <1>2, <1>3
<1> QED BY <1>2, <1>3, <1>4 DEF LastWord, Terminal

(* One more rpc is refused; the one refused last is answered. *)
LEMMA RefusedAdded ==
    ASSUME TypeInv, NEW q \in Rpcs, rejections' = rejections \o Rejected(q), NEW r
    PROVE  /\ Refused(r)' <=> Refused(r) \/ r = q
           /\ rejections' = Append(rejections, q)
<1>1. rejections' = Append(rejections, q) BY AppendIsConcat DEF Rejected, TypeInv, ServerType
<1>2. /\ Len(rejections) \in Nat /\ DOMAIN rejections = 1 .. Len(rejections)
      /\ DOMAIN rejections' = 1 .. Len(rejections) + 1
      /\ \A i \in 1 .. Len(rejections) : rejections'[i] = rejections[i]
      /\ rejections'[Len(rejections) + 1] = q
  BY <1>1, Added DEF TypeInv, ServerType
<1> QED BY <1>1, <1>2 DEF Refused

(* The rejection that is answered is the one refused last; the others stay. *)
LEMMA RefusedAnswered ==
    ASSUME TypeInv, ReplyRejected
    PROVE  \E q \in Rpcs :
             /\ Refused(q) /\ q = rejections[Len(rejections)]
             /\ server_up
             /\ responses' = Append(responses, Cancelled(q))
             /\ replies' = [replies EXCEPT ![q] = Append(@, Cancelled(q))]
             /\ UNCHANGED <<requests, client_up, server_up, rpcs, woken, aborts, aborted, serviceVars>>
             /\ \A r : /\ Refused(r) => Refused(r)' \/ r = q
                       /\ Refused(r)' => Refused(r)
             /\ DOMAIN rejections = 1 .. Len(rejections) /\ Len(rejections) \in Nat \ {0}
             /\ DOMAIN rejections' = 1 .. Len(rejections) - 1
             /\ \A i \in 1 .. Len(rejections) - 1 : rejections'[i] = rejections[i]
<1>1. PICK n \in Nat \ {0} : n = Len(rejections) BY EmptySeq DEF ReplyRejected, TypeInv, ServerType
<1>2. PICK q \in Rpcs : q = rejections[n] BY <1>1, ElementOfSeq DEF TypeInv, ServerType
<1>3. /\ responses' = Append(responses, Cancelled(q)) /\ server_up
      /\ UNCHANGED <<requests, client_up, server_up, rpcs, woken, aborts, aborted, serviceVars>>
      /\ replies' = [replies EXCEPT ![q] = Append(@, Cancelled(q))]
      /\ rejections' = SubSeq(rejections, 1, n - 1)
  BY <1>1, <1>2 DEF ReplyRejected, Reply
<1>4. n - 1 \in 0 .. Len(rejections) BY <1>1
<1>5. /\ DOMAIN rejections = 1 .. n /\ DOMAIN rejections' = 1 .. n - 1
      /\ \A i \in 1 .. n - 1 : rejections'[i] = rejections[i]
  BY <1>1, <1>3, <1>4, Cut DEF TypeInv, ServerType
<1>6. Refused(q) BY <1>1, <1>2, <1>5 DEF Refused
<1>7. \A r : /\ Refused(r) => Refused(r)' \/ r = q
             /\ Refused(r)' => Refused(r)
  BY <1>1, <1>2, <1>5 DEF Refused
<1> QED BY <1>1, <1>2, <1>3, <1>5, <1>6, <1>7

(* No step loses an rpc that the client has in flight. *)
LEMMA TrackedNext == TypeInv /\ Tracked /\ [Next]_vars => Tracked'
<1> SUFFICES ASSUME TypeInv, Tracked, [Next]_vars, client_up', server_up', NEW r \in in_flight'
             PROVE  Somewhere(r)'
  BY DEF Tracked
<1> USE DEF Somewhere
<1>1. ASSUME r \in in_flight, client_up, server_up PROVE Somewhere(r) BY <1>1 DEF Tracked
<1>2. ASSUME NEW q \in Rpcs, UNCHANGED serverVars,
             \/ CheckAlive(q) \/ Submit(q) \/ DropCompletion(q) \/ Poll(q) \/ OnNew(q) \/ OnCancel(q)
      PROVE  Somewhere(r)'
  <2>1. Refused(r)' = Refused(r) /\ rpcs' = rpcs BY <1>2 DEF Refused, serverVars
  <2>2. CASE CheckAlive(q) \/ Submit(q) \/ DropCompletion(q) \/ Poll(q)
    <3>1. UNCHANGED <<requests, responses, client_up, server_up, in_flight>>
      BY <2>2 DEF CheckAlive, Submit, DropCompletion, Poll, PollUnary, PollItem, PollEmpty, PollFinished, PollPending, Resolve, wireVars
    <3> QED BY <1>1, <2>1, <3>1 DEF Requested, LastWord
  <2>3. CASE OnNew(q)
    <3>1. /\ requests' = Append(requests, Normal(q, 0)) /\ in_flight' = in_flight \cup {q}
          /\ UNCHANGED <<responses, client_up, server_up>>
      BY <2>3 DEF OnNew
    <3>2. Normal(q, 0) \in WireMessage /\ Normal(q, 0).code = "normal" /\ Normal(q, 0).id = q
      BY Messages DEF Normal
    <3>3. Requested(r)' <=> Requested(r) \/ q = r BY <3>1, <3>2, RequestAdded
    <3> QED BY <1>1, <2>1, <3>1, <3>3 DEF LastWord
  <2>4. CASE OnCancel(q)
    <3>1. /\ requests' = Append(requests, Cancelled(q)) /\ in_flight' = in_flight \ {q}
          /\ UNCHANGED <<responses, client_up, server_up>>
      BY <2>4 DEF OnCancel
    <3>2. Cancelled(q) \in WireMessage BY Messages
    <3>3. Requested(r) => Requested(r)' BY <3>1, <3>2, RequestAdded
    <3> QED BY <1>1, <2>1, <3>1, <3>3 DEF LastWord
  <2> QED BY <1>2, <2>2, <2>3, <2>4
<1>3. ASSUME OnResponse, UNCHANGED serverVars PROVE Somewhere(r)'
  <2>1. /\ responses # <<>> /\ responses' = Tail(responses)
        /\ UNCHANGED <<requests, client_up, server_up>>
    BY <1>3 DEF OnResponse, OnControl, OnItem, OnUnary, OnUnregistered, Response
  <2>2. Refused(r)' = Refused(r) /\ rpcs' = rpcs /\ Requested(r)' = Requested(r)
    BY <1>3, <2>1 DEF Refused, Requested, serverVars
  <2>3. r \in in_flight /\ ~(Head(responses).id = r /\ Terminal(r, Head(responses)))
    BY <1>3 DEF OnResponse, OnControl, OnItem, OnUnary, OnUnregistered, Terminal
  <2> QED BY <1>1, <2>1, <2>2, <2>3, LastWordTaken
<1>4. CASE ClientDrops \/ ServerDrops BY <1>4 DEF ClientDrops, ServerDrops
<1>5. ASSUME OnInbound, UNCHANGED clientVars PROVE Somewhere(r)'
  <2> DEFINE q == Head(requests).id
  <2>1. /\ requests # <<>> /\ requests' = Tail(requests) /\ UNCHANGED <<responses, client_up, server_up, in_flight>>
    BY <1>5 DEF OnInbound, Accept, Reject, Abort, AbortUntracked, Request, clientVars
  <2>2. LastWord(r)' = LastWord(r) BY <2>1 DEF LastWord
  <2>3. q \in Rpcs
    <3>1. Head(requests) \in WireMessage BY <2>1, Taken DEF TypeInv, WireType
    <3> QED BY <3>1 DEF WireMessage
  <2>4. Requested(r) => Requested(r)' \/ (Head(requests).code = "normal" /\ q = r) BY <2>1, RequestTaken
  <2> HIDE DEF q
  <2>5. CASE Accept
    <3>1. q \in rpcs' /\ rpcs \subseteq rpcs' /\ Refused(r)' = Refused(r)
      BY <2>5 DEF Accept, NewRpcStream, Refused, q
    <3> QED BY <1>1, <2>1, <2>2, <2>4, <3>1
  <2>6. CASE Reject
    <3>1. rejections' = rejections \o Rejected(q) /\ rpcs' = rpcs BY <2>6 DEF Reject, q
    <3>2. Refused(r)' <=> Refused(r) \/ r = q BY <2>3, <3>1, RefusedAdded
    <3> QED BY <1>1, <2>1, <2>2, <2>4, <3>1, <3>2
  <2>7. CASE Abort \/ AbortUntracked
    <3>1. rpcs' = rpcs /\ Refused(r)' = Refused(r) /\ Head(requests).code = "cancel"
      BY <2>7 DEF Abort, AbortUntracked, Request, serverVars, Refused
    <3> QED BY <1>1, <2>1, <2>2, <2>4, <3>1
  <2> QED BY <1>5, <2>5, <2>6, <2>7 DEF OnInbound
<1>6. ASSUME ReplyRejected, UNCHANGED clientVars PROVE Somewhere(r)'
  <2>1. PICK q \in Rpcs :
           /\ responses' = Append(responses, Cancelled(q))
           /\ UNCHANGED <<requests, client_up, server_up, rpcs>>
           /\ Refused(r) => Refused(r)' \/ r = q
    BY <1>6, RefusedAnswered
  <2>2. Cancelled(q) \in WireMessage /\ Cancelled(q).id = q /\ Terminal(q, Cancelled(q))
    BY Messages DEF Cancelled, Terminal
  <2>3. LastWord(r)' <=> LastWord(r) \/ (q = r /\ Terminal(r, Cancelled(q))) BY <2>1, <2>2, LastWordAdded
  <2>4. Requested(r)' = Requested(r) /\ in_flight' = in_flight BY <1>6, <2>1 DEF Requested, clientVars
  <2> QED BY <1>1, <2>1, <2>2, <2>3, <2>4
<1>7. ASSUME NEW q \in Rpcs, UNCHANGED clientVars, ServiceMakes(q) \/ ServiceEnds(q) \/ PollRpcPending(q)
      PROVE  Somewhere(r)'
  BY <1>1, <1>7 DEF ServiceMakes, ServiceEnds, PollRpcPending, wireVars, clientVars, Requested, LastWord, Refused
<1>8. ASSUME NEW q \in Rpcs, NEW m, SendsItem(q, m) \/ SendsLast(q, m) PROVE Somewhere(r)'
  <2>1. /\ m \in WireMessage /\ m.id = q /\ responses' = Append(responses, m)
        /\ UNCHANGED <<requests, client_up, server_up, rejections, in_flight>>
    BY <1>8 DEF SendsItem, SendsLast, Sends, clientVars
  <2>2. LastWord(r)' <=> LastWord(r) \/ (q = r /\ Terminal(r, m)) BY <2>1, LastWordAdded
  <2>3. r \in rpcs => r \in rpcs' \/ (q = r /\ Terminal(r, m)) BY <1>8 DEF SendsItem, SendsLast
  <2> QED BY <1>1, <2>1, <2>2, <2>3 DEF Requested, Refused
<1>9. CASE UNCHANGED vars
  BY <1>1, <1>9 DEF vars, wireVars, clientVars, serverVars, Requested, LastWord, Refused
<1> QED BY <1>2, <1>3, <1>4, <1>5, <1>6, <1>7, <1>8, <1>9, StepForms

(* While both connections are open, every rpc in the client's registry has its request on the *)
(* way, is refused, is in the server's pool, or has its last word on the way                  *)
(* (CompletionRegistry, RpcSubmitter).                                                        *)
THEOREM TrackedHolds == Spec => []Tracked
<1>1. Init => Tracked BY DEF Init, ClientInit, Tracked
<1>2. TypeInv /\ Tracked /\ [Next]_vars => Tracked' BY TrackedNext
<1> QED BY <1>1, <1>2, TypesHold, PTL DEF Spec

(* While both connections are open no completion waits in the registry for an rpc that *)
(* neither is on its way nor is known to the server (CompletionRegistry, RpcSubmitter). *)
THEOREM RegistryIsServed == Spec => []InFlightIsServed
<1>1. Tracked => InFlightIsServed
  BY DEF Tracked, Somewhere, Requested, Refused, LastWord, InFlightIsServed, OnWire
<1> QED BY <1>1, TrackedHolds, PTL

(* With both ends open, nothing on the way and an empty pool, the registry and the abort *)
(* handles are empty (CompletionRegistry, AbortionTracker).                              *)
THEOREM QuietLeavesNothing == Spec => []QuietIsClean
<1>1. TypeInv /\ Tracked => QuietIsClean
  <2> SUFFICES ASSUME TypeInv, Tracked, client_up, server_up, requests = <<>>, responses = <<>>,
                      rpcs = {}, rejections = <<>>
               PROVE  in_flight = {} /\ aborts = {}
    BY DEF QuietIsClean
  <2>1. \A r : ~Somewhere(r)
    <3>1. DOMAIN requests = {} /\ DOMAIN responses = {} /\ DOMAIN rejections = {} OBVIOUS
    <3> QED BY <3>1 DEF Somewhere, Requested, Refused, LastWord
  <2>2. aborts = {} BY DEF TypeInv, ServerType
  <2> QED BY <2>1, <2>2 DEF Tracked
<1> QED BY <1>1, TypesHold, TrackedHolds, PTL

-----------------------------------------------------------------------------
(* An rpc is requested once, served once and answered once. *)

(* The request of r has not left the client; the server knows nothing of r. *)
Unsent(r) == user[r] \in {"idle", "sending"} \/ New(r) \in queue
Fresh(r) == r \notin rpcs /\ ~Refused(r) /\ replies[r] = <<>> /\ made[r] = 0

SingleRequest ==
    \A i, j \in DOMAIN requests :
        requests[i].code = "normal" /\ requests[j].code = "normal" /\ requests[i].id = requests[j].id => i = j

OneRequest ==
    /\ \A r \in Rpcs : user[r] \in {"idle", "sending"} => New(r) \notin queue
    /\ \A r \in Rpcs : Unsent(r) => ~Requested(r)
    /\ \A r \in Rpcs : Unsent(r) \/ Requested(r) => Fresh(r)
    /\ SingleRequest

SingleRefusal == \A i, j \in DOMAIN rejections : rejections[i] = rejections[j] => i = j

OneServing ==
    /\ SingleRefusal
    /\ \A r \in Rpcs : Refused(r) => replies[r] = <<>> /\ r \notin rpcs
    /\ \A r \in rpcs : \A i \in DOMAIN replies[r] : ~Terminal(r, replies[r][i])

OnceInv == OneRequest /\ OneServing /\ OneTerminal

(* A request for an rpc that has none on the way. *)
LEMMA SingleAdded ==
    ASSUME TypeInv, SingleRequest, NEW m \in WireMessage, requests' = Append(requests, m),
           m.code = "normal" => ~Requested(m.id)
    PROVE  SingleRequest'
<1>1. PICK n \in Nat : n = Len(requests) BY Added DEF TypeInv, WireType
<1>2. /\ DOMAIN requests = 1 .. n /\ DOMAIN requests' = 1 .. n + 1
      /\ \A i \in 1 .. n : requests'[i] = requests[i]
      /\ requests'[n + 1] = m
  BY <1>1, Added DEF TypeInv, WireType
<1>3. \A i \in 1 .. n + 1 : i \in 1 .. n \/ i = n + 1 OBVIOUS
<1> QED BY <1>2, <1>3 DEF SingleRequest, Requested

(* The request that is taken was the only one of its rpc. *)
LEMMA SingleTaken ==
    ASSUME TypeInv, SingleRequest, requests # <<>>, requests' = Tail(requests),
           NEW q, q = Head(requests).id
    PROVE  /\ SingleRequest'
           /\ Head(requests).code = "normal" => Requested(q) /\ ~Requested(q)'
<1>1. PICK n \in Nat \ {0} : n = Len(requests) BY Taken DEF TypeInv, WireType
<1>2. /\ DOMAIN requests = 1 .. n /\ DOMAIN requests' = 1 .. n - 1 /\ Head(requests) = requests[1]
      /\ \A i \in 1 .. n - 1 : requests'[i] = requests[i + 1]
  BY <1>1, Taken DEF TypeInv, WireType
<1>3. \A i \in 1 .. n - 1 : i + 1 \in 1 .. n /\ i + 1 # 1 BY <1>1
<1>4. SingleRequest'
  <2> SUFFICES ASSUME NEW i \in 1 .. n - 1, NEW j \in 1 .. n - 1,
                      requests'[i].code = "normal", requests'[j].code = "normal",
                      requests'[i].id = requests'[j].id
               PROVE  i = j
    BY <1>2 DEF SingleRequest
  <2>1. i + 1 = j + 1 BY <1>2, <1>3 DEF SingleRequest
  <2> QED BY <2>1
<1>5. ASSUME Head(requests).code = "normal" PROVE Requested(q) /\ ~Requested(q)'
  <2>1. 1 \in 1 .. n /\ requests[1].code = "normal" /\ requests[1].id = q BY <1>1, <1>2, <1>5
  <2>2. Requested(q) BY <1>2, <2>1 DEF Requested
  <2>3. ASSUME NEW i \in 1 .. n - 1, requests'[i].code = "normal", requests'[i].id = q PROVE FALSE
    <3>1. requests[i + 1].code = "normal" /\ requests[i + 1].id = q /\ i + 1 \in 1 .. n /\ i + 1 # 1
      BY <1>2, <1>3, <2>3
    <3> QED BY <1>2, <2>1, <3>1 DEF SingleRequest
  <2> QED BY <1>2, <2>2, <2>3 DEF Requested
<1> QED BY <1>4, <1>5

(* A step that changes neither what the server knows nor the requests. *)
LEMMA OnceElsewhere ==
    ASSUME OnceInv, UNCHANGED <<requests, rpcs, rejections, replies, made>>,
           \A r \in Rpcs : Unsent(r)' => Unsent(r),
           \A r \in Rpcs : user'[r] \in {"idle", "sending"} => New(r) \notin queue'
    PROVE  OnceInv'
<1>1. \A r : (Requested(r)' <=> Requested(r)) /\ (Refused(r)' <=> Refused(r)) /\ (Fresh(r)' <=> Fresh(r))
  BY DEF Requested, Refused, Fresh
<1>2. OneRequest' BY <1>1 DEF OnceInv, OneRequest, SingleRequest
<1>3. OneServing' BY <1>1 DEF OnceInv, OneServing, SingleRefusal
<1>4. OneTerminal' BY DEF OnceInv, OneTerminal
<1> QED BY <1>2, <1>3, <1>4 DEF OnceInv

(* The callers' steps: a request is submitted once. *)
LEMMA OnceCalls ==
    ASSUME TypeInv, OnceInv, UNCHANGED serverVars, NEW q \in Rpcs,
           \/ CheckAlive(q) \/ Submit(q) \/ DropCompletion(q) \/ Poll(q)
    PROVE  OnceInv'
<1>1. UNCHANGED <<requests, rpcs, rejections, replies, made>>
  BY DEF CheckAlive, Submit, DropCompletion, Poll, PollUnary, PollItem, PollEmpty, PollFinished, PollPending, Resolve,
         wireVars, serverVars
<1>2. \A r \in Rpcs : user[r] \in {"idle", "sending"} => New(r) \notin queue BY DEF OnceInv, OneRequest
<1>3. \A r, p \in Rpcs : New(r) # Cancel(p) /\ (New(r) = New(p) => r = p) BY DEF New, Cancel
<1>4. user \in [Rpcs -> {"idle", "sending", "waiting", "resolved", "dropped"}] BY DEF TypeInv, ClientType
<1>5. /\ \A r \in Rpcs : Unsent(r)' => Unsent(r)
      /\ \A r \in Rpcs : user'[r] \in {"idle", "sending"} => New(r) \notin queue'
  <2>1. CASE CheckAlive(q) BY <1>2, <1>4, <2>1 DEF CheckAlive, Unsent
  <2>2. CASE Submit(q) BY <1>2, <1>3, <1>4, <2>2 DEF Submit, Unsent
  <2>3. CASE DropCompletion(q) BY <1>2, <1>3, <1>4, <2>3 DEF DropCompletion, Unsent
  <2>4. CASE Poll(q)
    BY <1>2, <1>4, <2>4 DEF Poll, PollUnary, PollItem, PollEmpty, PollFinished, PollPending, Resolve, Unsent
  <2> QED BY <2>1, <2>2, <2>3, <2>4
<1> QED BY <1>1, <1>5, OnceElsewhere

(* The client sends a request or a cancellation, or what it sent last is lost. *)
LEMMA OnceClient ==
    ASSUME TypeInv, OnceInv, UNCHANGED serverVars,
           ClientDrops \/ \E q \in Rpcs : OnNew(q) \/ OnCancel(q)
    PROVE  OnceInv'
<1> USE DEF serverVars
<1>1. \A r : Refused(r)' <=> Refused(r) BY DEF Refused
<1>2. OneServing' /\ OneTerminal' BY <1>1 DEF OnceInv, OneServing, SingleRefusal, OneTerminal
<1>3. \A r : Fresh(r)' <=> Fresh(r) BY <1>1 DEF Fresh
<1>4. OneRequest BY DEF OnceInv
<1>5. ASSUME NEW q \in Rpcs, OnNew(q) PROVE OneRequest'
  <2>1. /\ requests' = Append(requests, Normal(q, 0)) /\ queue' = queue \ {New(q)} /\ user' = user
        /\ New(q) \in queue
    BY <1>5 DEF OnNew
  <2>2. Normal(q, 0) \in WireMessage /\ Normal(q, 0).code = "normal" /\ Normal(q, 0).id = q
    BY Messages DEF Normal
  <2>3. \A r : Requested(r)' <=> Requested(r) \/ q = r BY <2>1, <2>2, RequestAdded
  <2>4. \A r \in Rpcs : Unsent(r)' => Unsent(r) /\ r # q BY <1>4, <2>1 DEF Unsent, OneRequest
  <2>5. Fresh(q) /\ ~Requested(q) BY <1>4, <2>1 DEF OneRequest, Unsent
  <2>6. SingleRequest' BY <1>4, <2>1, <2>2, <2>5, SingleAdded DEF OneRequest
  <2> QED BY <1>3, <1>4, <2>1, <2>3, <2>4, <2>5, <2>6 DEF OneRequest
<1>6. ASSUME NEW q \in Rpcs, OnCancel(q) PROVE OneRequest'
  <2>1. requests' = Append(requests, Cancelled(q)) /\ queue' = queue \ {Cancel(q)} /\ user' = user
    BY <1>6 DEF OnCancel
  <2>2. Cancelled(q) \in WireMessage /\ Cancelled(q).code # "normal" BY Messages DEF Cancelled
  <2>3. \A r : Requested(r)' <=> Requested(r) BY <2>1, <2>2, RequestAdded
  <2>4. \A r \in Rpcs : Unsent(r)' => Unsent(r) BY <2>1 DEF Unsent
  <2>5. SingleRequest' BY <1>4, <2>1, <2>2, SingleAdded DEF OneRequest
  <2> QED BY <1>3, <1>4, <2>1, <2>3, <2>4, <2>5 DEF OneRequest
<1>7. ASSUME ClientDrops PROVE OneRequest'
  <2>1. PICK n \in 0 .. Len(requests) : requests' = SubSeq(requests, 1, n) BY <1>7 DEF ClientDrops
  <2>2. /\ DOMAIN requests = 1 .. Len(requests) /\ DOMAIN requests' = 1 .. n /\ Len(requests) \in Nat
        /\ \A i \in 1 .. n : requests'[i] = requests[i] /\ i \in 1 .. Len(requests)
    BY <2>1, Cut DEF TypeInv, WireType
  <2>3. \A r : Requested(r)' => Requested(r) BY <2>2 DEF Requested
  <2>4. SingleRequest' BY <1>4, <2>2 DEF OneRequest, SingleRequest
  <2>5. user' = user /\ queue' \subseteq queue BY <1>7 DEF ClientDrops
  <2> QED BY <1>3, <1>4, <2>3, <2>4, <2>5 DEF OneRequest, Unsent
<1> QED BY <1>2, <1>5, <1>6, <1>7 DEF OnceInv

(* The server takes a request: it is the only one of its rpc, and new to the server. *)
LEMMA OnceInbound ==
    ASSUME TypeInv, OnceInv, OnInbound, UNCHANGED clientVars
    PROVE  OnceInv'
<1>1. PICK q : q = Head(requests).id OBVIOUS
<1>2. requests # <<>> /\ requests' = Tail(requests) /\ UNCHANGED <<replies, made, user, queue>>
  BY DEF OnInbound, Accept, Reject, Abort, AbortUntracked, Request, serverVars, serviceVars, clientVars
<1>3. q \in Rpcs
  <2>1. Head(requests) \in WireMessage BY <1>2, Taken DEF TypeInv, WireType
  <2> QED BY <1>1, <2>1 DEF WireMessage
<1>4. OneRequest /\ OneServing BY DEF OnceInv
<1>5. SingleRequest' /\ (Head(requests).code = "normal" => Requested(q) /\ ~Requested(q)')
  BY <1>1, <1>2, <1>4, SingleTaken DEF OneRequest
<1>6. \A r : Requested(r)' => Requested(r) BY <1>2, RequestTaken
<1>7. \A r \in Rpcs : Unsent(r)' <=> Unsent(r) BY <1>2 DEF Unsent
<1>8. OneTerminal' BY <1>2 DEF OnceInv, OneTerminal
<1>9. CASE Accept
  <2>1. Head(requests).code = "normal" /\ rpcs' = rpcs \cup {q} /\ rejections' = rejections
    BY <1>1, <1>9 DEF Accept, NewRpcStream, Request
  <2>2. \A r : Refused(r)' <=> Refused(r) BY <2>1 DEF Refused
  <2>3. Fresh(q) /\ ~Unsent(q) BY <1>3, <1>4, <1>5, <2>1 DEF OneRequest
  <2>4. \A r \in Rpcs : r # q => (Fresh(r)' <=> Fresh(r)) BY <1>2, <2>1, <2>2 DEF Fresh
  <2>5. \A r \in Rpcs : Unsent(r)' \/ Requested(r)' => r # q BY <1>5, <1>7, <2>1, <2>3
  <2>6. OneRequest' BY <1>2, <1>4, <1>5, <1>6, <1>7, <2>4, <2>5 DEF OneRequest
  <2>7. OneServing'
    <3>1. DOMAIN replies[q] = {} BY <2>3 DEF Fresh
    <3> QED BY <1>2, <1>4, <2>1, <2>2, <2>3, <3>1 DEF OneServing, SingleRefusal, Fresh
  <2> QED BY <1>8, <2>6, <2>7 DEF OnceInv
<1>10. CASE Reject
  <2>1. Head(requests).code = "normal" /\ rpcs' = rpcs /\ rejections' = rejections \o Rejected(q)
    BY <1>1, <1>10 DEF Reject, Request
  <2>2. \A r : Refused(r)' <=> Refused(r) \/ r = q BY <1>3, <2>1, RefusedAdded
  <2>3. Fresh(q) /\ ~Unsent(q) BY <1>3, <1>4, <1>5, <2>1 DEF OneRequest
  <2>4. \A r \in Rpcs : r # q => (Fresh(r)' <=> Fresh(r)) BY <1>2, <2>1, <2>2 DEF Fresh
  <2>5. \A r \in Rpcs : Unsent(r)' \/ Requested(r)' => r # q BY <1>5, <1>7, <2>1, <2>3
  <2>6. OneRequest' BY <1>2, <1>4, <1>5, <1>6, <1>7, <2>4, <2>5 DEF OneRequest
  <2>7. SingleRefusal'
    <3>1. rejections' = Append(rejections, q) BY <1>3, <2>1, RefusedAdded
    <3>2. PICK n \in Nat : n = Len(rejections) BY LenProperties DEF TypeInv, ServerType
    <3>3. /\ DOMAIN rejections = 1 .. n /\ DOMAIN rejections' = 1 .. n + 1
          /\ \A i \in 1 .. n : rejections'[i] = rejections[i]
          /\ rejections'[n + 1] = q
      BY <1>3, <3>1, <3>2, Added DEF TypeInv, ServerType
    <3>4. \A i \in 1 .. n + 1 : i \in 1 .. n \/ i = n + 1 OBVIOUS
    <3>5. \A i \in 1 .. n : rejections[i] # q BY <2>3, <3>3 DEF Fresh, Refused
    <3> QED BY <1>4, <3>3, <3>4, <3>5 DEF OneServing, SingleRefusal
  <2>8. OneServing' BY <1>2, <1>4, <2>1, <2>2, <2>3, <2>7 DEF OneServing, Fresh
  <2> QED BY <1>8, <2>6, <2>8 DEF OnceInv
<1>11. CASE Abort \/ AbortUntracked
  <2>1. rpcs' = rpcs /\ rejections' = rejections BY <1>11 DEF Abort, AbortUntracked, serverVars
  <2>2. \A r : (Refused(r)' <=> Refused(r)) BY <2>1 DEF Refused
  <2>3. \A r : Fresh(r)' <=> Fresh(r) BY <1>2, <2>1, <2>2 DEF Fresh
  <2>4. OneRequest' BY <1>2, <1>4, <1>5, <1>6, <1>7, <2>3 DEF OneRequest
  <2>5. OneServing' BY <1>2, <1>4, <2>1, <2>2 DEF OneServing, SingleRefusal
  <2> QED BY <1>8, <2>4, <2>5 DEF OnceInv
<1> QED BY <1>9, <1>10, <1>11 DEF OnInbound

(* The server sends a message for an rpc it knows and has not given its last word. *)
LEMMA OnceReplies ==
    ASSUME TypeInv, OnceInv, NEW q \in Rpcs, NEW m \in WireMessage,
           replies' = [replies EXCEPT ![q] = Append(@, m)],
           UNCHANGED <<requests, user, queue, made>>,
           ~Fresh(q), \A i \in DOMAIN replies[q] : ~Terminal(q, replies[q][i]),
           rpcs' \subseteq rpcs, q \in rpcs' => ~Terminal(q, m),
           SingleRefusal', ~Refused(q)', \A r : Refused(r)' => Refused(r)
    PROVE  OnceInv'
<1>1. replies \in [Rpcs -> Seq(WireMessage)] /\ replies[q] \in Seq(WireMessage) BY DEF TypeInv, ServerType
<1>2. /\ \A r \in Rpcs : r # q => replies'[r] = replies[r]
      /\ replies'[q] = Append(replies[q], m)
  BY <1>1
<1>3. OneRequest /\ OneServing /\ OneTerminal BY DEF OnceInv
<1>4. PICK n \in Nat : n = Len(replies[q]) BY <1>1, LenProperties
<1>5. /\ DOMAIN replies[q] = 1 .. n /\ DOMAIN replies'[q] = 1 .. n + 1 /\ Len(replies'[q]) = n + 1
      /\ \A i \in 1 .. n : replies'[q][i] = replies[q][i]
      /\ replies'[q][n + 1] = m
  BY <1>1, <1>2, <1>4, Added, AppendProperties
<1>6. \A i \in 1 .. n + 1 : i \in 1 .. n \/ i = n + 1 OBVIOUS
<1>7. OneRequest'
  <2>1. \A r \in Rpcs : /\ Unsent(r)' <=> Unsent(r)
                        /\ Requested(r)' <=> Requested(r)
    BY DEF Unsent, Requested
  <2>2. \A r \in Rpcs : Fresh(r) => r # q /\ Fresh(r)' BY <1>2 DEF Fresh
  <2> QED BY <1>3, <2>1, <2>2 DEF OneRequest, SingleRequest
<1>8. OneServing'
  <2>1. \A r \in Rpcs : Refused(r)' => replies'[r] = <<>> /\ r \notin rpcs' BY <1>2, <1>3 DEF OneServing
  <2>2. ASSUME NEW r \in rpcs', NEW i \in DOMAIN replies'[r] PROVE ~Terminal(r, replies'[r][i])
    <3>1. r \in rpcs /\ r \in Rpcs BY DEF TypeInv, ServerType
    <3>2. CASE r = q BY <1>5, <1>6, <2>2, <3>2
    <3>3. CASE r # q BY <1>2, <1>3, <2>2, <3>1, <3>3 DEF OneServing
    <3> QED BY <3>2, <3>3
  <2>3. \A r \in rpcs' : \A i \in DOMAIN replies'[r] : ~Terminal(r, replies'[r][i]) BY <2>2
  <2> QED BY <2>1, <2>3 DEF OneServing, Terminal
<1>9. OneTerminal'
  <2>1. ASSUME NEW r \in Rpcs, NEW i \in DOMAIN replies'[r], Terminal(r, replies'[r][i])
        PROVE  i = Len(replies'[r])
    <3>1. CASE r = q BY <1>5, <1>6, <2>1, <3>1
    <3>2. CASE r # q BY <1>2, <1>3, <2>1, <3>2 DEF OneTerminal
    <3> QED BY <3>1, <3>2
  <2> QED BY <2>1 DEF OneTerminal, Terminal
<1> QED BY <1>7, <1>8, <1>9 DEF OnceInv

(* Every step keeps an rpc requested, served and answered at most once. *)
LEMMA OnceNext == TypeInv /\ OnceInv /\ [Next]_vars => OnceInv'
<1> SUFFICES ASSUME TypeInv, OnceInv, [Next]_vars PROVE OnceInv' OBVIOUS
<1>0. OneRequest /\ OneServing BY DEF OnceInv
<1>1. ASSUME NEW q \in Rpcs, UNCHANGED serverVars,
             \/ CheckAlive(q) \/ Submit(q) \/ DropCompletion(q) \/ Poll(q) \/ OnNew(q) \/ OnCancel(q)
      PROVE  OnceInv'
  BY <1>1, OnceCalls, OnceClient
<1>2. ASSUME OnResponse, UNCHANGED serverVars PROVE OnceInv'
  <2>1. UNCHANGED <<requests, user, queue, rpcs, rejections, replies, made>>
    BY <1>2 DEF OnResponse, OnControl, OnItem, OnUnary, OnUnregistered, Response, serverVars
  <2>2. \A r \in Rpcs : Unsent(r)' => Unsent(r) BY <2>1 DEF Unsent
  <2>3. \A r \in Rpcs : user'[r] \in {"idle", "sending"} => New(r) \notin queue'
    BY <1>0, <2>1 DEF OneRequest
  <2> QED BY <2>1, <2>2, <2>3, OnceElsewhere
<1>3. ASSUME ClientDrops, UNCHANGED serverVars PROVE OnceInv' BY <1>3, OnceClient
<1>4. ASSUME OnInbound, UNCHANGED clientVars PROVE OnceInv' BY <1>4, OnceInbound
<1>5. ASSUME ReplyRejected, UNCHANGED clientVars PROVE OnceInv'
  <2>1. PICK q \in Rpcs :
             /\ Refused(q) /\ q = rejections[Len(rejections)]
             /\ replies' = [replies EXCEPT ![q] = Append(@, Cancelled(q))]
             /\ UNCHANGED <<requests, rpcs, serviceVars>>
             /\ \A r : Refused(r)' => Refused(r)
             /\ DOMAIN rejections = 1 .. Len(rejections) /\ Len(rejections) \in Nat \ {0}
             /\ DOMAIN rejections' = 1 .. Len(rejections) - 1
             /\ \A i \in 1 .. Len(rejections) - 1 : rejections'[i] = rejections[i]
    BY <1>5, RefusedAnswered
  <2>2. PICK n \in Nat \ {0} : n = Len(rejections) BY <2>1
  <2>3. \A i \in 1 .. n - 1 : i \in 1 .. n /\ i # n BY <2>2
  <2>4. n \in 1 .. n BY <2>2
  <2>5. SingleRefusal' BY <1>0, <2>1, <2>2, <2>3 DEF OneServing, SingleRefusal
  <2>6. ~Refused(q)'
    <3>1. rejections[n] = q /\ DOMAIN rejections = 1 .. n /\ DOMAIN rejections' = 1 .. n - 1 BY <2>1, <2>2
    <3>2. \A i \in 1 .. n - 1 : rejections'[i] = rejections[i] BY <2>1, <2>2
    <3>3. \A i \in 1 .. n - 1 : rejections[i] # q
      BY <1>0, <2>3, <2>4, <3>1 DEF OneServing, SingleRefusal
    <3> QED BY <3>1, <3>2, <3>3 DEF Refused
  <2>7. ~Fresh(q) /\ q \notin rpcs BY <1>0, <2>1 DEF Fresh, OneServing
  <2>8. DOMAIN replies[q] = {} BY <1>0, <2>1 DEF OneServing
  <2>9. Cancelled(q) \in WireMessage BY Messages
  <2>10. UNCHANGED <<requests, user, queue, made>> BY <1>5, <2>1 DEF clientVars, serviceVars
  <2> QED BY <2>1, <2>5, <2>6, <2>7, <2>8, <2>9, <2>10, OnceReplies
<1>6. ASSUME ServerDrops, UNCHANGED clientVars PROVE OnceInv'
  <2>1. /\ rpcs' = {} /\ DOMAIN rejections' = {}
        /\ UNCHANGED <<requests, user, queue, replies, made>>
    BY <1>6 DEF ServerDrops, clientVars, serviceVars
  <2>2. \A r : ~Refused(r)' BY <2>1 DEF Refused
  <2>3. OneRequest'
    <3>1. \A r : (Unsent(r)' <=> Unsent(r)) /\ (Requested(r)' <=> Requested(r)) /\ (Fresh(r) => Fresh(r)')
      BY <2>1, <2>2 DEF Unsent, Requested, Fresh
    <3> QED BY <1>0, <2>1, <3>1 DEF OneRequest, SingleRequest
  <2>4. OneServing' BY <2>1, <2>2 DEF OneServing, SingleRefusal
  <2>5. OneTerminal' BY <2>1 DEF OnceInv, OneTerminal
  <2> QED BY <2>3, <2>4, <2>5 DEF OnceInv
<1>7. ASSUME NEW q \in Rpcs, UNCHANGED clientVars, ServiceMakes(q) \/ ServiceEnds(q) \/ PollRpcPending(q)
      PROVE  OnceInv'
  <2>1. /\ q \in rpcs /\ UNCHANGED <<requests, user, queue, rpcs, rejections, replies>>
        /\ made' = made \/ made' = [made EXCEPT ![q] = @ + 1]
    BY <1>7 DEF ServiceMakes, ServiceEnds, PollRpcPending, Polled, clientVars, serviceVars, wireVars
  <2>2. \A r : (Unsent(r)' <=> Unsent(r)) /\ (Requested(r)' <=> Requested(r)) /\ (Refused(r)' <=> Refused(r))
    BY <2>1 DEF Unsent, Requested, Refused
  <2>3. \A r \in Rpcs : Fresh(r) => Fresh(r)'
    <3>1. made \in [Rpcs -> Nat] BY DEF TypeInv, ServerType
    <3> QED BY <2>1, <2>2, <3>1 DEF Fresh
  <2>4. OneRequest' BY <1>0, <2>1, <2>2, <2>3 DEF OneRequest, SingleRequest
  <2>5. OneServing' BY <1>0, <2>1, <2>2 DEF OneServing, SingleRefusal
  <2>6. OneTerminal' BY <2>1 DEF OnceInv, OneTerminal
  <2> QED BY <2>4, <2>5, <2>6 DEF OnceInv
<1>8. ASSUME NEW q \in Rpcs, NEW m, SendsItem(q, m) \/ SendsLast(q, m) PROVE OnceInv'
  <2>1. /\ q \in rpcs /\ m \in WireMessage
        /\ replies' = [replies EXCEPT ![q] = Append(@, m)]
        /\ UNCHANGED <<requests, user, queue, made, rejections>>
    BY <1>8 DEF SendsItem, SendsLast, Sends, clientVars
  <2>2. rpcs' \subseteq rpcs /\ (q \in rpcs' => ~Terminal(q, m))
    BY <1>8 DEF SendsItem, SendsLast, Terminal
  <2>3. \A r : Refused(r)' <=> Refused(r) BY <2>1 DEF Refused
  <2>4. SingleRefusal' /\ ~Refused(q) BY <1>0, <2>1 DEF OneServing, SingleRefusal
  <2>5. \A i \in DOMAIN replies[q] : ~Terminal(q, replies[q][i]) BY <1>0, <2>1 DEF OneServing
  <2>6. ~Fresh(q) BY <2>1 DEF Fresh
  <2> QED BY <2>1, <2>2, <2>3, <2>4, <2>5, <2>6, OnceReplies
<1>9. CASE UNCHANGED vars
  <2>1. UNCHANGED <<requests, user, queue, rpcs, rejections, replies, made>>
    BY <1>9 DEF vars, wireVars, clientVars, serverVars
  <2>2. \A r \in Rpcs : Unsent(r)' => Unsent(r) BY <2>1 DEF Unsent
  <2>3. \A r \in Rpcs : user'[r] \in {"idle", "sending"} => New(r) \notin queue'
    BY <1>0, <2>1 DEF OneRequest
  <2> QED BY <2>1, <2>2, <2>3, OnceElsewhere
<1> QED BY <1>1, <1>2, <1>3, <1>4, <1>5, <1>6, <1>7, <1>8, <1>9, StepForms

(* A new session has no requests. *)
LEMMA OnceInit == Init => OnceInv
<1> SUFFICES ASSUME Init PROVE OnceInv OBVIOUS
<1>1. /\ requests = <<>> /\ queue = {} /\ rpcs = {} /\ rejections = <<>>
      /\ \A r \in Rpcs : replies[r] = <<>> /\ made[r] = 0
  BY DEF Init, WireInit, ClientInit, ServerInit
<1>2. DOMAIN requests = {} /\ DOMAIN rejections = {} /\ \A r \in Rpcs : DOMAIN replies[r] = {} BY <1>1
<1>3. \A r : ~Requested(r) /\ ~Refused(r) BY <1>2 DEF Requested, Refused
<1>4. \A r \in Rpcs : Fresh(r) BY <1>1, <1>3 DEF Fresh
<1> QED BY <1>1, <1>2, <1>3, <1>4 DEF OnceInv, OneRequest, SingleRequest, OneServing, SingleRefusal, OneTerminal

(* An rpc is requested once, is either refused or served, and not both, and has no last *)
(* word while it is in the pool (RpcSubmitter: rejections and the FuturesUnordered).    *)
THEOREM ServedOnce == Spec => []OnceInv
BY OnceInit, OnceNext, TypesHold, PTL DEF Spec

(* Completion, end, cancellation and rejection exclude each other: an rpc is answered by *)
(* at most one terminal message and by nothing after it, whatever races (RpcStream::     *)
(* poll_next, message_for_event, poll_outbound_many).                                    *)
THEOREM AnsweredOnce == Spec => []OneTerminal
<1>1. OnceInv => OneTerminal BY DEF OnceInv
<1> QED BY <1>1, ServedOnce, PTL

-----------------------------------------------------------------------------
(* What is on the way to a client was sent for its rpc, and a last word is the last. *)

InReplies(rep, r, m) == \E k \in DOMAIN rep[r] : rep[r][k] = m
AllReplied(w, rep) == \A i \in DOMAIN w : InReplies(rep, w[i].id, w[i])
TerminalsLast(w) ==
    \A i, j \in DOMAIN w : w[i].id = w[j].id /\ Terminal(w[i].id, w[i]) => j <= i

(* A stream is ended only when the service's items are taken. *)
EndsAfterItems == \A r \in Rpcs : InReplies(replies, r, EndMessage(r)) => work[r] = 0

ReplyInv == AllReplied(responses, replies) /\ TerminalsLast(responses) /\ EndsAfterItems

(* A reply is recorded for its own rpc. *)
LEMMA RepliesAdded ==
    ASSUME TypeInv, NEW q \in Rpcs, NEW m \in WireMessage,
           replies' = [replies EXCEPT ![q] = Append(@, m)], NEW r \in Rpcs, NEW x
    PROVE  InReplies(replies', r, x) <=> InReplies(replies, r, x) \/ (r = q /\ x = m)
<1>1. replies \in [Rpcs -> Seq(WireMessage)] /\ replies[q] \in Seq(WireMessage) BY DEF TypeInv, ServerType
<1>2. CASE r # q
  <2>1. replies'[r] = replies[r] BY <1>1, <1>2
  <2> QED BY <1>2, <2>1 DEF InReplies
<1>3. CASE r = q
  <2>1. replies'[q] = Append(replies[q], m) BY <1>1
  <2>2. PICK n \in Nat : n = Len(replies[q]) BY <1>1, LenProperties
  <2>3. /\ DOMAIN replies[q] = 1 .. n /\ DOMAIN replies'[q] = 1 .. n + 1
        /\ \A i \in 1 .. n : replies'[q][i] = replies[q][i]
        /\ replies'[q][n + 1] = m
    BY <1>1, <2>1, <2>2, Added
  <2>4. \A i \in 1 .. n + 1 : i \in 1 .. n \/ i = n + 1 OBVIOUS
  <2>5. n + 1 \in 1 .. n + 1 /\ \A i \in 1 .. n : i \in 1 .. n + 1 OBVIOUS
  <2> QED BY <1>3, <2>3, <2>4, <2>5 DEF InReplies
<1> QED BY <1>2, <1>3

(* The server sends a message for an rpc that has not had its last word. *)
LEMMA ReplySent ==
    ASSUME TypeInv, ReplyInv, NEW q \in Rpcs, NEW m \in WireMessage, m.id = q,
           responses' = Append(responses, m),
           replies' = [replies EXCEPT ![q] = Append(@, m)],
           \A i \in DOMAIN replies[q] : ~Terminal(q, replies[q][i]),
           m = EndMessage(q) => work'[q] = 0, \A r \in Rpcs : r # q => work'[r] = work[r]
    PROVE  ReplyInv'
<1>1. PICK n \in Nat : n = Len(responses) BY LenProperties DEF TypeInv, WireType
<1>2. /\ DOMAIN responses = 1 .. n /\ DOMAIN responses' = 1 .. n + 1
      /\ \A i \in 1 .. n : responses'[i] = responses[i]
      /\ responses'[n + 1] = m
  BY <1>1, Added DEF TypeInv, WireType
<1>3. \A i \in 1 .. n + 1 : i \in 1 .. n \/ i = n + 1 OBVIOUS
<1>4. \A i \in 1 .. n : responses[i].id \in Rpcs
  <2>1. \A i \in 1 .. n : responses[i] \in WireMessage BY <1>1, ElementOfSeq DEF TypeInv, WireType
  <2> QED BY <2>1 DEF WireMessage
<1>5. AllReplied(responses', replies')
  <2>1. ASSUME NEW i \in 1 .. n + 1 PROVE InReplies(replies', responses'[i].id, responses'[i])
    <3>1. CASE i = n + 1
      <4>1. InReplies(replies', q, m) BY RepliesAdded
      <4> QED BY <1>2, <3>1, <4>1
    <3>2. CASE i \in 1 .. n
      <4>0. PICK x : x = responses[i] OBVIOUS
      <4>1. PICK r \in Rpcs : x = responses[i] /\ r = responses[i].id BY <1>4, <3>2, <4>0
      <4>2. InReplies(replies, r, x) BY <1>2, <3>2, <4>1 DEF ReplyInv, AllReplied
      <4>3. InReplies(replies', r, x) BY <4>2, RepliesAdded
      <4> QED BY <1>2, <3>2, <4>1, <4>3
    <3> QED BY <1>3, <3>1, <3>2
  <2> QED BY <1>2, <2>1 DEF AllReplied
<1>6. TerminalsLast(responses')
  <2>1. ASSUME NEW i \in 1 .. n, responses[i].id = q PROVE ~Terminal(q, responses[i])
    BY <1>2, <2>1 DEF ReplyInv, AllReplied, InReplies
  <2>2. \A i, j \in 1 .. n : responses[i].id = responses[j].id /\ Terminal(responses[i].id, responses[i]) => j <= i
    BY <1>2 DEF ReplyInv, TerminalsLast
  <2>3. ASSUME NEW i \in 1 .. n + 1, NEW j \in 1 .. n + 1, responses'[i].id = responses'[j].id,
               Terminal(responses'[i].id, responses'[i])
        PROVE  j <= i
    <3>1. CASE i = n + 1 BY <3>1
    <3>2. CASE i \in 1 .. n /\ j \in 1 .. n BY <1>2, <2>2, <2>3, <3>2
    <3>3. CASE i \in 1 .. n /\ j = n + 1 BY <1>2, <2>1, <2>3, <3>3
    <3> QED BY <1>3, <3>1, <3>2, <3>3
  <2> QED BY <1>2, <2>3 DEF TerminalsLast
<1>7. ASSUME NEW r \in Rpcs, InReplies(replies', r, EndMessage(r)) PROVE work'[r] = 0
  <2>1. InReplies(replies, r, EndMessage(r)) \/ (r = q /\ EndMessage(r) = m) BY <1>7, RepliesAdded
  <2>2. InReplies(replies, q, EndMessage(q)) => FALSE BY DEF InReplies, Terminal, EndMessage
  <2> QED BY <2>1, <2>2 DEF ReplyInv, EndsAfterItems
<1> QED BY <1>5, <1>6, <1>7 DEF ReplyInv, EndsAfterItems

(* What is taken from the wire or lost on it leaves the rest in place. *)
LEMMA ReplyShrinks ==
    ASSUME TypeInv, NEW n \in 0 .. Len(responses), ReplyInv
    PROVE  /\ AllReplied(SubSeq(responses, 1, n), replies) /\ TerminalsLast(SubSeq(responses, 1, n))
           /\ responses # <<>> => AllReplied(Tail(responses), replies) /\ TerminalsLast(Tail(responses))
<1>1. PICK l \in Nat : l = Len(responses) BY LenProperties DEF TypeInv, WireType
<1>2. PICK v : v = SubSeq(responses, 1, n) OBVIOUS
<1>3. /\ DOMAIN responses = 1 .. l /\ DOMAIN v = 1 .. n
      /\ \A i \in 1 .. n : v[i] = responses[i] /\ i \in 1 .. l
  BY <1>1, <1>2, Cut DEF TypeInv, WireType
<1>4. AllReplied(v, replies) /\ TerminalsLast(v)
  BY <1>3 DEF ReplyInv, AllReplied, TerminalsLast
<1>5. ASSUME responses # <<>> PROVE AllReplied(Tail(responses), replies) /\ TerminalsLast(Tail(responses))
  <2>1. PICK t : t = Tail(responses) OBVIOUS
  <2>2. l > 0 /\ DOMAIN t = 1 .. l - 1 /\ \A i \in 1 .. l - 1 : t[i] = responses[i + 1] /\ i + 1 \in 1 .. l
    BY <1>1, <1>5, <2>1, Taken DEF TypeInv, WireType
  <2>3. AllReplied(t, replies) BY <1>3, <2>2 DEF ReplyInv, AllReplied
  <2>4. ASSUME NEW i \in 1 .. l - 1, NEW j \in 1 .. l - 1, t[i].id = t[j].id, Terminal(t[i].id, t[i]) PROVE j <= i
    <3>1. j + 1 <= i + 1 BY <1>3, <2>2, <2>4 DEF ReplyInv, TerminalsLast
    <3> QED BY <3>1
  <2>5. TerminalsLast(t) BY <2>2, <2>4 DEF TerminalsLast
  <2> QED BY <2>1, <2>3, <2>5
<1> QED BY <1>2, <1>4, <1>5

(* Every step keeps the wire and the record of the replies together. *)
LEMMA ReplyNext == TypeInv /\ OnceInv /\ ReplyInv /\ [Next]_vars => ReplyInv'
<1> SUFFICES ASSUME TypeInv, OnceInv, ReplyInv, [Next]_vars PROVE ReplyInv' OBVIOUS
<1>0. OneServing BY DEF OnceInv
<1>1. ASSUME UNCHANGED <<responses, replies, work>> PROVE ReplyInv'
  BY <1>1 DEF ReplyInv, AllReplied, TerminalsLast, EndsAfterItems, InReplies
<1>2. ASSUME NEW q \in Rpcs, UNCHANGED serverVars,
             \/ CheckAlive(q) \/ Submit(q) \/ DropCompletion(q) \/ Poll(q) \/ OnNew(q) \/ OnCancel(q)
      PROVE  ReplyInv'
  <2>1. UNCHANGED <<responses, replies, work>>
    BY <1>2 DEF CheckAlive, Submit, DropCompletion, Poll, PollUnary, PollItem, PollEmpty, PollFinished, PollPending, Resolve,
                OnNew, OnCancel, wireVars, serverVars
  <2> QED BY <1>1, <2>1
<1>3. ASSUME OnResponse, UNCHANGED serverVars PROVE ReplyInv'
  <2>1. responses # <<>> /\ responses' = Tail(responses) /\ UNCHANGED <<replies, work>>
    BY <1>3 DEF OnResponse, OnControl, OnItem, OnUnary, OnUnregistered, Response, serverVars
  <2>2. 0 \in 0 .. Len(responses) BY LenProperties DEF TypeInv, WireType
  <2>3. AllReplied(responses', replies') /\ TerminalsLast(responses') BY <2>1, <2>2, ReplyShrinks
  <2> QED BY <2>1, <2>3 DEF ReplyInv, EndsAfterItems, InReplies
<1>4. ASSUME ClientDrops, UNCHANGED serverVars PROVE ReplyInv'
  BY <1>1, <1>4 DEF ClientDrops, serverVars
<1>5. ASSUME OnInbound, UNCHANGED clientVars PROVE ReplyInv'
  <2>1. UNCHANGED <<responses, replies, work>>
    BY <1>5 DEF OnInbound, Accept, Reject, Abort, AbortUntracked, Request, serverVars, serviceVars
  <2> QED BY <1>1, <2>1
<1>6. ASSUME ReplyRejected, UNCHANGED clientVars PROVE ReplyInv'
  <2>1. PICK q \in Rpcs :
             /\ Refused(q) /\ responses' = Append(responses, Cancelled(q))
             /\ replies' = [replies EXCEPT ![q] = Append(@, Cancelled(q))]
             /\ UNCHANGED <<serviceVars>>
    BY <1>6, RefusedAnswered
  <2>2. DOMAIN replies[q] = {} BY <1>0, <2>1 DEF OneServing
  <2>3. Cancelled(q) \in WireMessage /\ Cancelled(q).id = q /\ Cancelled(q) # EndMessage(q)
    BY Messages DEF Cancelled, EndMessage
  <2>4. work' = work BY <2>1 DEF serviceVars
  <2> QED BY <2>1, <2>2, <2>3, <2>4, ReplySent
<1>7. ASSUME ServerDrops, UNCHANGED clientVars PROVE ReplyInv'
  <2>1. PICK n \in 0 .. Len(responses) : responses' = SubSeq(responses, 1, n) BY <1>7 DEF ServerDrops
  <2>2. UNCHANGED <<replies, work>> BY <1>7 DEF ServerDrops, serviceVars
  <2>3. AllReplied(responses', replies') /\ TerminalsLast(responses') BY <2>1, <2>2, ReplyShrinks
  <2> QED BY <2>2, <2>3 DEF ReplyInv, EndsAfterItems, InReplies
<1>8. ASSUME NEW q \in Rpcs, UNCHANGED clientVars, ServiceMakes(q) \/ ServiceEnds(q) \/ PollRpcPending(q)
      PROVE  ReplyInv'
  <2>1. /\ q \in rpcs /\ UNCHANGED <<responses, replies>>
        /\ work' = work \/ work' = [work EXCEPT ![q] = @ + 1]
    BY <1>8 DEF ServiceMakes, ServiceEnds, PollRpcPending, Polled, serviceVars, wireVars
  <2>2. ~InReplies(replies, q, EndMessage(q))
    BY <1>0, <2>1 DEF OneServing, InReplies, Terminal, EndMessage
  <2>3. \A r \in Rpcs : r # q => work'[r] = work[r] BY <2>1 DEF TypeInv, ServerType
  <2>4. EndsAfterItems' BY <2>1, <2>2, <2>3 DEF ReplyInv, EndsAfterItems, InReplies
  <2> QED BY <2>1, <2>4 DEF ReplyInv, AllReplied, TerminalsLast, InReplies
<1>9. ASSUME NEW q \in Rpcs, NEW m, SendsItem(q, m) \/ SendsLast(q, m) PROVE ReplyInv'
  <2>1. /\ q \in rpcs /\ m \in WireMessage /\ m.id = q
        /\ responses' = Append(responses, m)
        /\ replies' = [replies EXCEPT ![q] = Append(@, m)]
    BY <1>9 DEF SendsItem, SendsLast, Sends
  <2>2. \A i \in DOMAIN replies[q] : ~Terminal(q, replies[q][i]) BY <1>0, <2>1 DEF OneServing
  <2>3. m = EndMessage(q) => work'[q] = 0 BY <1>9 DEF SendsItem, SendsLast, EndMessage
  <2>4. \A r \in Rpcs : r # q => work'[r] = work[r]
    BY <1>9 DEF SendsItem, SendsLast, TypeInv, ServerType
  <2> QED BY <2>1, <2>2, <2>3, <2>4, ReplySent
<1>10. CASE UNCHANGED vars BY <1>1, <1>10 DEF vars, wireVars, serverVars
<1> QED BY <1>2, <1>3, <1>4, <1>5, <1>6, <1>7, <1>8, <1>9, <1>10, StepForms

-----------------------------------------------------------------------------
(* The callers. *)

CallerInv ==
    /\ \A r \in Rpcs : user[r] \in {"idle", "sending", "waiting"} => result[r] = "none"
    /\ \A r \in Rpcs : Cancel(r) \in queue => user[r] = "dropped"
    /\ \A r \in Rpcs : Unsent(r) => got[r] = <<>> /\ channel[r] = <<>>

(* Nothing is on the way to a caller whose request is not. *)
LEMMA UnsentIsQuiet ==
    ASSUME TypeInv, OnceInv, ReplyInv, NEW r \in Rpcs, Unsent(r)
    PROVE  /\ \A i \in DOMAIN responses : responses[i].id # r
           /\ made[r] = 0 /\ work[r] = 0
<1>1. Fresh(r) BY DEF OnceInv, OneRequest
<1>2. DOMAIN replies[r] = {} BY <1>1 DEF Fresh
<1>3. \A i \in DOMAIN responses : responses[i].id # r BY <1>2 DEF ReplyInv, AllReplied, InReplies
<1>4. made[r] = 0 /\ work[r] \in Nat /\ work[r] <= made[r] BY <1>1 DEF Fresh, TypeInv, ServerType
<1> QED BY <1>3, <1>4

(* Every step keeps the callers' side together. *)
LEMMA CallerNext == TypeInv /\ OnceInv /\ ReplyInv /\ CallerInv /\ [Next]_vars => CallerInv'
<1> SUFFICES ASSUME TypeInv, OnceInv, ReplyInv, CallerInv, [Next]_vars PROVE CallerInv' OBVIOUS
<1>1. /\ user \in [Rpcs -> {"idle", "sending", "waiting", "resolved", "dropped"}]
      /\ result \in [Rpcs -> {"none", "response", "cancelled", "finished", "closed"}]
      /\ channel \in [Rpcs -> Seq(Nat)] /\ got \in [Rpcs -> Seq(Nat)]
  BY DEF TypeInv, ClientType
<1>2. \A r, p \in Rpcs : /\ New(r) # Cancel(p) /\ (New(r) = New(p) => r = p)
                         /\ Cancel(r) = Cancel(p) => r = p
  BY DEF New, Cancel
<1>3. \A r \in Rpcs : user[r] \in {"idle", "sending"} => New(r) \notin queue BY DEF OnceInv, OneRequest
<1>4. ASSUME NEW q \in Rpcs, UNCHANGED serverVars,
             \/ CheckAlive(q) \/ Submit(q) \/ DropCompletion(q) \/ Poll(q) \/ OnNew(q) \/ OnCancel(q)
      PROVE  CallerInv'
  <2>1. CASE CheckAlive(q) BY <1>1, <2>1 DEF CheckAlive, CallerInv, Unsent
  <2>2. CASE Submit(q) BY <1>1, <1>2, <2>2 DEF Submit, CallerInv, Unsent
  <2>3. CASE DropCompletion(q)
    <3>1. \A r \in Rpcs : user'[r] \in {"idle", "sending", "waiting"} => result'[r] = "none"
      BY <1>1, <2>3 DEF DropCompletion, CallerInv
    <3>2. \A r \in Rpcs : Cancel(r) \in queue' => user'[r] = "dropped"
      BY <1>1, <1>2, <2>3 DEF DropCompletion, CallerInv
    <3>3. \A r \in Rpcs : Unsent(r)' => got'[r] = <<>> /\ channel'[r] = <<>>
      <4>1. \A r \in Rpcs : Unsent(r)' => Unsent(r) BY <1>1, <1>2, <2>3 DEF DropCompletion, Unsent
      <4>2. \A r \in Rpcs : got'[r] = got[r] /\ (channel'[r] = channel[r] \/ channel'[r] = <<>>)
        BY <1>1, <2>3 DEF DropCompletion
      <4> QED BY <4>1, <4>2 DEF CallerInv
    <3> QED BY <3>1, <3>2, <3>3 DEF CallerInv
  <2>4. CASE Poll(q)
    <3>1. queue' = queue /\ user[q] = "waiting" /\ (user' = user \/ user' = [user EXCEPT ![q] = "resolved"])
      BY <2>4 DEF Poll, PollUnary, PollItem, PollEmpty, PollFinished, PollPending, Resolve
    <3>2. \A r \in Rpcs : user'[r] \in {"idle", "sending", "waiting"} => result'[r] = "none"
      BY <1>1, <2>4 DEF Poll, PollUnary, PollItem, PollEmpty, PollFinished, PollPending, Resolve, CallerInv
    <3>3. \A r \in Rpcs : Cancel(r) \in queue' => user'[r] = "dropped" BY <1>1, <3>1 DEF CallerInv
    <3>4. \A r \in Rpcs : Unsent(r)' => Unsent(r) BY <1>1, <3>1 DEF Unsent
    <3>5. \A r \in Rpcs : Unsent(r) => got'[r] = got[r] /\ channel'[r] = channel[r]
      <4>1. CASE channel[q] = <<>>
        BY <1>1, <2>4, <4>1 DEF Poll, PollUnary, PollItem, PollEmpty, PollFinished, PollPending, Resolve
      <4>2. CASE channel[q] # <<>>
        <5>1. ~Unsent(q) BY <4>2 DEF CallerInv
        <5>2. \A r \in Rpcs : r # q => got'[r] = got[r] /\ channel'[r] = channel[r]
          BY <1>1, <2>4 DEF Poll, PollUnary, PollItem, PollEmpty, PollFinished, PollPending, Resolve
        <5> QED BY <5>1, <5>2
      <4> QED BY <4>1, <4>2
    <3> QED BY <3>2, <3>3, <3>4, <3>5 DEF CallerInv
  <2>5. CASE OnNew(q) \/ OnCancel(q) BY <2>5 DEF OnNew, OnCancel, CallerInv, Unsent
  <2> QED BY <1>4, <2>1, <2>2, <2>3, <2>4, <2>5
<1>5. ASSUME OnResponse, UNCHANGED serverVars PROVE CallerInv'
  <2>1. /\ UNCHANGED <<user, result, queue, got>> /\ responses # <<>>
        /\ channel' = channel \/ channel' = Completed(Head(responses))
    BY <1>5 DEF OnResponse, OnControl, OnItem, OnUnary, OnUnregistered, Response
  <2>2. PICK p, x : p = Head(responses).id /\ x = Append(channel[p], Head(responses).item) OBVIOUS
  <2>3. channel' = channel \/ channel' = [channel EXCEPT ![p] = x] BY <2>1, <2>2 DEF Completed
  <2>4. 1 \in DOMAIN responses /\ p = responses[1].id BY <2>1, <2>2, Taken DEF TypeInv, WireType
  <2>5. \A r \in Rpcs : Unsent(r) => channel'[r] = channel[r] BY <1>1, <2>3, <2>4, UnsentIsQuiet
  <2>6. \A r \in Rpcs : Unsent(r)' <=> Unsent(r) BY <2>1 DEF Unsent
  <2> QED BY <2>1, <2>5, <2>6 DEF CallerInv
<1>6. ASSUME ClientDrops, UNCHANGED serverVars PROVE CallerInv'
  BY <1>6 DEF ClientDrops, CallerInv, Unsent
<1>7. ASSUME UNCHANGED clientVars PROVE CallerInv' BY <1>7 DEF clientVars, CallerInv, Unsent
<1>8. ASSUME NEW q \in Rpcs, NEW m, SendsItem(q, m) \/ SendsLast(q, m) PROVE UNCHANGED clientVars
  BY <1>8 DEF SendsItem, SendsLast, Sends
<1>9. UNCHANGED vars => UNCHANGED clientVars BY DEF vars
<1> QED BY <1>4, <1>5, <1>6, <1>7, <1>8, <1>9, StepForms

-----------------------------------------------------------------------------
(* A response stream on its way, for a caller that holds its first items. *)

At(w, r) == {i \in DOMAIN w : w[i].id = r /\ w[i].code = "normal"}
Whole(w, r, low, high) == \A n \in low .. high : \E j \in At(w, r) : w[j].item = n

(* Of the items that were sent the ones after those the caller holds are on w, in order *)
(* and without a gap, and all of them if nothing was lost or the stream's end is on w.   *)
Stream(w, r, held, sent, all) ==
    /\ \A i, j \in At(w, r) : i < j => w[i].item < w[j].item
    /\ \A i \in At(w, r) : w[i].item \in held + 1 .. sent /\ Whole(w, r, held + 1, w[i].item)
    /\ all \/ (\E i \in DOMAIN w : w[i] = EndMessage(r)) => Whole(w, r, held + 1, sent)

(* Nothing on the way is the whole of no items. *)
LEMMA StreamNone ==
    ASSUME NEW w, NEW r, NEW all, \A i \in DOMAIN w : w[i].id # r
    PROVE  Stream(w, r, 0, 0, all)
<1>1. At(w, r) = {} BY DEF At
<1>2. 0 + 1 .. 0 = {} OBVIOUS
<1> QED BY <1>1, <1>2 DEF Stream, Whole

(* A message that is no item of r changes nothing for r. *)
LEMMA StreamSentOther ==
    ASSUME NEW w \in Seq(WireMessage), NEW m \in WireMessage, NEW r, NEW held \in Nat, NEW sent \in Nat,
           Stream(w, r, held, sent, TRUE), ~(m.id = r /\ m.code = "normal")
    PROVE  Stream(Append(w, m), r, held, sent, TRUE)
<1>1. PICK v : v = Append(w, m) OBVIOUS
<1>2. PICK n \in Nat : n = Len(w) BY LenProperties
<1>3. /\ DOMAIN w = 1 .. n /\ DOMAIN v = 1 .. n + 1 /\ v[n + 1] = m
      /\ \A i \in 1 .. n : v[i] = w[i] /\ i \in 1 .. n + 1
  BY <1>1, <1>2, Added
<1>4. \A i \in 1 .. n + 1 : i \in 1 .. n \/ i = n + 1 OBVIOUS
<1>5. At(v, r) = At(w, r) /\ \A i \in At(w, r) : v[i] = w[i] BY <1>3, <1>4 DEF At
<1>6. \A low, high : Whole(w, r, low, high) => Whole(v, r, low, high) BY <1>5 DEF Whole
<1>7. Stream(v, r, held, sent, TRUE) BY <1>5, <1>6 DEF Stream
<1> QED BY <1>1, <1>7

(* The next item is sent. *)
LEMMA StreamSentItem ==
    ASSUME NEW w \in Seq(WireMessage), NEW m \in WireMessage, NEW r, NEW held \in Nat, NEW sent \in Nat,
           Stream(w, r, held, sent, TRUE), held <= sent,
           m.id = r, m.code = "normal", m.item = sent + 1
    PROVE  Stream(Append(w, m), r, held, sent + 1, TRUE)
<1>1. PICK v : v = Append(w, m) OBVIOUS
<1>2. PICK n \in Nat : n = Len(w) BY LenProperties
<1>3. /\ DOMAIN w = 1 .. n /\ DOMAIN v = 1 .. n + 1 /\ v[n + 1] = m
      /\ \A i \in 1 .. n : v[i] = w[i] /\ i \in 1 .. n + 1
  BY <1>1, <1>2, Added
<1>4. \A i \in 1 .. n + 1 : i \in 1 .. n \/ i = n + 1 OBVIOUS
<1>5. /\ \A i \in At(v, r) : i \in At(w, r) \/ i = n + 1
      /\ \A i \in At(w, r) : i \in At(v, r) /\ i \in 1 .. n
      /\ n + 1 \in At(v, r)
  BY <1>3, <1>4 DEF At
<1>6. \A i \in At(w, r) : v[i] = w[i] /\ w[i].item \in held + 1 .. sent BY <1>3, <1>5 DEF Stream
<1>7. \A low, high : Whole(w, r, low, high) => Whole(v, r, low, high) BY <1>5, <1>6 DEF Whole
<1>8. ASSUME NEW i \in At(v, r), NEW j \in At(v, r), i < j PROVE v[i].item < v[j].item
  <2>1. CASE j \in At(w, r)
    <3>1. i \in At(w, r) BY <1>5, <1>8, <2>1
    <3>2. w[i].item < w[j].item BY <1>8, <2>1, <3>1 DEF Stream
    <3>3. v[i] = w[i] /\ v[j] = w[j] BY <1>6, <2>1, <3>1
    <3> QED BY <3>2, <3>3
  <2>2. CASE j = n + 1
    <3>1. i \in At(w, r) BY <1>5, <1>8, <2>2
    <3>2. v[i] = w[i] /\ w[i].item \in held + 1 .. sent BY <1>6, <3>1
    <3>3. v[j].item = sent + 1 BY <1>3, <2>2
    <3> QED BY <3>2, <3>3
  <2> QED BY <1>5, <2>1, <2>2
<1>9. Whole(v, r, held + 1, sent + 1)
  <2>1. Whole(v, r, held + 1, sent) BY <1>7 DEF Stream
  <2>2. \A k \in held + 1 .. sent + 1 : k \in held + 1 .. sent \/ k = sent + 1 OBVIOUS
  <2> QED BY <1>3, <1>5, <2>1, <2>2 DEF Whole
<1>10. ASSUME NEW i \in At(v, r)
       PROVE  v[i].item \in held + 1 .. sent + 1 /\ Whole(v, r, held + 1, v[i].item)
  <2>1. CASE i \in At(w, r)
    <3>1. v[i].item \in held + 1 .. sent + 1 BY <1>6, <2>1
    <3> QED BY <1>6, <1>7, <2>1, <3>1 DEF Stream
  <2>2. CASE i = n + 1 BY <1>3, <1>9, <2>2
  <2> QED BY <1>5, <2>1, <2>2
<1>11. Stream(v, r, held, sent + 1, TRUE) BY <1>8, <1>9, <1>10 DEF Stream
<1> QED BY <1>1, <1>11

(* v has the items and the end that w has after its first message. *)
Shifted(v, w, r) ==
    /\ \A i \in At(v, r) : i \in Nat /\ i + 1 \in At(w, r) /\ i + 1 > 1 /\ v[i] = w[i + 1]
    /\ \A j \in At(w, r) : j # 1 => \E i \in At(v, r) : i \in Nat /\ v[i] = w[j] /\ j = i + 1
    /\ (\E i \in DOMAIN v : v[i] = EndMessage(r)) => (\E i \in DOMAIN w : w[i] = EndMessage(r))

(* The tail of a wire has the items behind its first message, one place nearer. *)
LEMMA AtTaken ==
    ASSUME NEW w \in Seq(WireMessage), w # <<>>, NEW r
    PROVE  Shifted(Tail(w), w, r)
<1>0. PICK v : v = Tail(w) OBVIOUS
<1>1. PICK n \in Nat \ {0} : n = Len(w) BY Taken
<1>2. /\ DOMAIN w = 1 .. n /\ DOMAIN v = 1 .. n - 1 /\ Head(w) = w[1] /\ w[1] \in WireMessage
      /\ \A i \in 1 .. n - 1 : v[i] = w[i + 1]
  BY <1>0, <1>1, Taken
<1>3. 1 \in 1 .. n /\ \A i \in 1 .. n - 1 : i \in Nat /\ i + 1 \in 1 .. n /\ i + 1 > 1 BY <1>1
<1>4. \A j \in 1 .. n : j # 1 => j - 1 \in 1 .. n - 1 /\ j - 1 \in Nat /\ j = (j - 1) + 1 BY <1>1
<1>5. \A i \in At(v, r) : i \in Nat /\ i + 1 \in At(w, r) /\ i + 1 > 1 /\ v[i] = w[i + 1]
  BY <1>2, <1>3 DEF At
<1>6. ASSUME NEW j \in At(w, r), j # 1 PROVE \E i \in At(v, r) : i \in Nat /\ v[i] = w[j] /\ j = i + 1
  <2>1. j - 1 \in 1 .. n - 1 /\ j - 1 \in Nat /\ j = (j - 1) + 1 BY <1>2, <1>4, <1>6 DEF At
  <2>2. v[j - 1] = w[j] BY <1>2, <2>1
  <2>3. j - 1 \in At(v, r) BY <1>2, <1>6, <2>1, <2>2 DEF At
  <2> QED BY <2>1, <2>2, <2>3
<1>7. (\E i \in DOMAIN v : v[i] = EndMessage(r)) => (\E i \in DOMAIN w : w[i] = EndMessage(r))
  BY <1>2, <1>3
<1>8. Shifted(v, w, r) BY <1>5, <1>6, <1>7 DEF Shifted
<1> QED BY <1>0, <1>8

(* A message that is no item of r is taken. *)
LEMMA StreamTakenOther ==
    ASSUME NEW w \in Seq(WireMessage), w # <<>>, NEW r, NEW held \in Nat, NEW sent \in Nat,
           NEW all \in BOOLEAN, Stream(w, r, held, sent, all), 1 \notin At(w, r)
    PROVE  Stream(Tail(w), r, held, sent, all)
<1>1. PICK v : v = Tail(w) OBVIOUS
<1>2. /\ \A i \in At(v, r) : i \in Nat /\ i + 1 \in At(w, r) /\ i + 1 > 1 /\ v[i] = w[i + 1]
      /\ \A j \in At(w, r) : \E i \in At(v, r) : i \in Nat /\ v[i] = w[j] /\ j = i + 1
      /\ (\E i \in DOMAIN v : v[i] = EndMessage(r)) => (\E i \in DOMAIN w : w[i] = EndMessage(r))
  <2>1. Shifted(v, w, r) BY <1>1, AtTaken
  <2> QED BY <2>1 DEF Shifted
<1>3. \A low, high : Whole(w, r, low, high) => Whole(v, r, low, high) BY <1>2 DEF Whole
<1>4. ASSUME NEW i \in At(v, r), NEW j \in At(v, r), i < j PROVE v[i].item < v[j].item
  <2>1. i + 1 < j + 1 BY <1>2, <1>4
  <2>2. w[i + 1].item < w[j + 1].item BY <1>2, <2>1 DEF Stream
  <2> QED BY <1>2, <2>2
<1>5. \A i \in At(v, r) : v[i].item \in held + 1 .. sent /\ Whole(v, r, held + 1, v[i].item)
  BY <1>2, <1>3 DEF Stream
<1>6. Stream(v, r, held, sent, all) BY <1>2, <1>3, <1>4, <1>5 DEF Stream
<1> QED BY <1>1, <1>6

(* The first item on the wire is the caller's next one. *)
LEMMA StreamTakenItem ==
    ASSUME NEW w \in Seq(WireMessage), w # <<>>, NEW r, NEW held \in Nat, NEW sent \in Nat,
           NEW all \in BOOLEAN, Stream(w, r, held, sent, all), 1 \in At(w, r)
    PROVE  /\ w[1].item = held + 1 /\ held + 1 <= sent
           /\ Stream(Tail(w), r, held + 1, sent, all)
<1>1. PICK v : v = Tail(w) OBVIOUS
<1>2. /\ \A i \in At(v, r) : i \in Nat /\ i + 1 \in At(w, r) /\ i + 1 > 1 /\ v[i] = w[i + 1]
      /\ \A j \in At(w, r) : j # 1 => \E i \in At(v, r) : i \in Nat /\ v[i] = w[j] /\ j = i + 1
      /\ (\E i \in DOMAIN v : v[i] = EndMessage(r)) => (\E i \in DOMAIN w : w[i] = EndMessage(r))
  <2>1. Shifted(v, w, r) BY <1>1, AtTaken
  <2> QED BY <2>1 DEF Shifted
<1>3. \A i \in At(w, r) : i # 1 => w[1].item < w[i].item
  <2>1. \A i \in At(w, r) : i # 1 => i > 1 BY <1>2
  <2> QED BY <2>1 DEF Stream
<1>4. w[1].item \in held + 1 .. sent /\ Whole(w, r, held + 1, w[1].item) BY DEF Stream
<1>5. w[1].item = held + 1 /\ held + 1 <= sent
  <2>1. held + 1 \in held + 1 .. w[1].item BY <1>4
  <2>2. PICK j \in At(w, r) : w[j].item = held + 1 BY <1>4, <2>1 DEF Whole
  <2>3. j = 1 BY <1>3, <1>4, <2>2
  <2> QED BY <1>4, <2>2, <2>3
<1>6. \A high \in Nat : Whole(w, r, held + 1, high) => Whole(v, r, held + 1 + 1, high)
  <2> SUFFICES ASSUME NEW high \in Nat, Whole(w, r, held + 1, high), NEW n \in held + 1 + 1 .. high
               PROVE  \E i \in At(v, r) : v[i].item = n
    BY DEF Whole
  <2>1. n \in held + 1 .. high /\ n # held + 1 OBVIOUS
  <2>2. PICK j \in At(w, r) : w[j].item = n BY <2>1 DEF Whole
  <2>3. j # 1 BY <1>5, <2>1, <2>2
  <2> QED BY <1>2, <2>2, <2>3
<1>7. ASSUME NEW i \in At(v, r), NEW j \in At(v, r), i < j PROVE v[i].item < v[j].item
  <2>1. i + 1 < j + 1 BY <1>2, <1>7
  <2>2. w[i + 1].item < w[j + 1].item BY <1>2, <2>1 DEF Stream
  <2> QED BY <1>2, <2>2
<1>8. ASSUME NEW i \in At(v, r)
      PROVE  v[i].item \in held + 1 + 1 .. sent /\ Whole(v, r, held + 1 + 1, v[i].item)
  <2>1. PICK x : x = w[i + 1].item OBVIOUS
  <2>2. i + 1 \in At(w, r) /\ i + 1 # 1 /\ v[i].item = x BY <1>2, <2>1
  <2>3. x \in held + 1 .. sent /\ Whole(w, r, held + 1, x) /\ held + 1 < x BY <1>3, <1>5, <2>1, <2>2 DEF Stream
  <2> QED BY <1>6, <2>2, <2>3
<1>9. all \/ (\E i \in DOMAIN v : v[i] = EndMessage(r)) => Whole(v, r, held + 1 + 1, sent)
  BY <1>2, <1>6 DEF Stream
<1>10. Stream(v, r, held + 1, sent, all) BY <1>7, <1>8, <1>9 DEF Stream
<1> QED BY <1>1, <1>5, <1>10

(* The server loses what it sent last. *)
LEMMA StreamCut ==
    ASSUME NEW w \in Seq(WireMessage), NEW n \in 0 .. Len(w), NEW r \in Rpcs, NEW held \in Nat, NEW sent \in Nat,
           NEW all \in BOOLEAN, Stream(w, r, held, sent, all), TerminalsLast(w)
    PROVE  Stream(SubSeq(w, 1, n), r, held, sent, FALSE)
<1>1. PICK v : v = SubSeq(w, 1, n) OBVIOUS
<1>2. PICK l \in Nat : l = Len(w) BY LenProperties
<1>3. /\ DOMAIN w = 1 .. l /\ DOMAIN v = 1 .. n /\ n \in Nat /\ n <= l
      /\ \A i \in 1 .. n : v[i] = w[i] /\ i \in 1 .. l
  BY <1>1, <1>2, Cut
<1>4. /\ \A i \in At(v, r) : i \in At(w, r) /\ v[i] = w[i] /\ i \in 1 .. n
      /\ \A i \in At(w, r) : i \in 1 .. l /\ (i <= n => i \in At(v, r) /\ v[i] = w[i])
  BY <1>3 DEF At
<1>5. ASSUME NEW i \in 1 .. n, NEW high, Whole(w, r, held + 1, high),
             \A j \in At(w, r) : w[j].item <= high => j <= i, high \in Nat
      PROVE  Whole(v, r, held + 1, high)
  <2> SUFFICES ASSUME NEW k \in held + 1 .. high PROVE \E j \in At(v, r) : v[j].item = k BY DEF Whole
  <2>1. PICK j \in At(w, r) : w[j].item = k BY <1>5 DEF Whole
  <2>2. j <= i BY <1>5, <2>1
  <2>3. j <= n BY <1>3, <1>4, <2>1, <2>2
  <2> QED BY <1>4, <2>1, <2>3
<1>6. ASSUME NEW i \in At(v, r) PROVE v[i].item \in held + 1 .. sent /\ Whole(v, r, held + 1, v[i].item)
  <2>1. PICK x : x = w[i].item OBVIOUS
  <2>2. i \in At(w, r) /\ v[i].item = x /\ i \in 1 .. n BY <1>4, <2>1
  <2>3. x \in held + 1 .. sent /\ Whole(w, r, held + 1, x) BY <2>1, <2>2 DEF Stream
  <2>4. ASSUME NEW j \in At(w, r), w[j].item <= x PROVE j <= i
    <3>1. j \in 1 .. l /\ w[j].item \in held + 1 .. sent BY <1>4 DEF Stream
    <3>2. i < j => w[i].item < w[j].item BY <2>2 DEF Stream
    <3> QED BY <2>1, <2>2, <2>3, <2>4, <3>1, <3>2
  <2>5. x \in Nat BY <2>3
  <2> QED BY <1>5, <2>2, <2>3, <2>4, <2>5
<1>7. ASSUME NEW i \in 1 .. n, v[i] = EndMessage(r) PROVE Whole(v, r, held + 1, sent)
  <2>1. w[i] = EndMessage(r) /\ i \in 1 .. l BY <1>3, <1>7
  <2>2. w[i].id = r /\ Terminal(w[i].id, w[i]) BY <2>1 DEF EndMessage, Terminal
  <2>3. \A j \in At(w, r) : j <= i BY <1>3, <2>1, <2>2 DEF TerminalsLast, At
  <2>4. Whole(w, r, held + 1, sent) BY <1>3, <2>1 DEF Stream
  <2> QED BY <1>5, <2>3, <2>4
<1>8. \A i, j \in At(v, r) : i < j => v[i].item < v[j].item BY <1>4 DEF Stream
<1>9. Stream(v, r, held, sent, FALSE) BY <1>3, <1>6, <1>7, <1>8 DEF Stream
<1> QED BY <1>1, <1>9

-----------------------------------------------------------------------------
(* What a caller holds, and what it has had when its stream is over. *)

Held(r) == Len(got[r]) + Len(channel[r])
Sent(r) == made[r] - work[r]

(* The items taken, g, and those waiting, c, are the first ones in order. *)
Ordered(g, c) ==
    /\ \A i \in DOMAIN g : g[i] = i
    /\ \A i \in DOMAIN c : c[i] = Len(g) + i

(* The rpc has had its last word from the server. *)
Done(r) == \E i \in DOMAIN replies[r] : Terminal(r, replies[r][i])

HeldFirst(r) == Held(r) <= Sent(r) /\ Ordered(got[r], channel[r])

OnTheWay(r) ==
    r \in in_flight /\ user[r] = "waiting" => Stream(responses, r, Held(r), Sent(r), server_up)

HadAll(r) ==
    /\ client_up /\ user[r] = "waiting" /\ ~HasCompleter(r) =>
           Done(r) /\ (InReplies(replies, r, EndMessage(r)) => Held(r) = made[r])
    /\ client_up /\ result[r] = "finished" /\ user[r] = "resolved" =>
           Done(r) /\ (InReplies(replies, r, EndMessage(r)) => Held(r) = made[r])

FlowOf(r) == HeldFirst(r) /\ OnTheWay(r) /\ HadAll(r)
FlowInv == \A r \in Streaming : FlowOf(r)

SessionInv == TypeInv /\ OnceInv /\ ReplyInv /\ CallerInv /\ FlowInv

(* The caller takes the first item that waits for it. *)
LEMMA OrderedTaken ==
    ASSUME NEW g \in Seq(Nat), NEW c \in Seq(Nat), c # <<>>, Ordered(g, c)
    PROVE  /\ Ordered(Append(g, Head(c)), Tail(c))
           /\ Len(Append(g, Head(c))) + Len(Tail(c)) = Len(g) + Len(c)
<1>1. PICK n \in Nat : n = Len(g) BY LenProperties
<1>2. PICK k \in Nat \ {0} : k = Len(c) BY Taken
<1>3. PICK d, t : d = Append(g, Head(c)) /\ t = Tail(c) OBVIOUS
<1>4. /\ DOMAIN t = 1 .. k - 1 /\ \A i \in 1 .. k - 1 : t[i] = c[i + 1]
      /\ DOMAIN c = 1 .. k /\ Head(c) \in Nat /\ Head(c) = c[1] /\ Len(t) = k - 1
  BY <1>2, <1>3, Taken, HeadTailProperties
<1>5. /\ DOMAIN g = 1 .. n /\ DOMAIN d = 1 .. n + 1 /\ d[n + 1] = Head(c) /\ Len(d) = n + 1
      /\ \A i \in 1 .. n : d[i] = g[i]
  BY <1>1, <1>3, <1>4, Added, AppendProperties
<1>6. \A i \in 1 .. n + 1 : i \in 1 .. n \/ i = n + 1 OBVIOUS
<1>7. \A i \in 1 .. n : g[i] = i BY <1>5 DEF Ordered
<1>8. \A i \in 1 .. k : c[i] = n + i BY <1>1, <1>4 DEF Ordered
<1>9. \A i \in DOMAIN d : d[i] = i BY <1>2, <1>4, <1>5, <1>6, <1>7, <1>8
<1>10. \A i \in DOMAIN t : t[i] = Len(d) + i BY <1>4, <1>5, <1>8
<1> QED BY <1>1, <1>2, <1>3, <1>4, <1>5, <1>9, <1>10 DEF Ordered

(* The next item is put into the caller's channel. *)
LEMMA OrderedAdded ==
    ASSUME NEW g \in Seq(Nat), NEW c \in Seq(Nat), Ordered(g, c), NEW x \in Nat, x = Len(g) + Len(c) + 1
    PROVE  Ordered(g, Append(c, x)) /\ Len(Append(c, x)) = Len(c) + 1
<1>1. PICK n \in Nat : n = Len(g) BY LenProperties
<1>2. PICK k \in Nat : k = Len(c) BY LenProperties
<1>3. PICK d : d = Append(c, x) OBVIOUS
<1>4. /\ DOMAIN c = 1 .. k /\ DOMAIN d = 1 .. k + 1 /\ d[k + 1] = x /\ Len(d) = k + 1
      /\ \A i \in 1 .. k : d[i] = c[i]
  BY <1>2, <1>3, Added, AppendProperties
<1>5. \A i \in 1 .. k + 1 : i \in 1 .. k \/ i = k + 1 OBVIOUS
<1>6. \A i \in 1 .. k : c[i] = n + i BY <1>1, <1>4 DEF Ordered
<1>7. \A i \in DOMAIN d : d[i] = n + i
  <2>1. d[k + 1] = n + (k + 1) BY <1>1, <1>2, <1>4
  <2>2. \A i \in 1 .. k : d[i] = n + i BY <1>4, <1>6
  <2> QED BY <1>4, <1>5, <2>1, <2>2
<1> QED BY <1>1, <1>2, <1>3, <1>4, <1>7 DEF Ordered

(* The types of what is counted for a stream. *)
LEMMA FlowTypes ==
    ASSUME TypeInv, NEW r \in Streaming
    PROVE  /\ r \in Rpcs /\ got[r] \in Seq(Nat) /\ channel[r] \in Seq(Nat)
           /\ Len(got[r]) \in Nat /\ Len(channel[r]) \in Nat /\ Held(r) \in Nat
           /\ made[r] \in Nat /\ work[r] \in Nat /\ Sent(r) \in Nat /\ Sent(r) <= made[r]
<1>1. r \in Rpcs BY RpcAssumption
<1>2. got[r] \in Seq(Nat) /\ channel[r] \in Seq(Nat) BY <1>1 DEF TypeInv, ClientType
<1>3. Len(got[r]) \in Nat /\ Len(channel[r]) \in Nat BY <1>2, LenProperties
<1>4. made[r] \in Nat /\ work[r] \in Nat /\ work[r] <= made[r] BY <1>1 DEF TypeInv, ServerType
<1>5. Held(r) \in Nat
  <2>1. PICK a \in Nat, b \in Nat : a = Len(got[r]) /\ b = Len(channel[r]) BY <1>3
  <2>2. Held(r) = a + b BY <2>1 DEF Held
  <2> QED BY <2>2
<1>6. Sent(r) \in Nat /\ Sent(r) <= made[r]
  <2>1. PICK a \in Nat, b \in Nat : a = made[r] /\ b = work[r] /\ b <= a BY <1>4
  <2>2. a - b \in Nat /\ a - b <= a BY <2>1
  <2> QED BY <2>1, <2>2 DEF Sent
<1> QED BY <1>1, <1>2, <1>3, <1>4, <1>5, <1>6

(* A step that leaves the responses, what the caller holds and what was sent alone. *)
LEMMA FlowSame ==
    ASSUME SessionInv, NEW r \in Streaming,
           UNCHANGED <<responses, server_up, got[r], channel[r], replies[r]>>,
           Sent(r)' = Sent(r), client_up' => client_up,
           Done(r) => made'[r] = made[r],
           result'[r] = "finished" /\ user'[r] = "resolved" => result[r] = "finished" /\ user[r] = "resolved",
           r \in in_flight' /\ user'[r] = "waiting" => (r \in in_flight /\ user[r] = "waiting") \/ Unsent(r),
           client_up' /\ user'[r] = "waiting" /\ ~HasCompleter(r)' => user[r] = "waiting" /\ ~HasCompleter(r)
    PROVE  FlowOf(r)'
<1> USE DEF SessionInv
<1>1. FlowOf(r) /\ r \in Rpcs BY FlowTypes DEF FlowInv
<1>2. Held(r)' = Held(r) BY DEF Held
<1>3. HeldFirst(r)' BY <1>1, <1>2 DEF FlowOf, HeldFirst, Ordered
<1>4. OnTheWay(r)'
  <2>1. CASE Unsent(r)
    <3>1. \A i \in DOMAIN responses : responses[i].id # r BY <1>1, <2>1, UnsentIsQuiet
    <3>2. Sent(r) = 0 BY <1>1, <2>1, UnsentIsQuiet DEF Sent
    <3>3. Held(r) = 0
      <4>1. got[r] = <<>> /\ channel[r] = <<>> BY <1>1, <2>1 DEF CallerInv
      <4>2. Len(got[r]) = 0 /\ Len(channel[r]) = 0 BY <4>1
      <4> QED BY <4>2 DEF Held
    <3>4. Stream(responses, r, 0, 0, server_up) BY <3>1, StreamNone
    <3>5. Stream(responses', r, Held(r)', Sent(r)', server_up') BY <1>2, <3>2, <3>3, <3>4
    <3> QED BY <3>5 DEF OnTheWay
  <2>2. CASE r \in in_flight /\ user[r] = "waiting"
    <3>1. Stream(responses, r, Held(r), Sent(r), server_up) BY <1>1, <2>2 DEF FlowOf, OnTheWay
    <3>2. Stream(responses', r, Held(r)', Sent(r)', server_up') BY <1>2, <3>1
    <3> QED BY <3>2 DEF OnTheWay
  <2> QED BY <2>1, <2>2 DEF OnTheWay
<1>5. HadAll(r)'
  <2>1. Done(r)' <=> Done(r) BY DEF Done, Terminal
  <2>2. InReplies(replies', r, EndMessage(r)) <=> InReplies(replies, r, EndMessage(r)) BY DEF InReplies
  <2> QED BY <1>1, <1>2, <2>1, <2>2 DEF FlowOf, HadAll
<1> QED BY <1>3, <1>4, <1>5 DEF FlowOf

(* The caller's own steps, and those of the client's task that send. *)
LEMMA FlowCalls ==
    ASSUME SessionInv, NEW q \in Rpcs, UNCHANGED serverVars, NEW r \in Streaming,
           \/ CheckAlive(q) \/ Submit(q) \/ DropCompletion(q) \/ Poll(q) \/ OnNew(q) \/ OnCancel(q)
    PROVE  FlowOf(r)'
<1> USE DEF SessionInv
<1>1. FlowOf(r) /\ r \in Rpcs /\ got[r] \in Seq(Nat) /\ channel[r] \in Seq(Nat) BY FlowTypes DEF FlowInv
<1>2. /\ user \in [Rpcs -> {"idle", "sending", "waiting", "resolved", "dropped"}]
      /\ result \in [Rpcs -> {"none", "response", "cancelled", "finished", "closed"}]
      /\ channel \in [Rpcs -> Seq(Nat)] /\ got \in [Rpcs -> Seq(Nat)]
  BY DEF TypeInv, ClientType
<1>3. \A p \in Rpcs : New(r) # Cancel(p) /\ (New(r) = New(p) => r = p) /\ (Cancel(r) = Cancel(p) => r = p)
  BY DEF New, Cancel
<1>4. /\ UNCHANGED <<responses, client_up, server_up, replies, made, work>>
      /\ UNCHANGED replies[r] /\ made'[r] = made[r] /\ Sent(r)' = Sent(r)
  BY DEF CheckAlive, Submit, DropCompletion, Poll, PollUnary, PollItem, PollEmpty, PollFinished, PollPending, Resolve,
         OnNew, OnCancel, wireVars, serverVars, Sent
<1>5. CASE CheckAlive(q)
  <2>1. /\ UNCHANGED <<got, channel, queue, in_flight>> /\ UNCHANGED <<got[r], channel[r]>>
        /\ result'[r] = "finished" /\ user'[r] = "resolved" => result[r] = "finished" /\ user[r] = "resolved"
        /\ user'[r] = "waiting" => user[r] = "waiting"
    BY <1>1, <1>2, <1>5 DEF CheckAlive
  <2> QED BY <1>4, <2>1, FlowSame DEF HasCompleter
<1>6. CASE Submit(q)
  <2>1. /\ UNCHANGED <<got, channel, result, in_flight>> /\ UNCHANGED <<got[r], channel[r]>>
        /\ queue' = queue \cup {New(q)}
        /\ user'[r] = "waiting" => user[r] = "waiting" \/ (r = q /\ user[r] = "sending")
        /\ user'[r] = "resolved" => user[r] = "resolved"
    BY <1>1, <1>2, <1>6 DEF Submit
  <2>2. HasCompleter(r) => HasCompleter(r)' BY <2>1 DEF HasCompleter
  <2>3. r = q => HasCompleter(r)' BY <2>1 DEF HasCompleter
  <2>4. r = q => Unsent(r) BY <1>6 DEF Submit, Unsent
  <2> QED BY <1>4, <2>1, <2>2, <2>3, <2>4, FlowSame
<1>7. CASE OnNew(q)
  <2>1. /\ UNCHANGED <<got, channel, result, user>> /\ UNCHANGED <<got[r], channel[r]>>
        /\ queue' = queue \ {New(q)} /\ in_flight' = in_flight \cup {q} /\ New(q) \in queue
    BY <1>7 DEF OnNew
  <2>2. HasCompleter(r) => HasCompleter(r)' BY <1>1, <1>3, <2>1 DEF HasCompleter
  <2>3. r = q => Unsent(r) BY <2>1 DEF Unsent
  <2> QED BY <1>4, <2>1, <2>2, <2>3, FlowSame
<1>8. CASE OnCancel(q)
  <2>1. /\ UNCHANGED <<got, channel, result, user>> /\ UNCHANGED <<got[r], channel[r]>>
        /\ queue' = queue \ {Cancel(q)} /\ in_flight' = in_flight \ {q} /\ user[q] = "dropped"
    BY <1>8 DEF OnCancel, CallerInv
  <2>2. user[r] = "waiting" /\ HasCompleter(r) => HasCompleter(r)' BY <1>1, <1>3, <2>1 DEF HasCompleter
  <2> QED BY <1>4, <2>1, <2>2, FlowSame
<1>9. CASE r # q /\ (DropCompletion(q) \/ Poll(q))
  <2>1. /\ UNCHANGED in_flight /\ UNCHANGED <<got[r], channel[r]>>
        /\ user'[r] = user[r] /\ result'[r] = result[r]
    BY <1>1, <1>2, <1>9 DEF DropCompletion, Poll, PollUnary, PollItem, PollEmpty, PollFinished, PollPending, Resolve
  <2>2. New(r) \in queue => New(r) \in queue'
    BY <1>9 DEF DropCompletion, Poll, PollUnary, PollItem, PollEmpty, PollFinished, PollPending, Resolve
  <2> QED BY <1>4, <2>1, <2>2, FlowSame DEF HasCompleter
<1>10. CASE r = q /\ DropCompletion(q)
  <2>1. got'[r] = got[r] /\ channel'[r] = <<>> /\ user'[r] = "dropped" /\ result'[r] = result[r]
    BY <1>1, <1>2, <1>10 DEF DropCompletion
  <2>2. HeldFirst(r)'
    <3>1. Len(channel'[r]) = 0 /\ DOMAIN channel'[r] = {} BY <2>1
    <3>2. Held(r)' <= Held(r) BY <2>1, <3>1, FlowTypes DEF Held
    <3>3. Held(r)' \in Nat BY <2>1, <3>1, FlowTypes DEF Held
    <3>4. Held(r)' <= Sent(r)' BY <1>1, <1>4, <3>2, <3>3, FlowTypes DEF FlowOf, HeldFirst
    <3>5. Ordered(got'[r], channel'[r]) BY <1>1, <2>1, <3>1 DEF FlowOf, HeldFirst, Ordered
    <3> QED BY <3>4, <3>5 DEF HeldFirst
  <2>3. OnTheWay(r)' BY <2>1 DEF OnTheWay
  <2>4. HadAll(r)' BY <1>1, <1>4, <2>1 DEF FlowOf, HadAll, Done, InReplies, Terminal
  <2> QED BY <2>2, <2>3, <2>4 DEF FlowOf
<1>11. CASE r = q /\ PollItem(q)
  <2>1. /\ channel[r] # <<>> /\ UNCHANGED <<user, result, queue, in_flight>>
        /\ got'[r] = Append(got[r], Head(channel[r])) /\ channel'[r] = Tail(channel[r])
        /\ user[r] = "waiting"
    BY <1>1, <1>2, <1>11 DEF PollItem
  <2>2. Ordered(got'[r], channel'[r]) /\ Held(r)' = Held(r)
    BY <1>1, <2>1, OrderedTaken DEF Held, FlowOf, HeldFirst
  <2>3. HeldFirst(r)' BY <1>1, <1>4, <2>2 DEF FlowOf, HeldFirst
  <2>4. OnTheWay(r)' BY <1>1, <1>4, <2>1, <2>2 DEF FlowOf, OnTheWay
  <2>5. result[r] = "none" BY <1>1, <2>1 DEF CallerInv
  <2>6. HasCompleter(r)' <=> HasCompleter(r) BY <2>1 DEF HasCompleter
  <2>7. HadAll(r)' BY <1>1, <1>4, <2>1, <2>2, <2>5, <2>6 DEF FlowOf, HadAll, Done, InReplies, Terminal
  <2> QED BY <2>3, <2>4, <2>7 DEF FlowOf
<1>12. CASE r = q /\ PollFinished(q)
  <2>1. /\ UNCHANGED <<got, channel>> /\ user'[r] = "resolved" /\ ~HasCompleter(r)
        /\ user[r] = "waiting"
    BY <1>1, <1>2, <1>12 DEF PollFinished, Resolve
  <2>2. HeldFirst(r)' BY <1>1, <1>4, <2>1 DEF FlowOf, HeldFirst, Ordered, Held
  <2>3. OnTheWay(r)' BY <2>1 DEF OnTheWay
  <2>4. Held(r)' = Held(r) BY <2>1 DEF Held
  <2>5. HadAll(r)' BY <1>1, <1>4, <2>1, <2>4 DEF FlowOf, HadAll, Done, InReplies, Terminal
  <2> QED BY <2>2, <2>3, <2>5 DEF FlowOf
<1>13. CASE r = q /\ (PollEmpty(q) \/ PollPending(q))
  <2>1. UNCHANGED <<got, channel, result, user, queue, in_flight>> /\ UNCHANGED <<got[r], channel[r]>>
    BY <1>13 DEF PollEmpty, PollPending
  <2> QED BY <1>4, <2>1, FlowSame DEF HasCompleter
<1>14. r = q => ~PollUnary(q) BY DEF PollUnary
<1> QED BY <1>5, <1>6, <1>7, <1>8, <1>9, <1>10, <1>11, <1>12, <1>13, <1>14 DEF Poll

(* The client takes a response. *)
LEMMA FlowResponse ==
    ASSUME SessionInv, OnResponse, UNCHANGED serverVars, NEW r \in Streaming
    PROVE  FlowOf(r)'
<1> USE DEF SessionInv
<1>1. /\ FlowOf(r) /\ r \in Rpcs /\ got[r] \in Seq(Nat) /\ channel[r] \in Seq(Nat)
      /\ Held(r) \in Nat /\ Sent(r) \in Nat /\ Len(got[r]) \in Nat /\ Len(channel[r]) \in Nat
  BY FlowTypes DEF FlowInv
<1>2. /\ channel \in [Rpcs -> Seq(Nat)] /\ server_up \in BOOLEAN /\ responses \in Seq(WireMessage)
  BY DEF TypeInv, ClientType, WireType
<1>3. /\ responses # <<>> /\ responses' = Tail(responses) /\ client_up
      /\ UNCHANGED <<user, result, queue, got, client_up, server_up, replies, made, work>>
      /\ Sent(r)' = Sent(r) /\ got'[r] = got[r]
  BY DEF OnResponse, OnControl, OnItem, OnUnary, OnUnregistered, Response, serverVars, Sent
<1>4. PICK m \in WireMessage : m = Head(responses) /\ m = responses[1] /\ 1 \in DOMAIN responses
  BY <1>2, <1>3, Taken
<1>5. m.id \in Rpcs /\ m.item \in Nat BY DEF WireMessage
<1>6. 1 \in At(responses, r) <=> m.id = r /\ m.code = "normal" BY <1>4 DEF At
<1>7. /\ Done(r)' <=> Done(r)
      /\ InReplies(replies', r, EndMessage(r)) <=> InReplies(replies, r, EndMessage(r))
  BY <1>3 DEF Done, InReplies, Terminal
<1>8. CASE m.id = r /\ m.code = "normal" /\ r \in in_flight /\ user[r] = "waiting"
  <2>1. channel' = [channel EXCEPT ![r] = Append(channel[r], m.item)] /\ in_flight' = in_flight
    BY <1>4, <1>8 DEF OnResponse, OnControl, OnItem, OnUnary, OnUnregistered, Completed
  <2>2. channel'[r] = Append(channel[r], m.item) BY <1>1, <1>2, <2>1
  <2>3. Stream(responses, r, Held(r), Sent(r), server_up) BY <1>1, <1>8 DEF FlowOf, OnTheWay
  <2>4. /\ m.item = Held(r) + 1 /\ Held(r) + 1 <= Sent(r)
        /\ Stream(responses', r, Held(r) + 1, Sent(r), server_up)
    BY <1>1, <1>2, <1>3, <1>4, <1>6, <1>8, <2>3, StreamTakenItem
  <2>5. Ordered(got[r], channel'[r]) /\ Len(channel'[r]) = Len(channel[r]) + 1
    BY <1>1, <1>5, <2>2, <2>4, OrderedAdded DEF FlowOf, HeldFirst, Held
  <2>6. Held(r)' = Held(r) + 1
    <3>1. PICK a \in Nat, b \in Nat : a = Len(got[r]) /\ b = Len(channel[r]) BY <1>1
    <3>2. Held(r) = a + b BY <3>1 DEF Held
    <3>3. Held(r)' = a + (b + 1) BY <1>3, <2>5, <3>1 DEF Held
    <3> QED BY <3>2, <3>3
  <2>7. HeldFirst(r)' BY <1>3, <2>4, <2>5, <2>6 DEF HeldFirst
  <2>8. OnTheWay(r)'
    <3>1. Stream(responses', r, Held(r)', Sent(r)', server_up') BY <1>3, <2>4, <2>6
    <3> QED BY <3>1 DEF OnTheWay
  <2>9. result[r] = "none" BY <1>1, <1>8 DEF CallerInv
  <2>10. HadAll(r)' BY <1>3, <1>8, <2>1, <2>9 DEF HadAll, HasCompleter
  <2> QED BY <2>7, <2>8, <2>10 DEF FlowOf
<1>9. CASE ~(m.id = r /\ m.code = "normal" /\ r \in in_flight /\ user[r] = "waiting")
  <2>1. channel'[r] = channel[r]
    BY <1>1, <1>2, <1>4, <1>5, <1>9 DEF OnResponse, OnControl, OnItem, OnUnary, OnUnregistered, Completed
  <2>2. in_flight' \subseteq in_flight
    BY DEF OnResponse, OnControl, OnItem, OnUnary, OnUnregistered
  <2>3. Held(r)' = Held(r) BY <1>3, <2>1 DEF Held
  <2>4. HeldFirst(r)' BY <1>1, <1>3, <2>1, <2>3 DEF FlowOf, HeldFirst, Ordered
  <2>5. OnTheWay(r)'
    <3> SUFFICES ASSUME r \in in_flight', user'[r] = "waiting"
                 PROVE  Stream(responses', r, Held(r)', Sent(r)', server_up')
      BY DEF OnTheWay
    <3>1. r \in in_flight /\ user[r] = "waiting" BY <1>3, <2>2
    <3>2. Stream(responses, r, Held(r), Sent(r), server_up) BY <1>1, <3>1 DEF FlowOf, OnTheWay
    <3>3. 1 \notin At(responses, r) BY <1>6, <1>9, <3>1
    <3>4. Stream(Tail(responses), r, Held(r), Sent(r), server_up)
      BY <1>1, <1>2, <1>3, <3>2, <3>3, StreamTakenOther
    <3> QED BY <1>3, <2>3, <3>4
  <2>6. ASSUME client_up', user'[r] = "waiting", ~HasCompleter(r)'
        PROVE  Done(r)' /\ (InReplies(replies', r, EndMessage(r)) => Held(r)' = made'[r])
    <3>1. CASE r \notin in_flight
      <4>1. ~HasCompleter(r) BY <1>3, <2>6, <3>1 DEF HasCompleter
      <4> QED BY <1>1, <1>3, <1>7, <2>3, <2>6, <4>1 DEF FlowOf, HadAll
    <3>2. CASE r \in in_flight
      <4>1. r \notin in_flight' BY <2>6 DEF HasCompleter
      <4>2. m.id = r /\ m.code # "normal"
        BY <1>4, <3>2, <4>1 DEF OnResponse, OnControl, OnItem, OnUnary, OnUnregistered
      <4>3. InReplies(replies, r, m) BY <1>4, <4>2 DEF ReplyInv, AllReplied
      <4>4. Terminal(r, m) BY <4>2 DEF Terminal
      <4>5. Done(r) BY <4>3, <4>4 DEF InReplies, Done
      <4>6. ASSUME InReplies(replies, r, EndMessage(r)) PROVE Held(r) = made[r]
        <5>1. Terminal(r, EndMessage(r)) BY DEF Terminal, EndMessage
        <5>2. PICK k \in DOMAIN replies[r] : replies[r][k] = m BY <4>3 DEF InReplies
        <5>3. PICK l \in DOMAIN replies[r] : replies[r][l] = EndMessage(r) BY <4>6 DEF InReplies
        <5>4. k = l BY <1>1, <4>4, <5>1, <5>2, <5>3 DEF OnceInv, OneTerminal
        <5>5. m = EndMessage(r) BY <5>2, <5>3, <5>4
        <5>6. Stream(responses, r, Held(r), Sent(r), server_up) BY <1>1, <1>3, <2>6, <3>2 DEF FlowOf, OnTheWay
        <5>7. Whole(responses, r, Held(r) + 1, Sent(r)) BY <1>4, <5>5, <5>6 DEF Stream
        <5>8. \A j \in At(responses, r) : j <= 1 /\ j # 1 /\ j \in Nat \ {0}
          <6>1. \A j \in DOMAIN responses : j \in Nat \ {0} BY <1>2, LenProperties
          <6>2. \A j \in At(responses, r) : j # 1 BY <1>6, <4>2
          <6>3. \A j \in At(responses, r) : j \in DOMAIN responses /\ responses[j].id = r BY DEF At
          <6>4. \A j \in At(responses, r) : j <= 1
            BY <1>4, <4>2, <4>4, <6>3 DEF ReplyInv, TerminalsLast
          <6> QED BY <6>1, <6>2, <6>3, <6>4
        <5>9. At(responses, r) = {} BY <5>8
        <5>10. \A n \in Held(r) + 1 .. Sent(r) : FALSE BY <5>7, <5>9 DEF Whole
        <5>11. Held(r) <= Sent(r) BY <1>1 DEF FlowOf, HeldFirst
        <5>12. Held(r) = Sent(r)
          <6>1. Held(r) < Sent(r) => Held(r) + 1 \in Held(r) + 1 .. Sent(r) BY <1>1
          <6> QED BY <1>1, <5>10, <5>11, <6>1
        <5>13. work[r] = 0 BY <1>1, <4>6 DEF ReplyInv, EndsAfterItems
        <5> QED BY <5>12, <5>13, FlowTypes DEF Sent
      <4> QED BY <1>3, <1>7, <2>3, <4>5, <4>6
    <3> QED BY <3>1, <3>2
  <2>7. HadAll(r)' BY <1>1, <1>3, <1>7, <2>3, <2>6 DEF FlowOf, HadAll
  <2> QED BY <2>4, <2>5, <2>7 DEF FlowOf
<1> QED BY <1>8, <1>9

(* A message is sent for an rpc that has not had its last word: for any caller its stream *)
(* is no more over than before.                                                           *)
LEMMA HadAllSent ==
    ASSUME SessionInv, NEW r \in Streaming, NEW q \in Rpcs, NEW m \in WireMessage,
           replies' = [replies EXCEPT ![q] = Append(@, m)],
           \A i \in DOMAIN replies[q] : ~Terminal(q, replies[q][i]),
           UNCHANGED <<clientVars, client_up, made>>
    PROVE  HadAll(r)'
<1> USE DEF SessionInv
<1>1. FlowOf(r) /\ r \in Rpcs BY FlowTypes DEF FlowInv
<1>2. UNCHANGED <<user, result, queue, in_flight, channel, got>> BY DEF clientVars
<1>3. Held(r)' = Held(r) /\ (HasCompleter(r)' <=> HasCompleter(r)) BY <1>2 DEF Held, HasCompleter
<1>4. CASE r = q
  <2>1. ~Done(r) BY <1>4 DEF Done
  <2> QED BY <1>1, <1>2, <1>3, <2>1 DEF FlowOf, HadAll
<1>5. CASE r # q
  <2>1. replies'[r] = replies[r] BY <1>1, <1>5 DEF TypeInv, ServerType
  <2>2. /\ Done(r)' <=> Done(r)
        /\ InReplies(replies', r, EndMessage(r)) <=> InReplies(replies, r, EndMessage(r))
    BY <2>1 DEF Done, InReplies, Terminal
  <2> QED BY <1>1, <1>2, <1>3, <2>2 DEF FlowOf, HadAll
<1> QED BY <1>4, <1>5

(* A message that is not an item of r is sent. *)
LEMMA FlowSentOther ==
    ASSUME SessionInv, NEW r \in Streaming, NEW q \in Rpcs, NEW m \in WireMessage,
           responses' = Append(responses, m), server_up, UNCHANGED server_up,
           replies' = [replies EXCEPT ![q] = Append(@, m)],
           \A i \in DOMAIN replies[q] : ~Terminal(q, replies[q][i]),
           UNCHANGED <<clientVars, client_up, made>>, work'[r] = work[r],
           ~(m.id = r /\ m.code = "normal")
    PROVE  FlowOf(r)'
<1> USE DEF SessionInv
<1>1. FlowOf(r) /\ Held(r) \in Nat /\ Sent(r) \in Nat BY FlowTypes DEF FlowInv
<1>2. UNCHANGED <<user, in_flight, channel, got>> BY DEF clientVars
<1>3. Held(r)' = Held(r) /\ Sent(r)' = Sent(r) BY <1>2 DEF Held, Sent
<1>4. HeldFirst(r)' BY <1>1, <1>2, <1>3 DEF FlowOf, HeldFirst, Ordered
<1>5. OnTheWay(r)'
  <2> SUFFICES ASSUME r \in in_flight, user[r] = "waiting"
               PROVE  Stream(responses', r, Held(r)', Sent(r)', server_up')
    BY <1>2 DEF OnTheWay
  <2>1. server_up = TRUE /\ server_up' = TRUE /\ responses \in Seq(WireMessage)
    BY DEF TypeInv, WireType
  <2>2. Stream(responses, r, Held(r), Sent(r), TRUE) BY <1>1, <2>1 DEF FlowOf, OnTheWay
  <2>3. Stream(responses', r, Held(r), Sent(r), TRUE) BY <1>1, <2>1, <2>2, StreamSentOther
  <2> QED BY <1>3, <2>1, <2>3
<1>6. HadAll(r)' BY HadAllSent
<1> QED BY <1>4, <1>5, <1>6 DEF FlowOf

(* Every step keeps the streams whole and in order. *)
LEMMA FlowNext == SessionInv /\ [Next]_vars => FlowInv'
<1> SUFFICES ASSUME SessionInv, [Next]_vars, NEW r \in Streaming PROVE FlowOf(r)' BY DEF FlowInv
<1> USE DEF SessionInv
<1>0. OneServing BY DEF OnceInv
<1>1. /\ FlowOf(r) /\ r \in Rpcs /\ Held(r) \in Nat /\ Sent(r) \in Nat
      /\ made[r] \in Nat /\ work[r] \in Nat
  BY FlowTypes DEF FlowInv
<1>2. ASSUME NEW q \in Rpcs, UNCHANGED serverVars,
             \/ CheckAlive(q) \/ Submit(q) \/ DropCompletion(q) \/ Poll(q) \/ OnNew(q) \/ OnCancel(q)
      PROVE  FlowOf(r)'
  BY <1>2, FlowCalls
<1>3. ASSUME OnResponse, UNCHANGED serverVars PROVE FlowOf(r)' BY <1>3, FlowResponse
<1>4. ASSUME ClientDrops, UNCHANGED serverVars PROVE FlowOf(r)'
  <2>1. /\ UNCHANGED <<responses, server_up, got[r], channel[r], replies[r]>> /\ Sent(r)' = Sent(r)
        /\ ~client_up' /\ made'[r] = made[r] /\ result' = result /\ user' = user /\ r \notin in_flight'
    BY <1>4 DEF ClientDrops, DroppedCompletions, serverVars, Sent
  <2> QED BY <2>1, FlowSame
<1>5. ASSUME UNCHANGED <<responses, client_up, server_up, replies, clientVars>>,
             Sent(r)' = Sent(r), Done(r) => made'[r] = made[r]
      PROVE  FlowOf(r)'
  <2>1. /\ UNCHANGED <<got[r], channel[r], replies[r]>> /\ result' = result /\ in_flight' = in_flight
        /\ user' = user /\ queue' = queue
    BY <1>5 DEF clientVars
  <2>2. HasCompleter(r)' <=> HasCompleter(r) BY <2>1 DEF HasCompleter
  <2> QED BY <1>5, <2>1, <2>2, FlowSame
<1>6. ASSUME OnInbound, UNCHANGED clientVars PROVE FlowOf(r)'
  <2>1. UNCHANGED <<responses, client_up, server_up, replies, made, work>>
    BY <1>6 DEF OnInbound, Accept, Reject, Abort, AbortUntracked, Request, serverVars, serviceVars
  <2> QED BY <1>5, <1>6, <2>1 DEF Sent
<1>7. ASSUME ReplyRejected, UNCHANGED clientVars PROVE FlowOf(r)'
  <2>1. PICK q \in Rpcs :
             /\ Refused(q) /\ responses' = Append(responses, Cancelled(q)) /\ server_up
             /\ replies' = [replies EXCEPT ![q] = Append(@, Cancelled(q))]
             /\ UNCHANGED <<client_up, server_up, serviceVars>>
    BY <1>7, RefusedAnswered
  <2>2. DOMAIN replies[q] = {} BY <1>0, <2>1 DEF OneServing
  <2>3. Cancelled(q) \in WireMessage /\ Cancelled(q).code # "normal" BY Messages DEF Cancelled
  <2>4. UNCHANGED <<work, made>> BY <2>1 DEF serviceVars
  <2> QED BY <1>7, <2>1, <2>2, <2>3, <2>4, FlowSentOther
<1>8. ASSUME ServerDrops, UNCHANGED clientVars PROVE FlowOf(r)'
  <2>1. PICK n \in 0 .. Len(responses) : responses' = SubSeq(responses, 1, n) BY <1>8 DEF ServerDrops
  <2>2. /\ UNCHANGED <<replies, work, made, client_up>> /\ server_up' = FALSE
        /\ UNCHANGED <<user, result, queue, in_flight, channel, got>>
    BY <1>8 DEF ServerDrops, serviceVars, clientVars
  <2>3. Held(r)' = Held(r) /\ Sent(r)' = Sent(r) BY <2>2 DEF Held, Sent
  <2>4. HeldFirst(r)' BY <1>1, <2>2, <2>3 DEF FlowOf, HeldFirst, Ordered
  <2>5. OnTheWay(r)'
    <3> SUFFICES ASSUME r \in in_flight, user[r] = "waiting"
                 PROVE  Stream(responses', r, Held(r)', Sent(r)', server_up')
      BY <2>2 DEF OnTheWay
    <3>1. Stream(responses, r, Held(r), Sent(r), server_up) BY <1>1 DEF FlowOf, OnTheWay
    <3>2. responses \in Seq(WireMessage) /\ server_up \in BOOLEAN /\ TerminalsLast(responses)
      BY DEF TypeInv, WireType, ReplyInv
    <3>3. Stream(SubSeq(responses, 1, n), r, Held(r), Sent(r), FALSE) BY <1>1, <3>1, <3>2, StreamCut
    <3> QED BY <2>1, <2>2, <2>3, <3>3
  <2>6. HadAll(r)'
    <3>1. /\ Done(r)' <=> Done(r)
          /\ HasCompleter(r)' <=> HasCompleter(r)
          /\ InReplies(replies', r, EndMessage(r)) <=> InReplies(replies, r, EndMessage(r))
      BY <2>2 DEF Done, InReplies, Terminal, HasCompleter
    <3> QED BY <1>1, <2>2, <2>3, <3>1 DEF FlowOf, HadAll
  <2> QED BY <2>4, <2>5, <2>6 DEF FlowOf
<1>9. ASSUME NEW q \in Rpcs, UNCHANGED clientVars, ServiceMakes(q) \/ ServiceEnds(q) \/ PollRpcPending(q)
      PROVE  FlowOf(r)'
  <2>1. /\ q \in rpcs /\ UNCHANGED <<responses, client_up, server_up, replies>>
        /\ \/ UNCHANGED <<work, made>>
           \/ work' = [work EXCEPT ![q] = @ + 1] /\ made' = [made EXCEPT ![q] = @ + 1]
    BY <1>9 DEF ServiceMakes, ServiceEnds, PollRpcPending, Polled, serviceVars, wireVars
  <2>2. work \in [Rpcs -> Nat] /\ made \in [Rpcs -> Nat] BY DEF TypeInv, ServerType
  <2>3. Done(r) => r # q BY <1>0, <2>1 DEF OneServing, Done
  <2>4. Done(r) => made'[r] = made[r] BY <1>1, <2>1, <2>2, <2>3
  <2>5. \/ work'[r] = work[r] /\ made'[r] = made[r]
        \/ work'[r] = work[r] + 1 /\ made'[r] = made[r] + 1
    BY <1>1, <2>1, <2>2
  <2>6. Sent(r)' = Sent(r) BY <1>1, <2>5 DEF Sent
  <2> QED BY <1>5, <1>9, <2>1, <2>4, <2>6
<1>10. ASSUME NEW q \in Rpcs, NEW m, SendsItem(q, m) \/ SendsLast(q, m) PROVE FlowOf(r)'
  <2>1. /\ q \in rpcs /\ m \in WireMessage /\ m.id = q /\ server_up
        /\ responses' = Append(responses, m)
        /\ replies' = [replies EXCEPT ![q] = Append(@, m)]
        /\ UNCHANGED <<clientVars, client_up, server_up, made>>
    BY <1>10 DEF SendsItem, SendsLast, Sends
  <2>2. \A i \in DOMAIN replies[q] : ~Terminal(q, replies[q][i]) BY <1>0, <2>1 DEF OneServing
  <2>3. work \in [Rpcs -> Nat] BY DEF TypeInv, ServerType
  <2>4. CASE ~(m.id = r /\ m.code = "normal")
    <3>1. work'[r] = work[r] BY <1>1, <1>10, <2>1, <2>3, <2>4 DEF SendsItem, SendsLast
    <3> QED BY <2>1, <2>2, <2>4, <3>1, FlowSentOther
  <2>5. CASE m.id = r /\ m.code = "normal"
    <3>1. SendsItem(r, m) BY <1>10, <2>1, <2>5 DEF SendsLast
    <3>2. m.item = Sent(r) + 1 BY <3>1 DEF SendsItem, Sent
    <3>3. UNCHANGED <<user, in_flight, channel, got>> BY <2>1 DEF clientVars
    <3>4. Held(r)' = Held(r) BY <3>3 DEF Held
    <3>5. Sent(r)' = Sent(r) + 1
      <4>1. work'[r] = work[r] - 1 /\ made'[r] = made[r] BY <1>1, <2>1, <2>3, <3>1 DEF SendsItem
      <4> QED BY <1>1, <4>1 DEF Sent
    <3>6. Held(r) <= Sent(r) BY <1>1 DEF FlowOf, HeldFirst
    <3>7. HeldFirst(r)'
      <4>1. Held(r)' <= Sent(r)' BY <1>1, <3>4, <3>5, <3>6
      <4> QED BY <1>1, <3>3, <4>1 DEF FlowOf, HeldFirst, Ordered
    <3>8. OnTheWay(r)'
      <4> SUFFICES ASSUME r \in in_flight, user[r] = "waiting"
                   PROVE  Stream(responses', r, Held(r)', Sent(r)', server_up')
        BY <3>3 DEF OnTheWay
      <4>1. server_up = TRUE /\ server_up' = TRUE /\ responses \in Seq(WireMessage)
        BY <2>1 DEF TypeInv, WireType
      <4>2. Stream(responses, r, Held(r), Sent(r), TRUE) BY <1>1, <4>1 DEF FlowOf, OnTheWay
      <4>3. Stream(responses', r, Held(r), Sent(r) + 1, TRUE)
        BY <1>1, <2>1, <2>5, <3>2, <3>6, <4>1, <4>2, StreamSentItem
      <4> QED BY <3>4, <3>5, <4>1, <4>3
    <3>9. HadAll(r)' BY <2>1, <2>2, HadAllSent
    <3> QED BY <3>7, <3>8, <3>9 DEF FlowOf
  <2> QED BY <2>4, <2>5
<1>11. CASE UNCHANGED vars BY <1>5, <1>11 DEF vars, wireVars, serverVars, Sent
<1> QED BY <1>2, <1>3, <1>4, <1>6, <1>7, <1>8, <1>9, <1>10, <1>11, StepForms

(* A new session satisfies the invariant. *)
LEMMA SessionInit == Init => SessionInv
<1> SUFFICES ASSUME Init PROVE SessionInv OBVIOUS
<1>1. TypeInv /\ OnceInv BY TypeInit, OnceInit
<1>2. /\ responses = <<>> /\ queue = {} /\ in_flight = {}
      /\ \A r \in Rpcs : /\ replies[r] = <<>> /\ made[r] = 0 /\ work[r] = 0 /\ user[r] = "idle"
                         /\ result[r] = "none" /\ got[r] = <<>> /\ channel[r] = <<>>
  BY DEF Init, WireInit, ClientInit, ServerInit
<1>3. DOMAIN responses = {} BY <1>2
<1>4. ReplyInv BY <1>2, <1>3 DEF ReplyInv, AllReplied, TerminalsLast, EndsAfterItems
<1>5. CallerInv BY <1>2 DEF CallerInv
<1>6. ASSUME NEW r \in Streaming PROVE FlowOf(r)
  <2>1. r \in Rpcs BY RpcAssumption
  <2>2. Len(got[r]) = 0 /\ Len(channel[r]) = 0 /\ DOMAIN got[r] = {} /\ DOMAIN channel[r] = {} BY <1>2, <2>1
  <2>3. Held(r) = 0 /\ Sent(r) = 0 BY <1>2, <2>1, <2>2 DEF Held, Sent
  <2>4. HeldFirst(r) BY <2>2, <2>3 DEF HeldFirst, Ordered
  <2> QED BY <1>2, <2>1, <2>4 DEF FlowOf, OnTheWay, HadAll
<1> QED BY <1>1, <1>4, <1>5, <1>6 DEF SessionInv, FlowInv

(* The inductive invariant of a session: what each rpc's caller holds, what is on the way *)
(* to it and what the server sent fit together, and the caller of a stream whose end was  *)
(* told has had, or has waiting, every item (RpcCompletionReactor, RpcSubmitter).         *)
THEOREM SessionHolds == Spec => []SessionInv
<1>1. SessionInv /\ [Next]_vars => SessionInv'
  <2> SUFFICES ASSUME SessionInv, [Next]_vars PROVE SessionInv' OBVIOUS
  <2>1. TypeInv /\ OnceInv /\ ReplyInv /\ CallerInv BY DEF SessionInv
  <2>2. TypeInv' BY <2>1, TypeNext
  <2>3. OnceInv' BY <2>1, OnceNext
  <2>4. ReplyInv' BY <2>1, ReplyNext
  <2>5. CallerInv' BY <2>1, CallerNext
  <2>6. FlowInv' BY FlowNext
  <2> QED BY <2>2, <2>3, <2>4, <2>5, <2>6 DEF SessionInv
<1> QED BY <1>1, SessionInit, PTL DEF Spec

(* The caller of a streaming rpc has a prefix of the service's items, in order, whatever *)
(* is dropped, cancelled or lost (StreamingCompletion, RpcCompletionReactor::            *)
(* on_inbound_message).                                                                  *)
THEOREM StreamsInOrder == Spec => []ItemsInOrder
<1>1. SessionInv => ItemsInOrder
  <2> SUFFICES ASSUME SessionInv, NEW r \in Streaming, NEW w, w = got[r] \o channel[r]
               PROVE  Len(w) <= made[r] /\ \A i \in DOMAIN w : w[i] = i
    BY DEF ItemsInOrder
  <2>1. TypeInv /\ HeldFirst(r) BY DEF SessionInv, FlowInv, FlowOf
  <2>2. /\ got[r] \in Seq(Nat) /\ channel[r] \in Seq(Nat) /\ Held(r) \in Nat
        /\ Sent(r) \in Nat /\ made[r] \in Nat /\ Sent(r) <= made[r]
    BY <2>1, FlowTypes
  <2>3. PICK a \in Nat, b \in Nat : a = Len(got[r]) /\ b = Len(channel[r]) BY <2>1, FlowTypes
  <2>4. /\ w \in Seq(Nat) /\ Len(w) = a + b
        /\ \A i \in 1 .. a + b : w[i] = IF i <= a THEN got[r][i] ELSE channel[r][i - a]
    BY <2>2, <2>3, ConcatProperties
  <2>5. DOMAIN w = 1 .. a + b BY <2>4, LenProperties
  <2>6. DOMAIN got[r] = 1 .. a /\ DOMAIN channel[r] = 1 .. b BY <2>2, <2>3, LenProperties
  <2>7. \A i \in 1 .. a : got[r][i] = i BY <2>1, <2>6 DEF HeldFirst, Ordered
  <2>8. \A i \in 1 .. b : channel[r][i] = a + i BY <2>1, <2>3, <2>6 DEF HeldFirst, Ordered
  <2>9. ASSUME NEW i \in 1 .. a + b PROVE w[i] = i
    <3>1. CASE i <= a
      <4>1. i \in 1 .. a BY <3>1
      <4> QED BY <2>4, <2>7, <3>1, <4>1
    <3>2. CASE ~(i <= a)
      <4>1. i - a \in 1 .. b /\ a + (i - a) = i BY <3>2
      <4> QED BY <2>4, <2>8, <3>2, <4>1
    <3> QED BY <3>1, <3>2
  <2>10. Held(r) = a + b BY <2>3 DEF Held
  <2>11. Len(w) <= made[r] BY <2>1, <2>2, <2>4, <2>10 DEF HeldFirst
  <2> QED BY <2>5, <2>9, <2>11
<1> QED BY <1>1, SessionHolds, PTL

(* When a stream that the service ended is finished for its caller, the caller has had  *)
(* every item but those put into its channel since it was found empty                   *)
(* (CompletionRegistry::deregister, StreamingCompletion::poll_next).                    *)
THEOREM FinishedStreamsMissOnlyLate == Spec => []FinishedMissesOnlyLate
<1>1. SessionInv => FinishedMissesOnlyLate
  <2> SUFFICES ASSUME SessionInv, NEW r \in Streaming, result[r] = "finished", user[r] = "resolved",
                      client_up, EndedByService(r)
               PROVE  Held(r) = made[r]
    BY DEF FinishedMissesOnlyLate, Held
  <2>1. InReplies(replies, r, EndMessage(r)) BY DEF InReplies, EndedByService
  <2>2. HadAll(r) BY DEF SessionInv, FlowInv, FlowOf
  <2> QED BY <2>1, <2>2 DEF HadAll
<1> QED BY <1>1, SessionHolds, PTL
=============================================================================
