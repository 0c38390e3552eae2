----------------------------- MODULE RpcServer ------------------------------
(***************************************************************************)
(* The server's end of an rpc connection: the RpcSubmitter, a reactor that *)
(* keeps the rpcs of its connection in a FuturesUnordered pool, the        *)
(* AbortionTracker and the RpcStream state of each rpc.  The service's own *)
(* futures and streams are the environment: they become ready when they    *)
(* like.                                                                   *)
(***************************************************************************)
EXTENDS RpcWire

VARIABLES
    rpcs,               \* the pool
    woken,              \* the rpcs of the pool that poll_next would poll
    aborts,             \* AbortionTracker: the rpcs with an abort handle
    aborted,            \* the rpcs whose handle was used
    rejections,         \* refused rpcs that have not been answered
    work, ended,        \* the service: items made and not taken; no more will come
    made,               \* items the service made
    replies             \* history: per rpc, the messages sent for it

serverVars == <<rpcs, woken, aborts, aborted, rejections, work, ended, made, replies>>
serviceVars == <<work, ended, made>>

ServerInit ==
    /\ rpcs = {} /\ woken = {} /\ aborts = {} /\ aborted = {}
    /\ rejections = <<>>
    /\ work = [r \in Rpcs |-> 0] /\ made = [r \in Rpcs |-> 0]
    /\ ended = {}
    /\ replies = [r \in Rpcs |-> <<>>]

-----------------------------------------------------------------------------
(* The service makes a response, or an item of its stream, when it likes (the example's  *)
(* echo at once: one response, or one item per byte); the pool's waker marks the rpc.     *)
ServiceMakes(r) ==
    /\ r \in rpcs \ ended
    /\ made[r] < IF r \in Streaming THEN MaxItems ELSE 1
    /\ made' = [made EXCEPT ![r] = @ + 1]
    /\ work' = [work EXCEPT ![r] = @ + 1]
    /\ woken' = woken \cup {r}
    /\ UNCHANGED <<rpcs, aborts, aborted, rejections, ended, replies, wireVars>>

(* The service's stream ends. *)
ServiceEnds(r) ==
    /\ r \in (rpcs \cap Streaming) \ ended
    /\ ended' = ended \cup {r}
    /\ woken' = woken \cup {r}
    /\ UNCHANGED <<rpcs, aborts, aborted, rejections, work, made, replies, wireVars>>

-----------------------------------------------------------------------------
(* on_inbound_message. *)
Request(code) ==
    /\ server_up /\ requests # <<>>
    /\ Head(requests).code = code
    /\ requests' = Tail(requests)
    /\ UNCHANGED <<responses, client_up, server_up>>

(* RpcStream::new: the rpc for the pool, to be polled, and its handle for the tracker. *)
NewRpcStream(r) ==
    /\ rpcs' = rpcs \cup {r}
    /\ woken' = woken \cup {r}
    /\ aborts' = aborts \cup {r}

(* new_rpc returns RpcKind::Unary or RpcKind::Streaming. *)
Accept ==
    /\ Request("normal")
    /\ NewRpcStream(Head(requests).id)
    /\ UNCHANGED <<aborted, rejections, serviceVars, replies>>

(* Mutant: a refused rpc is forgotten. *)
MutRejected(r) == <<>>

(* self.rejections.push(message_id) *)
Rejected(r) == <<r>>

(* new_rpc returns RpcKind::Cancelled. *)
Reject ==
    /\ Request("normal")
    /\ rejections' = rejections \o Rejected(Head(requests).id)
    /\ UNCHANGED <<rpcs, woken, aborts, aborted, serviceVars, replies>>

(* Mutant: the handle is marked but its rpc is not woken. *)
MutWokenBy(r) == {}

(* RpcAbortHandle's waker is the one RpcStream::poll_next registered last. *)
WokenBy(r) == {r} \cap rpcs

(* A cancellation takes the handle, marks it and wakes the rpc (mark_aborted). *)
Abort ==
    /\ Request("cancel")
    /\ LET r == Head(requests).id IN
       /\ r \in aborts
       /\ aborts' = aborts \ {r}
       /\ aborted' = aborted \cup {r}
       /\ woken' = woken \cup WokenBy(r)
    /\ UNCHANGED <<rpcs, rejections, serviceVars, replies>>

AbortUntracked ==
    /\ Request("cancel")
    /\ Head(requests).id \notin aborts
    /\ UNCHANGED serverVars

-----------------------------------------------------------------------------
(* poll_outbound_many, one message per step, while there is a permit. *)

Reply(r, m) ==
    /\ server_up /\ HasPermit(responses)
    /\ responses' = Append(responses, m)
    /\ replies' = [replies EXCEPT ![r] = Append(@, m)]
    /\ UNCHANGED <<requests, client_up, server_up>>

(* Rejections go first, the last one first. *)
ReplyRejected ==
    /\ rejections # <<>>
    /\ LET r == rejections[Len(rejections)] IN Reply(r, Cancelled(r))
    /\ rejections' = SubSeq(rejections, 1, Len(rejections) - 1)
    /\ UNCHANGED <<rpcs, woken, aborts, aborted, serviceVars>>

(* With a permit in hand, FuturesUnordered polls a woken rpc. *)
Polled(r) == server_up /\ HasPermit(responses) /\ rejections = <<>> /\ r \in rpcs \cap woken

(* Mutant: the end of a stream is not terminal. *)
MutIsTerminal(event) == event \in {"Complete", "Cancelled"}

(* RpcStreamEvent::is_terminal; the events are Item, Complete, Finished and Cancelled. *)
IsTerminal(event) == event # "Item"

(* Mutant: the item sent is the newest. *)
MutNextItem(r) == made[r]

NextItem(r) == made[r] - work[r] + 1

(* message_for_event: every message carries the rpc's id, whatever the service set. *)
MessageForEvent(r, event) ==
    CASE event = "Item" -> Normal(r, NextItem(r))
      [] event = "Complete" -> Normal(r, 1)
      [] event = "Finished" -> EndMessage(r)
      [] event = "Cancelled" -> Cancelled(r)

(* Mutant: a terminal event keeps its abort handle. *)
MutUntracked(event, r) == {}

(* take_abort of a terminal event. *)
Untracked(event, r) == IF IsTerminal(event) THEN {r} ELSE {}

(* An rpc whose event is terminal is not put back. *)
Retired(event, r) == IF IsTerminal(event) THEN {r} ELSE {}

(* The event an rpc yields is sent; an rpc that may yield more is polled again, now or *)
(* from the pool.                                                                      *)
Emit(r, event) ==
    /\ Reply(r, MessageForEvent(r, event))
    /\ rpcs' = rpcs \ Retired(event, r)
    /\ woken' = woken \ Retired(event, r)
    /\ aborts' = aborts \ Untracked(event, r)
    /\ UNCHANGED <<aborted, rejections, ended, made>>

(* RpcStream::poll_next looks at the aborted flag before the rpc itself. *)
ReplyCancelled(r) ==
    /\ Polled(r) /\ r \in aborted
    /\ Emit(r, "Cancelled")
    /\ UNCHANGED work

ReplyComplete(r) ==
    /\ Polled(r) /\ r \notin aborted /\ r \notin Streaming
    /\ work[r] > 0
    /\ Emit(r, "Complete")
    /\ work' = [work EXCEPT ![r] = @ - 1]

ReplyItem(r) ==
    /\ Polled(r) /\ r \notin aborted /\ r \in Streaming
    /\ work[r] > 0
    /\ Emit(r, "Item")
    /\ work' = [work EXCEPT ![r] = @ - 1]

(* Mutant: the end is reported before the items. *)
MutStreamDone(r) == r \in ended

(* The service's stream yields None. *)
StreamDone(r) == r \in ended /\ work[r] = 0

ReplyEnd(r) ==
    /\ Polled(r) /\ r \notin aborted /\ r \in Streaming
    /\ StreamDone(r)
    /\ Emit(r, "Finished")
    /\ UNCHANGED work

(* Poll::Pending: the rpc waits for its service or its abort handle. *)
PollRpcPending(r) ==
    /\ Polled(r) /\ r \notin aborted
    /\ work[r] = 0 /\ r \notin ended
    /\ woken' = woken \ {r}
    /\ UNCHANGED <<rpcs, aborts, aborted, rejections, serviceVars, replies, wireVars>>

(* The connection's future ends and drops the reactor, its rpcs and what it had to send. *)
ServerDrops ==
    /\ server_up
    /\ server_up' = FALSE
    /\ rpcs' = {} /\ woken' = {} /\ aborts' = {} /\ rejections' = <<>>
    /\ responses' \in {SubSeq(responses, 1, n) : n \in 0 .. Len(responses)}
    /\ UNCHANGED <<aborted, serviceVars, replies, requests, client_up>>

OnInbound == Accept \/ Reject \/ Abort \/ AbortUntracked

Outbound(r) == ReplyCancelled(r) \/ ReplyComplete(r) \/ ReplyItem(r) \/ ReplyEnd(r) \/ PollRpcPending(r)

ServerTask == OnInbound \/ ReplyRejected \/ \E r \in Rpcs : Outbound(r)

Service == \E r \in Rpcs : ServiceMakes(r) \/ ServiceEnds(r)
=============================================================================
