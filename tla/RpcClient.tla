----------------------------- MODULE RpcClient ------------------------------
(***************************************************************************)
(* The rpc client: callers with a handle on the RpcClient, the submission  *)
(* queue, the RpcCompletionReactor with its registry of completions in the *)
(* connection's task, and the completions the callers wait on.             *)
(*                                                                         *)
(* The submission queue is a spillway: it keeps the order of one Sender    *)
(* only.  A request and its cancellation are sent by two Senders (the      *)
(* client's and the clone in the CompletionGuard), so the queue is a set.  *)
(***************************************************************************)
EXTENDS RpcWire

VARIABLES
    user,               \* per rpc, its caller: "idle", "sending", "waiting", "resolved", "dropped"
    result,             \* how its completion resolved: "response", "cancelled", "finished", "closed"
    queue,              \* the submission queue
    in_flight,          \* CompletionRegistry: the rpcs with a registered completion
    is_alive,           \* the flag shared by the reactor and the clients
    channel,            \* per rpc: responses given to its completion and not yet taken
    got,                \* per rpc: responses the caller has taken
    scanned             \* streaming rpcs whose caller is in poll_next, past its scans of the channel

clientVars == <<user, result, queue, in_flight, is_alive, channel, got, scanned>>

New(r) == [kind |-> "new", id |-> r]
Cancel(r) == [kind |-> "cancel", id |-> r]

ClientInit ==
    /\ user = [r \in Rpcs |-> "idle"]
    /\ result = [r \in Rpcs |-> "none"]
    /\ queue = {} /\ in_flight = {} /\ is_alive = TRUE
    /\ channel = [r \in Rpcs |-> <<>>] /\ got = [r \in Rpcs |-> <<>>]
    /\ scanned = {}

(* The sending half of r's completion exists: in the queue or in the registry. *)
HasCompleter(r) == New(r) \in queue \/ r \in in_flight

-----------------------------------------------------------------------------
(* RpcClient::send_message, up to the check of is_alive. *)
CheckAlive(r) ==
    /\ user[r] = "idle"
    /\ IF is_alive
       THEN /\ user' = [user EXCEPT ![r] = "sending"]
            /\ UNCHANGED result
       ELSE /\ user' = [user EXCEPT ![r] = "resolved"]
            /\ result' = [result EXCEPT ![r] = "closed"]
    /\ UNCHANGED <<queue, in_flight, is_alive, channel, got, scanned, wireVars>>

(* The rest of it: the connection may have died since.  The send succeeds all the same. *)
Submit(r) ==
    /\ user[r] = "sending"
    /\ queue' = queue \cup {New(r)}
    /\ user' = [user EXCEPT ![r] = "waiting"]
    /\ UNCHANGED <<result, in_flight, is_alive, channel, got, scanned, wireVars>>

(* The caller drops its completion: CompletionGuard::drop sends a cancellation unless *)
(* set_closed was called.                                                              *)
DropCompletion(r) ==
    /\ user[r] \in {"waiting", "resolved"} /\ result[r] # "closed" /\ r \notin scanned
    /\ queue' = IF user[r] = "waiting" THEN queue \cup {Cancel(r)} ELSE queue
    /\ user' = [user EXCEPT ![r] = "dropped"]
    /\ channel' = [channel EXCEPT ![r] = <<>>]
    /\ UNCHANGED <<result, in_flight, is_alive, got, scanned, wireVars>>

Resolve(r, how) ==
    /\ user' = [user EXCEPT ![r] = "resolved"]
    /\ result' = [result EXCEPT ![r] = how]
    /\ scanned' = scanned \ {r}
    /\ UNCHANGED <<queue, in_flight, is_alive, wireVars>>

(* UnaryCompletion::poll. *)
PollUnary(r) ==
    /\ user[r] = "waiting" /\ r \notin Streaming
    /\ \/ /\ channel[r] # <<>>
          /\ got' = [got EXCEPT ![r] = channel[r]]
          /\ channel' = [channel EXCEPT ![r] = <<>>]
          /\ Resolve(r, "response")
       \/ /\ channel[r] = <<>> /\ ~HasCompleter(r)
          /\ UNCHANGED <<got, channel>>
          /\ Resolve(r, "cancelled")

(* StreamingCompletion::poll_next: the poll_next of the completion's spillway, which looks *)
(* for items, twice, and then for Senders.  An item is found by one of the scans, ...      *)
PollItem(r) ==
    /\ user[r] = "waiting" /\ r \in Streaming \ scanned
    /\ channel[r] # <<>>
    /\ got' = [got EXCEPT ![r] = Append(@, Head(channel[r]))]
    /\ channel' = [channel EXCEPT ![r] = Tail(@)]
    /\ UNCHANGED <<user, result, queue, in_flight, is_alive, scanned, wireVars>>

(* ... or the last scan finds none, ... *)
PollEmpty(r) ==
    /\ user[r] = "waiting" /\ r \in Streaming \ scanned
    /\ channel[r] = <<>>
    /\ scanned' = scanned \cup {r}
    /\ UNCHANGED <<user, result, queue, in_flight, is_alive, channel, got, wireVars>>

(* ... and the Senders are counted: with the completer gone this is the end, Error::Finished, *)
(* whatever was put into the channel since it was scanned, ...                                *)
PollFinished(r) ==
    /\ user[r] = "waiting" /\ r \in scanned
    /\ ~HasCompleter(r)
    /\ Resolve(r, "finished")
    /\ UNCHANGED <<got, channel>>

(* ... and with the completer alive the poll is Pending. *)
PollPending(r) ==
    /\ user[r] = "waiting" /\ r \in scanned
    /\ HasCompleter(r)
    /\ scanned' = scanned \ {r}
    /\ UNCHANGED <<user, result, queue, in_flight, is_alive, channel, got, wireVars>>

-----------------------------------------------------------------------------
(* The connection's task. *)

(* on_outbound_message, New: register the completion, send the request. *)
OnNew(r) ==
    /\ client_up /\ HasPermit(requests)
    /\ New(r) \in queue
    /\ queue' = queue \ {New(r)}
    /\ in_flight' = in_flight \cup {r}
    /\ requests' = Append(requests, Normal(r, 0))
    /\ UNCHANGED <<user, result, is_alive, channel, got, scanned, responses, client_up, server_up>>

(* on_outbound_message, Cancel: deregister, tell the server. *)
OnCancel(r) ==
    /\ client_up /\ HasPermit(requests)
    /\ Cancel(r) \in queue
    /\ queue' = queue \ {Cancel(r)}
    /\ in_flight' = in_flight \ {r}
    /\ requests' = Append(requests, Cancelled(r))
    /\ UNCHANGED <<user, result, is_alive, channel, got, scanned, responses, client_up, server_up>>

(* on_inbound_message. *)
Response ==
    /\ client_up /\ responses # <<>>
    /\ responses' = Tail(responses)
    /\ UNCHANGED <<user, result, queue, is_alive, got, scanned, requests, client_up, server_up>>

(* Cancel and End: the completion is deregistered. *)
OnControl ==
    /\ Response
    /\ LET m == Head(responses) IN
       /\ m.code # "normal"
       /\ in_flight' = in_flight \ {m.id}
       /\ UNCHANGED channel

(* A message for a caller that dropped its completion is lost: a oneshot refuses it, a *)
(* spillway takes it, and nobody sees it.                                              *)
Completed(m) ==
    IF user[m.id] = "waiting" THEN [channel EXCEPT ![m.id] = Append(@, m.item)] ELSE channel

(* Completion::RemoteStreaming stays registered: the send of a spillway does not fail. *)
OnItem ==
    /\ Response
    /\ LET m == Head(responses) IN
       /\ m.code = "normal" /\ m.id \in in_flight \cap Streaming
       /\ channel' = Completed(m)
       /\ UNCHANGED in_flight

(* Completion::Unary is removed with its response. *)
OnUnary ==
    /\ Response
    /\ LET m == Head(responses) IN
       /\ m.code = "normal" /\ m.id \in in_flight \ Streaming
       /\ channel' = Completed(m)
       /\ in_flight' = in_flight \ {m.id}

(* A response to an rpc that was cancelled goes to the DoNothingMessageHandler. *)
OnUnregistered ==
    /\ Response
    /\ LET m == Head(responses) IN
       /\ m.code = "normal" /\ m.id \notin in_flight
       /\ UNCHANGED <<channel, in_flight>>

OnResponse == OnControl \/ OnItem \/ OnUnary \/ OnUnregistered

(* Mutant: the registry outlives the reactor. *)
MutDroppedCompletions == {}

(* The completions that are dropped with the reactor and its CompletionRegistry. *)
DroppedCompletions == in_flight

(* The connection's future ends and drops the reactor: is_alive is cleared and the       *)
(* registered completions are dropped.  Of the queue only what the Receiver had taken    *)
(* into its own buffer goes with it: every Sender, those in the guards of the waiting    *)
(* callers included, keeps the chutes and the completions in them alive.                 *)
ClientDrops ==
    /\ client_up
    /\ client_up' = FALSE
    /\ is_alive' = FALSE
    /\ in_flight' = in_flight \ DroppedCompletions
    /\ queue' \in SUBSET queue
    /\ requests' \in {SubSeq(requests, 1, n) : n \in 0 .. Len(requests)}
    /\ UNCHANGED <<user, result, channel, got, scanned, responses, server_up>>

ClientTask == OnResponse \/ \E r \in Rpcs : OnNew(r) \/ OnCancel(r)

Poll(r) == PollUnary(r) \/ PollItem(r) \/ PollEmpty(r) \/ PollFinished(r) \/ PollPending(r)

ClientStep ==
    \/ \E r \in Rpcs : CheckAlive(r) \/ Submit(r) \/ DropCompletion(r) \/ Poll(r)
    \/ ClientTask
=============================================================================
