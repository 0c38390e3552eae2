----------------------------- MODULE RpcSession -----------------------------
(***************************************************************************)
(* One rpc connection, both ends: RpcClient and RpcServer over RpcWire.    *)
(***************************************************************************)
EXTENDS RpcClient, RpcServer

CONSTANT MayLose        \* whether either end may lose its connection

vars == <<wireVars, clientVars, serverVars>>

Init == WireInit /\ ClientInit /\ ServerInit

(* Either connection's future ends: an I/O error, an undecodable message, its owner. *)
Lose ==
    /\ MayLose
    /\ \/ ClientDrops /\ UNCHANGED serverVars
       \/ ServerDrops /\ UNCHANGED clientVars

(* An end whose peer is gone reads what is left, then the end of the stream. *)
ClientReadsEof == ~server_up /\ responses = <<>> /\ ClientDrops /\ UNCHANGED serverVars
ServerReadsEof == ~client_up /\ requests = <<>> /\ ServerDrops /\ UNCHANGED clientVars

Next ==
    \/ ClientStep /\ UNCHANGED serverVars
    \/ (ServerTask \/ Service) /\ UNCHANGED clientVars
    \/ Lose \/ ClientReadsEof \/ ServerReadsEof

Spec == Init /\ [][Next]_vars

(* Both connections' tasks and the callers' tasks are run by their runtimes (a task runs  *)
(* on whenever it is woken, which Connection and Spillway are about), a caller that       *)
(* passed the check submits, and a service finishes what it was given.                    *)
Fairness ==
    /\ WF_vars(ClientReadsEof) /\ WF_vars(ServerReadsEof)
    /\ WF_vars(OnResponse /\ UNCHANGED serverVars)
    /\ \A r \in Rpcs :
          /\ WF_vars((Submit(r) \/ Poll(r)) /\ UNCHANGED serverVars)
          /\ WF_vars(OnNew(r) /\ UNCHANGED serverVars)
          /\ WF_vars(OnCancel(r) /\ UNCHANGED serverVars)
          /\ WF_vars(Outbound(r) /\ UNCHANGED clientVars)
          /\ WF_vars((ServiceMakes(r) \/ ServiceEnds(r)) /\ UNCHANGED clientVars)
    /\ WF_vars((OnInbound \/ ReplyRejected) /\ UNCHANGED clientVars)

FairSpec == Spec /\ Fairness

-----------------------------------------------------------------------------
(* Properties. *)

Terminal(r, m) == m.code # "normal" \/ r \notin Streaming

(* The server answers an rpc with at most one terminal message, and with nothing after *)
(* it: completion, end, cancellation and rejection exclude each other, though they     *)
(* race (RpcStream::poll_next, message_for_event, poll_outbound_many).                 *)
OneTerminal ==
    \A r \in Rpcs : \A i \in DOMAIN replies[r] :
        Terminal(r, replies[r][i]) => i = Len(replies[r])

(* Until it is retired, an rpc of the pool either can still be aborted or was, and in *)
(* the second case it will be polled: no rpc runs on beyond the reach of a            *)
(* cancellation (AbortionTracker, RpcAbortHandle::mark_aborted).                      *)
CancelReaches ==
    \A r \in rpcs : r \in aborts \/ (r \in aborted /\ r \in woken)

(* A registered completion has its counterpart on the way or at the server, while both *)
(* connections are open: no rpc is in flight at the client and forgotten everywhere    *)
(* else (CompletionRegistry against the pool and the rejections of the RpcSubmitter).  *)
InFlightIsServed ==
    \A r \in in_flight : client_up /\ server_up =>
        \/ OnWire(requests, r) \/ OnWire(responses, r)
        \/ r \in rpcs \/ r \in {rejections[i] : i \in DOMAIN rejections}

(* What a caller of a streaming rpc has taken and has waiting is a prefix of the items *)
(* the service made, in order, whatever is dropped or cancelled meanwhile.             *)
ItemsInOrder ==
    \A r \in Streaming : LET all == got[r] \o channel[r] IN
        /\ Len(all) <= made[r]
        /\ \A i \in DOMAIN all : all[i] = i

(* The service ended the stream of r itself. *)
EndedByService(r) == EndMessage(r) \in {replies[r][i] : i \in DOMAIN replies[r]}

(* When a stream that the service ended is finished for its caller, the caller has had    *)
(* every item but those that are still in its channel, and the channel was empty when the *)
(* poll that returned Finished scanned it: nothing else of a stream is lost or overtaken  *)
(* by its end (RpcCompletionReactor::on_inbound_message, CompletionRegistry::deregister,  *)
(* StreamingCompletion::poll_next).                                                       *)
FinishedMissesOnlyLate ==
    \A r \in Streaming :
        result[r] = "finished" /\ user[r] = "resolved" /\ EndedByService(r) /\ client_up
            => Len(got[r]) + Len(channel[r]) = made[r]

(* Nothing is left behind: with both ends open, nothing on the way and nothing in the *)
(* pool, the registry and the abort handles are empty, so neither map leaks.          *)
QuietIsClean ==
    /\ client_up /\ server_up
    /\ queue = {} /\ requests = <<>> /\ responses = <<>>
    /\ rpcs = {} /\ rejections = <<>>
    => in_flight = {} /\ aborts = {}

Waiting(r) == user[r] \in {"sending", "waiting"}

(* Every caller's completion resolves, or the caller drops it, whatever is cancelled,   *)
(* refused or lost at either end, unless the client's connection ended with the request *)
(* still in its queue (UnaryCompletion::poll, StreamingCompletion::poll_next).          *)
Resolves == \A r \in Rpcs : Waiting(r) ~> (~Waiting(r) \/ (~client_up /\ New(r) \in queue))

(* The same without the exception: an rpc that is sent on a connection that closes is *)
(* resolved too.                                                                      *)
AlwaysResolves == \A r \in Rpcs : Waiting(r) ~> ~Waiting(r)
=============================================================================
