----------------------------- MODULE RadioManager -----------------------------
(***************************************************************************)
(* The radio lease arbiter, components/services/radio_manager.             *)
(*                                                                         *)
(* One task grants the Internet to one client at a time.  Clients send     *)
(* requests through one queue, releases and cancellations through another, *)
(* and each client has a reply slot of length 1.  A client that gives up   *)
(* does not wait for the manager, and the manager does not know: a reply   *)
(* may be late, a cancellation stale, or lost.                             *)
(*                                                                         *)
(* Wi-Fi is WifiService, which WifiConnection implements.                  *)
(***************************************************************************)
EXTENDS WifiService, Naturals, Sequences

CONSTANTS
    Clients,        \* radio_manager_client_t
    Unlimited,      \* the clients that ask with max_hold_ticks = 0
    RadioUser,      \* WIFI_CONNECTION_USER_RADIO_MANAGER
    RequestQueue,   \* CONFIG_RADIO_MANAGER_REQUEST_QUEUE_LEN
    ControlQueue,   \* CONFIG_RADIO_MANAGER_CONTROL_QUEUE_LEN
    MaxRequests     \* bound: requests made in a behaviour (s_next_request_id grows)

ASSUME RadioAssumption ==
    /\ Unlimited \subseteq Clients
    /\ RadioUser \in Users
    /\ RequestQueue \in Nat \ {0} /\ ControlQueue \in Nat \ {0} /\ MaxRequests \in Nat

VARIABLES
    requests,       \* s_request_queue
    controls,       \* s_control_queue: releases and cancellations
    reply,          \* s_response_queues: one slot per client
    lastId,         \* the last request id given out
    late,           \* the requests whose deadline has passed
    manager,        \* the manager task: its place, the request it handles, and its owner
    held,           \* wifi_acquired
    client          \* each client: its place in acquire()/release(), its request, and how
                    \* its last acquire ended

queues == <<requests, controls, reply>>
radioVars == <<queues, lastId, late, manager, held, client>>
vars == <<serviceVars, radioVars>>

-----------------------------------------------------------------------------
NoId == 0
Ids  == 1 .. MaxRequests
Requests == [client: Clients, id: Ids]
NoRequest == [client |-> "none", id |-> NoId]

NoReply == [id |-> NoId, result |-> "none"]
Results == {"ok", "failed", "paused"}
Replies == [id: Ids, result: Results] \cup {NoReply}

Controls == [type: {"release", "cancel"}, client: Clients, id: Ids]

(* How acquire() returned: the reply's result, or a timeout and where the      *)
(* request was then (radio_manager_timeout_failure()).                        *)
Outcomes == Results \cup {"none", "queueFull", "connectTimeout", "radioBusy"}

Init ==
    /\ ServiceInit
    /\ requests = <<>> /\ controls = <<>>
    /\ reply = [c \in Clients |-> NoReply]
    /\ lastId = NoId /\ late = {}
    /\ manager = [at |-> "idle", pending |-> NoRequest, preparing |-> NoId, verdict |-> "none",
                  owner |-> NoRequest]
    /\ held = FALSE
    /\ client = [c \in Clients |-> [at |-> "idle", id |-> NoId, outcome |-> "none"]]

-----------------------------------------------------------------------------
(* The clients: radio_manager_acquire() and radio_manager_release(). *)
Become(c, place, id, outcome) ==
    client' = [client EXCEPT ![c] = [at |-> place, id |-> id, outcome |-> outcome]]

(* A new id, and an old answer is thrown away. *)
BeginAcquire(c) ==
    /\ client[c].at = "idle" /\ lastId < MaxRequests
    /\ lastId' = lastId + 1
    /\ reply' = [reply EXCEPT ![c] = NoReply]
    /\ Become(c, "sending", lastId + 1, "none")
    /\ UNCHANGED <<serviceVars, requests, controls, late, manager, held>>

Send(c) ==
    /\ client[c].at = "sending" /\ Len(requests) < RequestQueue
    /\ requests' = Append(requests, [client |-> c, id |-> client[c].id])
    /\ Become(c, "waiting", client[c].id, "none")
    /\ UNCHANGED <<serviceVars, controls, reply, lastId, late, manager, held>>

QueueFull(c) ==
    /\ client[c].at = "sending" /\ client[c].id \in late /\ Len(requests) = RequestQueue
    /\ Become(c, "idle", NoId, "queueFull")
    /\ UNCHANGED <<serviceVars, queues, lastId, late, manager, held>>

(* The late reply to an earlier request is recognised by its id, and skipped. *)
IsAnswer(c) == reply[c].id = client[c].id

ReceiveReply(c) ==
    /\ client[c].at = "waiting" /\ reply[c] # NoReply
    /\ reply' = [reply EXCEPT ![c] = NoReply]
    /\ IF ~IsAnswer(c) THEN UNCHANGED client
       ELSE IF reply[c].result = "ok" THEN Become(c, "holding", client[c].id, "ok")
       ELSE Become(c, "idle", NoId, reply[c].result)
    /\ UNCHANGED <<serviceVars, requests, controls, lastId, late, manager, held>>

(* The deadline: the client cancels its request without waiting for room, and *)
(* only then finds out where the request was.                                *)
SendControl(c, type) ==
    controls' = Append(controls, [type |-> type, client |-> c, id |-> client[c].id])

\* Mistaken: the request is forgotten, not cancelled.
GiveUpSilently(c) ==
    /\ client[c].at = "waiting" /\ client[c].id \in late /\ reply[c] = NoReply
    /\ Become(c, "gaveUp", client[c].id, "none")
    /\ UNCHANGED <<serviceVars, queues, lastId, late, manager, held>>

GiveUp(c) ==
    /\ client[c].at = "waiting" /\ client[c].id \in late /\ reply[c] = NoReply
    /\ IF Len(controls) < ControlQueue THEN SendControl(c, "cancel") ELSE UNCHANGED controls
    /\ Become(c, "gaveUp", client[c].id, "none")
    /\ UNCHANGED <<serviceVars, requests, reply, lastId, late, manager, held>>

TimeoutFailure(c) ==
    /\ client[c].at = "gaveUp"
    /\ Become(c, "idle", NoId,
              IF manager.preparing = client[c].id THEN "connectTimeout" ELSE "radioBusy")
    /\ UNCHANGED <<serviceVars, queues, lastId, late, manager, held>>

(* The release waits 100 ms for room: long enough for a manager that is         *)
(* receiving from that queue, in vain when the lease was revoked.              *)
ReleaseLease(c) ==
    /\ client[c].at = "holding"
    /\ \/ Len(controls) < ControlQueue /\ SendControl(c, "release")
       \/ /\ Len(controls) = ControlQueue /\ manager.at # "owned"
          /\ UNCHANGED controls
    /\ Become(c, "idle", NoId, client[c].outcome)
    /\ UNCHANGED <<serviceVars, requests, reply, lastId, late, manager, held>>

(* Time: the deadline of a request passes. *)
DeadlinePasses(c) ==
    /\ client[c].at \in {"sending", "waiting"} /\ client[c].id \notin late
    /\ late' = late \cup {client[c].id}
    /\ UNCHANGED <<serviceVars, queues, lastId, manager, held, client>>

-----------------------------------------------------------------------------
(* The manager task.  `at` says where it is: waiting for a request, preparing  *)
(* the Internet for it (to acquire Wi-Fi, to read its state, to wait for the   *)
(* connection), deciding whether its time is up, answering it, or serving its  *)
(* owner.                                                                     *)
ManagerUnchanged == UNCHANGED <<requests, controls, lastId, late, client>>

Respond(request, result) ==
    reply' = [reply EXCEPT ![request.client] = [id |-> request.id, result |-> result]]

Expired(request) == request.id \in late

(* radio_manager_release_wifi_if_idle(). *)
ReleaseWifi ==
    /\ held' = FALSE
    /\ IF held /\ RadioUser \in users THEN Release(RadioUser) ELSE UNCHANGED serviceVars

Receive ==
    /\ manager.at = "idle" /\ requests # <<>>
    /\ requests' = Tail(requests)
    /\ IF Expired(Head(requests)) THEN UNCHANGED manager
       ELSE manager' = [manager EXCEPT !.at = "acquire", !.pending = Head(requests),
                                       !.preparing = Head(requests).id]
    /\ UNCHANGED <<serviceVars, controls, reply, lastId, late, held, client>>

IdleTimeout ==
    /\ manager.at = "idle" /\ requests = <<>> /\ held
    /\ ReleaseWifi
    /\ UNCHANGED <<queues, lastId, late, manager, client>>

(* radio_manager_prepare_internet(): Wi-Fi is acquired unless it still is from  *)
(* an earlier request.  Before wifi_connection_start() the acquire fails.       *)
Goto(place) == manager' = [manager EXCEPT !.at = place]
Conclude(verdict) ==
    manager' = [manager EXCEPT !.at = "decide", !.verdict = verdict, !.preparing = NoId]

AcquireWifi ==
    /\ manager.at = "acquire"
    /\ IF held THEN Goto("check") /\ UNCHANGED <<serviceVars, held>>
       ELSE \/ state = "STOPPED" /\ Conclude("failed") /\ UNCHANGED <<serviceVars, held>>
            \/ Acquire(RadioUser) /\ held' = TRUE /\ Goto("check")
    /\ ManagerUnchanged /\ UNCHANGED reply

(* radio_manager_failure_from_wifi_state(). *)
Unusable == {"FAILED", "SETUP_REQUIRED", "STOPPED"}

CheckState ==
    /\ manager.at = "check"
    /\ CASE state = "CONNECTED" -> Conclude("ok")
         [] state \in Unusable  -> Conclude("failed")
         [] OTHER               -> Goto("wait")
    /\ ManagerUnchanged /\ UNCHANGED <<serviceVars, reply, held>>

\* Mistaken: setup is waited out.
WaitThroughSetup ==
    /\ manager.at = "wait"
    /\ Goto("check")
    /\ ManagerUnchanged /\ UNCHANGED <<serviceVars, reply, held>>

(* wifi_connection_wait_connected() with a second of patience. *)
WaitConnected ==
    /\ manager.at = "wait"
    /\ IF state = "SETUP_RUNNING" THEN Conclude("paused") ELSE Goto("check")
    /\ ManagerUnchanged /\ UNCHANGED <<serviceVars, reply, held>>

(* A request whose time is up gets no answer.  A rejection frees Wi-Fi at once; *)
(* after an expired grant Wi-Fi is left to the idle timeout.                   *)
Finish(verdict) ==
    /\ manager' = [manager EXCEPT !.at = "idle", !.pending = NoRequest, !.verdict = "none"]
    /\ IF verdict = "ok" THEN UNCHANGED <<serviceVars, held>> ELSE ReleaseWifi

CheckDeadline ==
    /\ manager.at = "decide"
    /\ IF Expired(manager.pending) THEN Finish(manager.verdict)
       ELSE Goto("answer") /\ UNCHANGED <<serviceVars, held>>
    /\ ManagerUnchanged /\ UNCHANGED reply

Reject ==
    /\ manager.at = "answer" /\ manager.verdict # "ok"
    /\ Respond(manager.pending, manager.verdict)
    /\ Finish(manager.verdict)
    /\ ManagerUnchanged

(* radio_manager_grant_owner(). *)
Grant ==
    /\ manager.at = "answer" /\ manager.verdict = "ok"
    /\ Respond(manager.pending, "ok")
    /\ manager' = [manager EXCEPT !.at = "owned", !.pending = NoRequest, !.verdict = "none",
                                  !.owner = manager.pending]
    /\ ManagerUnchanged /\ UNCHANGED <<serviceVars, held>>

(* radio_manager_wait_owner_release(). *)
EndOwner == manager' = [manager EXCEPT !.at = "idle", !.owner = NoRequest]

\* Mistaken: any message of the owner's client ends its lease.
IsOwnersClient(control) == control.client = manager.owner.client

IsOwner(control) == control.client = manager.owner.client /\ control.id = manager.owner.id

ReceiveControl ==
    /\ manager.at = "owned" /\ controls # <<>>
    /\ controls' = Tail(controls)
    /\ IF IsOwner(Head(controls)) THEN EndOwner ELSE UNCHANGED manager
    /\ UNCHANGED <<serviceVars, requests, reply, lastId, late, held, client>>

(* max_hold_ticks after the grant. *)
HoldLimit ==
    /\ manager.at = "owned" /\ manager.owner.client \notin Unlimited
    /\ EndOwner
    /\ UNCHANGED <<serviceVars, queues, lastId, late, held, client>>

-----------------------------------------------------------------------------
(* Wi-Fi, as its other users and its own attempts move it. *)
Wifi ==
    /\ \/ Start \/ Retry \/ Resolve \/ LinkLost \/ TurnOff \/ BeginSetup \/ EndSetup
       \/ \E u \in Users \ {RadioUser} : Acquire(u) \/ Release(u)
    /\ UNCHANGED radioVars

Manager ==
    \/ Receive \/ IdleTimeout \/ AcquireWifi \/ CheckState \/ WaitConnected \/ CheckDeadline
    \/ Reject \/ Grant
    \/ ReceiveControl \/ HoldLimit

Client(c) ==
    \/ BeginAcquire(c) \/ Send(c) \/ QueueFull(c) \/ ReceiveReply(c) \/ GiveUp(c)
    \/ TimeoutFailure(c) \/ ReleaseLease(c) \/ DeadlinePasses(c)

Next == Manager \/ Wifi \/ \E c \in Clients : Client(c)

Spec == Init /\ [][Next]_vars

(* The manager runs when it can, a hold limit and an idle timeout are reached,  *)
(* a deadline passes, and every Wi-Fi attempt is bounded.                      *)
Fairness ==
    /\ WF_vars(Manager)
    /\ WF_vars(Resolve /\ UNCHANGED radioVars)
    /\ \A c \in Clients : WF_vars(Send(c) \/ ReceiveReply(c) \/ GiveUp(c) \/ QueueFull(c)
                                    \/ TimeoutFailure(c) \/ DeadlinePasses(c))

FairSpec == Spec /\ Fairness

-----------------------------------------------------------------------------
TypeOK ==
    /\ state \in States /\ users \subseteq Users
    /\ requests \in Seq(Requests) /\ Len(requests) <= RequestQueue
    /\ controls \in Seq(Controls) /\ Len(controls) <= ControlQueue
    /\ reply \in [Clients -> Replies]
    /\ lastId \in 0 .. MaxRequests /\ late \subseteq Ids
    /\ manager \in [ at: {"idle", "acquire", "check", "wait", "decide", "answer", "owned"},
                     pending: Requests \cup {NoRequest}, preparing: Ids \cup {NoId},
                     verdict: Results \cup {"none"},
                     owner: Requests \cup {NoRequest} ]
    /\ held \in BOOLEAN
    /\ client \in [Clients -> [ at: {"idle", "sending", "waiting", "gaveUp", "holding"},
                                id: Ids \cup {NoId}, outcome: Outcomes ]]

(* A client that was granted the radio without a limit has it until it gives    *)
(* it back: no late reply makes it believe in another's lease, and no stale     *)
(* release or cancellation ends its own.                                       *)
HolderOwns ==
    \A c \in Unlimited :
        client[c].at = "holding" => manager.owner = [client |-> c, id |-> client[c].id]

(* While the radio has an owner, or a request is being prepared, Wi-Fi is held  *)
(* for it, and nothing the other users of Wi-Fi do can turn it off.            *)
WifiBehindLease ==
    /\ held <=> RadioUser \in users
    /\ manager.at \in {"check", "wait", "owned"} \/ manager.verdict = "ok"
         => held /\ state \notin {"OFF", "STOPPED"}

(* Whoever believes to hold the radio holds it, with Wi-Fi behind it: both of    *)
(* the above, whatever replies, releases and cancellations are late.            *)
LeaseIsReal == HolderOwns /\ WifiBehindLease

(* No lease is left that nobody will return: whenever the owner does not        *)
(* hold the radio, the grant is on its way to it, or the end of the lease is on *)
(* its way back.  True as long as the control queue has room for every         *)
(* cancellation; when it has not, MCRadioManagerLostCancel.cfg finds it violated. *)
GrantHasAnEnd ==
    manager.at = "owned" =>
        LET c == manager.owner.client
            i == manager.owner.id
        IN  \/ client[c].id = i /\ client[c].at = "holding"
            \/ client[c].id = i /\ client[c].at = "waiting" /\ reply[c] = [id |-> i, result |-> "ok"]
            \/ \E k \in DOMAIN controls : controls[k].client = c /\ controls[k].id = i

(* Every lease has a hold limit, or its holder gives it back some day.         *)
LeasesEnd == \A c \in Unlimited : []<>(client[c].at # "holding")

(* Wi-Fi does not keep changing for ever. *)
WifiSettles == <>[][UNCHANGED state]_state

(* The manager comes back for the next request whatever its clients do and      *)
(* whenever they give up, and gives Wi-Fi back when there are no more: no       *)
(* request, late grant, revoked lease or stale message holds the task, or keeps *)
(* Wi-Fi on, for ever (radio_manager.c:386-445).                                *)
ManagerRests == WifiSettles /\ LeasesEnd => []<>(manager.at = "idle" /\ ~held)

=============================================================================
