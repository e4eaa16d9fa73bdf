-------------------------- MODULE RadioManager_proofs --------------------------
(***************************************************************************)
(* A client without a hold limit keeps the radio until it gives it back,   *)
(* and Wi-Fi stays on behind a lease, for every number of clients, of      *)
(* requests and of places in the queues; and no lease is left without an   *)
(* end as long as no cancellation finds the control queue full.            *)
(***************************************************************************)
EXTENDS RadioManager, TLAPS

Places == {"idle", "acquire", "check", "wait", "decide", "answer", "owned"}
Managers == [ at: Places, pending: Requests \cup {NoRequest}, preparing: Ids \cup {NoId},
              verdict: Results \cup {"none"}, owner: Requests \cup {NoRequest} ]
ClientPlaces == {"idle", "sending", "waiting", "gaveUp", "holding"}
ClientStates == [ at: ClientPlaces, id: Ids \cup {NoId}, outcome: Outcomes ]

(* Nobody uses Wi-Fi before it is started, and it is on for the radio. *)
ServiceShape ==
    /\ state = "STOPPED" => users = {}
    /\ RadioUser \in users => state \notin {"OFF", "STOPPED"}

(* A verdict is there while it is needed; there is a request in hand, or an   *)
(* owner, where the task is.                                                  *)
ManagerShape ==
    /\ manager.verdict # "none" <=> manager.at \in {"decide", "answer"}
    /\ manager.at \notin {"idle", "owned"} <=> manager.pending \in Requests
    /\ manager.at = "owned" <=> manager.owner \in Requests

WifiShape ==
    /\ held <=> RadioUser \in users
    /\ manager.at \in {"check", "wait", "owned"} \/ manager.verdict = "ok" => held

(* A client that is not idle has a request. *)
ClientShape == \A c \in Clients : client[c].at # "idle" => client[c].id \in Ids

(* Every id anywhere was given out. *)
GivenOut ==
    /\ \A c \in Clients : client[c].id <= lastId /\ reply[c].id <= lastId
    /\ \A k \in 1 .. Len(requests) : requests[k].id <= lastId
    /\ \A k \in 1 .. Len(controls) : controls[k].id <= lastId
    /\ manager.pending.id <= lastId

(* A request that is not sent yet is nowhere, and has no answer. *)
Unsent(c) ==
    client[c].at = "sending" =>
        /\ reply[c].id # client[c].id
        /\ \A k \in 1 .. Len(requests) :
                ~(requests[k].client = c /\ requests[k].id = client[c].id)
        /\ ~(manager.pending.client = c /\ manager.pending.id = client[c].id)

(* The end of a lease, or of a request, is not sent before its client left it. *)
NotEnded(c) ==
    client[c].at \in {"sending", "waiting", "holding"} =>
        \A k \in 1 .. Len(controls) :
            ~(controls[k].client = c /\ controls[k].id = client[c].id)

(* Who was granted the radio without limit, and knows it or is told, owns it. *)
Granted(c) ==
    \/ client[c].at = "holding"
    \/ client[c].at = "waiting" /\ reply[c].id = client[c].id /\ reply[c].result = "ok"

Leased(c) == c \in Unlimited /\ Granted(c) => manager.owner = [client |-> c, id |-> client[c].id]

LeaseShape == \A c \in Clients : Unsent(c) /\ NotEnded(c) /\ Leased(c)

IInv == TypeOK /\ ServiceShape /\ ManagerShape /\ WifiShape /\ GivenOut /\ ClientShape
        /\ LeaseShape

-----------------------------------------------------------------------------
LEMMA Constants ==
    /\ Unlimited \subseteq Clients /\ RadioUser \in Users
    /\ RequestQueue \in Nat /\ ControlQueue \in Nat /\ MaxRequests \in Nat
    /\ NoRequest \notin Requests /\ NoId \notin Ids /\ NoId = 0 /\ Ids \subseteq Nat
  BY RadioAssumption DEF NoRequest, Requests, NoId, Ids

LEMMA Types ==
    ASSUME TypeOK
    PROVE  /\ requests \in Seq(Requests) /\ controls \in Seq(Controls)
           /\ Len(requests) \in Nat /\ Len(controls) \in Nat
           /\ lastId \in Nat /\ lastId <= MaxRequests
           /\ \A c \in Clients : reply[c].id \in Nat /\ client[c].id \in Nat
           /\ manager.pending.id \in Nat
           /\ \A k \in 1 .. Len(requests) : requests[k].id \in Nat /\ requests[k].client \in Clients
           /\ \A k \in 1 .. Len(controls) : controls[k].id \in Nat /\ controls[k].client \in Clients
  <1>1. /\ requests \in Seq(Requests) /\ controls \in Seq(Controls) /\ lastId \in 0 .. MaxRequests
        /\ Len(requests) \in Nat /\ Len(controls) \in Nat
    BY DEF TypeOK
  <1>2. \A c \in Clients : reply[c] \in Replies /\ client[c] \in ClientStates
    <2>1. reply \in [Clients -> Replies]
      BY DEF TypeOK
    <2>2. client \in [Clients -> ClientStates]
      BY DEF TypeOK, ClientStates, ClientPlaces
    <2>. QED
      BY <2>1, <2>2
  <1>3. \A r \in Replies : r.id \in Nat
    <2>1. \A r \in [id: Ids, result: Results] : r.id \in Nat
      BY Constants
    <2>2. NoReply.id \in Nat
      BY Constants DEF NoReply
    <2>3. \A r \in Replies : r \in [id: Ids, result: Results] \/ r = NoReply
      BY Zenon DEF Replies
    <2>. QED
      BY <2>1, <2>2, <2>3, Zenon
  <1>4. \A r \in ClientStates : r.id \in Nat
    <2>1. \A r \in ClientStates : r.id \in Ids \cup {NoId}
      BY DEF ClientStates
    <2>2. \A i \in Ids \cup {NoId} : i \in Nat
      BY Constants
    <2>. QED
      BY <2>1, <2>2, Zenon
  <1>5. manager.pending \in Requests \cup {NoRequest}
    BY DEF TypeOK
  <1>6. \A r \in Requests : r.id \in Nat /\ r.client \in Clients
    BY Constants DEF Requests
  <1>7. \A r \in Controls : r.id \in Nat /\ r.client \in Clients
    BY Constants DEF Controls
  <1>8. manager.pending.id \in Nat
    BY <1>5, <1>6, Constants DEF NoRequest
  <1>9. \A k \in 1 .. Len(requests) : requests[k] \in Requests
    BY <1>1
  <1>10. \A k \in 1 .. Len(controls) : controls[k] \in Controls
    BY <1>1
  <1>. QED
    BY <1>1, <1>2, <1>3, <1>4, <1>6, <1>7, <1>8, <1>9, <1>10, Constants

LEMMA BecomeKeepsType ==
    ASSUME TypeOK, NEW c \in Clients, NEW place \in ClientPlaces, NEW id \in Ids \cup {NoId},
           NEW outcome \in Outcomes, Become(c, place, id, outcome)
    PROVE  /\ client' \in [Clients -> ClientStates]
           /\ client'[c].at = place /\ client'[c].id = id
           /\ \A d \in Clients \ {c} : client'[d] = client[d]
  <1>. DEFINE new == [at |-> place, id |-> id, outcome |-> outcome]
  <1>1. new \in ClientStates /\ new.at = place /\ new.id = id
    BY DEF ClientStates
  <1>2. client \in [Clients -> ClientStates]
    BY DEF TypeOK, ClientStates, ClientPlaces
  <1>3. client' = [client EXCEPT ![c] = new]
    BY DEF Become
  <1>. HIDE DEF new
  <1>. QED
    BY <1>1, <1>2, <1>3

LEMMA InitHolds == Init => IInv
  <1>. SUFFICES ASSUME Init PROVE IInv
    OBVIOUS
  <1>1. TypeOK
    <2>1. [at |-> "idle", id |-> NoId, outcome |-> "none"] \in ClientStates
      BY DEF ClientStates, ClientPlaces, Outcomes
    <2>2. client \in [Clients -> ClientStates]
      BY <2>1 DEF Init
    <2>3. manager \in Managers
      BY DEF Init, Managers, Places
    <2>4. requests \in Seq(Requests) /\ Len(requests) <= RequestQueue
          /\ controls \in Seq(Controls) /\ Len(controls) <= ControlQueue
      BY Constants DEF Init
    <2>5. reply \in [Clients -> Replies]
      BY DEF Init, Replies
    <2>6. lastId \in 0 .. MaxRequests /\ late \subseteq Ids
      BY Constants DEF Init
    <2>7. held \in BOOLEAN /\ state \in States /\ users \subseteq Users
      <3>1. "STOPPED" \in States
        BY Zenon DEF States
      <3>. QED
        BY <3>1 DEF Init, ServiceInit
    <2>. QED
      BY <2>2, <2>3, <2>4, <2>5, <2>6, <2>7 DEF TypeOK, ClientStates, ClientPlaces, Managers, Places
  <1>2. ServiceShape /\ ManagerShape /\ WifiShape
    BY Constants DEF Init, ServiceInit, ServiceShape, ManagerShape, WifiShape
  <1>3. GivenOut /\ LeaseShape /\ ClientShape
    BY Constants DEF Init, ClientShape, GivenOut, LeaseShape, Unsent, NotEnded, Leased, Granted, NoRequest, NoReply
  <1>. QED
    BY <1>1, <1>2, <1>3 DEF IInv

-----------------------------------------------------------------------------
(* The clients: none of their steps touches Wi-Fi or the manager. *)
LEMMA ClientKeepsManager ==
    ASSUME IInv, NEW c \in Clients, Client(c)
    PROVE  /\ UNCHANGED <<state, users, manager, held>>
           /\ ServiceShape' /\ ManagerShape' /\ WifiShape'
  <1>1. UNCHANGED <<state, users, manager, held>>
    BY DEF Client, BeginAcquire, Send, QueueFull, ReceiveReply, GiveUp, TimeoutFailure,
           ReleaseLease, DeadlinePasses, serviceVars
  <1>. QED
    BY <1>1 DEF IInv, ServiceShape, ManagerShape, WifiShape

(* What a step of one client may do to the others, and to itself: messages of *)
(* its own, at the end of a queue; its own answer is taken; no place but its  *)
(* own changes.                                                               *)
Added(c) ==
    /\ \A k \in 1 .. Len(requests') :
            requests'[k].client = c \/ (k \in 1 .. Len(requests) /\ requests'[k] = requests[k])
    /\ \A k \in 1 .. Len(controls') :
            controls'[k].client = c \/ (k \in 1 .. Len(controls) /\ controls'[k] = controls[k])

LEMMA OthersUndisturbed ==
    ASSUME IInv, NEW c \in Clients, Client(c), NEW d \in Clients \ {c},
           client'[d] = client[d], reply'[d] = reply[d], Added(c)
    PROVE  Unsent(d)' /\ NotEnded(d)' /\ Leased(d)'
  <1>1. manager' = manager
    BY ClientKeepsManager
  <1>2. Unsent(d) /\ NotEnded(d) /\ Leased(d)
    BY DEF IInv, LeaseShape
  <1>6. Unsent(d)'
    BY <1>1, <1>2 DEF Unsent, Added
  <1>7. NotEnded(d)'
    BY <1>2 DEF NotEnded, Added
  <1>8. Leased(d)'
    BY <1>1, <1>2 DEF Leased, Granted
  <1>. QED
    BY <1>6, <1>7, <1>8

LEMMA BeginAcquireKeeps ==
    ASSUME IInv, NEW c \in Clients, BeginAcquire(c)
    PROVE  IInv'
  <1>0. Client(c)
    BY DEF Client
  <1>1. /\ lastId' = lastId + 1 /\ lastId' \in Ids /\ lastId \in Nat
        /\ UNCHANGED <<state, users, requests, controls, late, manager, held>>
    BY Types, Constants DEF BeginAcquire, IInv, TypeOK, Ids, serviceVars
  <1>2. /\ client' \in [Clients -> ClientStates]
        /\ client'[c].at = "sending" /\ client'[c].id = lastId'
        /\ \A d \in Clients \ {c} : client'[d] = client[d]
    <2>1. "sending" \in ClientPlaces /\ "none" \in Outcomes /\ Become(c, "sending", lastId', "none")
      BY <1>1 DEF ClientPlaces, Outcomes, BeginAcquire
    <2>. QED
      BY <1>1, <2>1, BecomeKeepsType DEF IInv
  <1>3. /\ reply' \in [Clients -> Replies] /\ reply'[c] = NoReply
        /\ \A d \in Clients \ {c} : reply'[d] = reply[d]
    <2>1. reply \in [Clients -> Replies] /\ NoReply \in Replies
      BY DEF IInv, TypeOK, Replies
    <2>. QED
      BY <2>1 DEF BeginAcquire
  <1>4. TypeOK'
    BY <1>1, <1>2, <1>3, Constants
      DEF IInv, TypeOK, ClientStates, ClientPlaces, serviceVars, Ids
  <1>5. GivenOut'
    <2>1. NoReply.id = 0
      BY Constants DEF NoReply
    <2>2. \A d \in Clients : /\ client[d].id <= lastId /\ reply[d].id <= lastId
                             /\ client[d].id \in Nat /\ reply[d].id \in Nat
      BY Types DEF IInv, GivenOut
    <2>3. \A d \in Clients : client'[d].id <= lastId' /\ reply'[d].id <= lastId'
      BY <1>1, <1>2, <1>3, <2>1, <2>2
    <2>4. \A k \in 1 .. Len(requests) : requests[k].id <= lastId'
      BY <1>1, Types DEF IInv, GivenOut
    <2>5. \A k \in 1 .. Len(controls) : controls[k].id <= lastId'
      BY <1>1, Types DEF IInv, GivenOut
    <2>6. manager.pending.id <= lastId'
      BY <1>1, Types DEF IInv, GivenOut
    <2>. QED
      BY <1>1, <2>3, <2>4, <2>5, <2>6 DEF GivenOut
  <1>8. ClientShape'
    BY <1>1, <1>2 DEF IInv, ClientShape
  <1>6. Unsent(c)' /\ NotEnded(c)' /\ Leased(c)'
    <2>1. NoReply.id # lastId'
      BY <1>1, Constants DEF NoReply
    <2>2. /\ \A k \in 1 .. Len(requests) : requests[k].id # lastId'
          /\ \A k \in 1 .. Len(controls) : controls[k].id # lastId'
          /\ manager.pending.id # lastId'
      BY <1>1, Types DEF IInv, GivenOut
    <2>3. Unsent(c)'
      BY <1>1, <1>2, <1>3, <2>1, <2>2 DEF Unsent
    <2>4. NotEnded(c)'
      BY <1>1, <1>2, <2>2 DEF NotEnded
    <2>5. Leased(c)'
      BY <1>2 DEF Leased, Granted
    <2>. QED
      BY <2>3, <2>4, <2>5
  <1>7. \A d \in Clients \ {c} : Unsent(d)' /\ NotEnded(d)' /\ Leased(d)'
    <2>1. Added(c)
      BY <1>1 DEF Added
    <2>. QED
      BY <1>0, <1>2, <1>3, <2>1, OthersUndisturbed
  <1>. QED
    BY <1>0, <1>4, <1>5, <1>6, <1>7, <1>8, ClientKeepsManager DEF IInv, LeaseShape

LEMMA SendKeeps ==
    ASSUME IInv, NEW c \in Clients, Send(c)
    PROVE  IInv'
  <1>0. Client(c)
    BY DEF Client
  <1>. DEFINE request == [client |-> c, id |-> client[c].id]
  <1>1. client[c].at = "sending" /\ client[c].id \in Ids /\ request \in Requests
    <2>1. client[c].id \in Ids \cup {NoId} /\ client[c].id <= lastId /\ client[c].at = "sending"
      BY DEF IInv, TypeOK, GivenOut, Send
    <2>2. client[c].id \in Ids
      BY <2>1 DEF IInv, ClientShape
    <2>. QED
      BY <2>1, <2>2 DEF Requests
  <1>2. /\ client' \in [Clients -> ClientStates]
        /\ client'[c].at = "waiting" /\ client'[c].id = client[c].id
        /\ \A d \in Clients \ {c} : client'[d] = client[d]
    <2>1. "waiting" \in ClientPlaces /\ "none" \in Outcomes
      BY DEF ClientPlaces, Outcomes
    <2>2. Become(c, "waiting", client[c].id, "none") /\ client[c].id \in Ids \cup {NoId}
      BY <1>1 DEF Send
    <2>. QED
      BY <2>1, <2>2, BecomeKeepsType DEF IInv
  <1>3. UNCHANGED <<state, users, controls, reply, lastId, late, manager, held>>
    BY DEF Send, serviceVars
  <1>4. requests' = Append(requests, request) /\ requests \in Seq(Requests)
    BY Types DEF Send, IInv
  <1>5. requests' \in Seq(Requests) /\ Len(requests') <= RequestQueue
    BY <1>1, <1>4, Constants DEF Send
  <1>6. TypeOK'
    BY <1>2, <1>3, <1>5 DEF IInv, TypeOK, ClientStates, ClientPlaces
  <1>7. GivenOut'
    <2>1. \A k \in 1 .. Len(requests') : requests'[k].id <= lastId
      <3>1. \A k \in 1 .. Len(requests') : requests'[k] = request
                \/ (k \in 1 .. Len(requests) /\ requests'[k] = requests[k])
        BY <1>4
      <3>. QED
        BY <3>1 DEF IInv, GivenOut
    <2>2. \A d \in Clients : client'[d].id <= lastId
      BY <1>2 DEF IInv, GivenOut
    <2>. QED
      BY <1>3, <2>1, <2>2 DEF IInv, GivenOut
  <1>8. Unsent(c)' /\ NotEnded(c)' /\ Leased(c)'
    BY <1>1, <1>2, <1>3 DEF IInv, LeaseShape, Unsent, NotEnded, Leased, Granted
  <1>9. \A d \in Clients \ {c} : Unsent(d)' /\ NotEnded(d)' /\ Leased(d)'
    <2>1. request.client = c
      OBVIOUS
    <2>. HIDE DEF request
    <2>2. Added(c)
      BY <1>3, <1>4, <2>1 DEF Added
    <2>. QED
      BY <1>0, <1>2, <1>3, <2>2, OthersUndisturbed
  <1>10. ClientShape'
    BY <1>1, <1>2 DEF IInv, ClientShape
  <1>. QED
    BY <1>0, <1>6, <1>7, <1>8, <1>9, <1>10, ClientKeepsManager DEF IInv, LeaseShape

(* The other steps of a client give out no id, and keep the invariant when    *)
(* they keep what concerns the client itself.                                 *)
OnlyOwn(c) ==
    /\ lastId' = lastId /\ requests' = requests
    /\ client' \in [Clients -> ClientStates] /\ reply' \in [Clients -> Replies]
    /\ \A d \in Clients \ {c} : client'[d] = client[d] /\ reply'[d] = reply[d]
    /\ controls' \in Seq(Controls) /\ Len(controls') <= ControlQueue
    /\ \A k \in 1 .. Len(controls') :
            \/ controls'[k].client = c /\ controls'[k].id = client[c].id
            \/ k \in 1 .. Len(controls) /\ controls'[k] = controls[k]
    /\ late' \subseteq Ids
    /\ reply'[c] \in {reply[c], NoReply}
    /\ \/ client'[c].at # "idle" /\ client'[c].id = client[c].id /\ client[c].at # "idle"
       \/ client'[c].at = "idle" /\ client'[c].id = NoId

LEMMA OwnKeeps ==
    ASSUME IInv, NEW c \in Clients, Client(c), OnlyOwn(c),
           Unsent(c)', NotEnded(c)', Leased(c)'
    PROVE  IInv'
  <1>1. UNCHANGED <<state, users, manager, held>> /\ ServiceShape' /\ ManagerShape' /\ WifiShape'
    BY ClientKeepsManager
  <1>2. TypeOK'
    BY <1>1 DEF IInv, TypeOK, OnlyOwn, ClientStates, ClientPlaces
  <1>3. GivenOut'
    <2>0. NoReply.id = 0 /\ NoId = 0 /\ lastId \in Nat
      BY Constants, Types DEF NoReply, IInv
    <2>1. client'[c].id <= lastId /\ reply'[c].id <= lastId
      BY <2>0 DEF IInv, GivenOut, OnlyOwn
    <2>2. \A d \in Clients : client'[d].id <= lastId /\ reply'[d].id <= lastId
      BY <2>1 DEF IInv, GivenOut, OnlyOwn
    <2>3. \A k \in 1 .. Len(controls') : controls'[k].id <= lastId
      BY DEF IInv, GivenOut, OnlyOwn
    <2>. QED
      BY <1>1, <2>2, <2>3 DEF IInv, GivenOut, OnlyOwn
  <1>4. ClientShape'
    BY DEF IInv, ClientShape, OnlyOwn
  <1>5. \A d \in Clients \ {c} : Unsent(d)' /\ NotEnded(d)' /\ Leased(d)'
    <2>1. Added(c)
      BY DEF OnlyOwn, Added
    <2>. QED
      BY <2>1, OthersUndisturbed DEF OnlyOwn
  <1>. QED
    BY <1>1, <1>2, <1>3, <1>4, <1>5 DEF IInv, LeaseShape

LEMMA ClientTypes ==
    ASSUME IInv, NEW c \in Clients
    PROVE  /\ client \in [Clients -> ClientStates] /\ reply \in [Clients -> Replies]
           /\ client[c].id \in Ids \cup {NoId} /\ client[c].outcome \in Outcomes
           /\ client[c].at # "idle" => client[c].id \in Ids
           /\ Unsent(c) /\ NotEnded(c) /\ Leased(c)
           /\ controls \in Seq(Controls) /\ Len(controls) <= ControlQueue /\ late \subseteq Ids
  BY DEF IInv, TypeOK, ClientShape, LeaseShape, ClientStates, ClientPlaces

(* What a client does alone: it gives up sending, or finds out why it did, or *)
(* time passes.                                                               *)
LEMMA QueueFullKeeps ==
    ASSUME IInv, NEW c \in Clients, QueueFull(c) \/ TimeoutFailure(c)
    PROVE  IInv'
  <1>0. Client(c)
    BY DEF Client
  <1>1. PICK outcome \in Outcomes : Become(c, "idle", NoId, outcome)
    BY DEF QueueFull, TimeoutFailure, Outcomes
  <1>2. UNCHANGED <<queues, lastId, late>>
    BY DEF QueueFull, TimeoutFailure
  <1>3. /\ client' \in [Clients -> ClientStates] /\ client'[c].at = "idle" /\ client'[c].id = NoId
        /\ \A d \in Clients \ {c} : client'[d] = client[d]
    <2>1. "idle" \in ClientPlaces /\ NoId \in Ids \cup {NoId}
      BY DEF ClientPlaces
    <2>. QED
      BY <1>1, <2>1, BecomeKeepsType DEF IInv
  <1>4. OnlyOwn(c)
    BY <1>2, <1>3, ClientTypes DEF OnlyOwn, queues
  <1>5. Unsent(c)' /\ NotEnded(c)' /\ Leased(c)'
    BY <1>3 DEF Unsent, NotEnded, Leased, Granted
  <1>. QED
    BY <1>0, <1>4, <1>5, OwnKeeps

LEMMA DeadlinePassesKeeps ==
    ASSUME IInv, NEW c \in Clients, DeadlinePasses(c)
    PROVE  IInv'
  <1>0. Client(c)
    BY DEF Client
  <1>1. UNCHANGED <<queues, lastId, client, manager>> /\ late' = late \cup {client[c].id}
        /\ client[c].at \in {"sending", "waiting"}
    BY DEF DeadlinePasses
  <1>2. OnlyOwn(c)
    BY <1>1, ClientTypes DEF OnlyOwn, queues
  <1>3. Unsent(c)' /\ NotEnded(c)' /\ Leased(c)'
    BY <1>1, ClientTypes DEF queues, Unsent, NotEnded, Leased, Granted
  <1>. QED
    BY <1>0, <1>2, <1>3, OwnKeeps

LEMMA ReceiveReplyKeeps ==
    ASSUME IInv, NEW c \in Clients, ReceiveReply(c)
    PROVE  IInv'
  <1>0. Client(c)
    BY DEF Client
  <1>1. /\ client[c].at = "waiting" /\ reply' = [reply EXCEPT ![c] = NoReply]
        /\ UNCHANGED <<requests, controls, lastId, late, manager>>
    BY DEF ReceiveReply
  <1>2. /\ reply' \in [Clients -> Replies] /\ reply'[c] = NoReply
        /\ \A d \in Clients \ {c} : reply'[d] = reply[d]
    <2>1. NoReply \in Replies
      BY DEF Replies
    <2>. QED
      BY <1>1, <2>1, ClientTypes
  <1>3. NoReply.result # "ok"
    BY DEF NoReply
  <1>4. CASE ~IsAnswer(c)
    <2>1. client' = client
      BY <1>4 DEF ReceiveReply
    <2>2. OnlyOwn(c)
      BY <1>1, <1>2, <2>1, ClientTypes DEF OnlyOwn
    <2>3. Unsent(c)' /\ NotEnded(c)' /\ Leased(c)'
      BY <1>1, <1>2, <1>3, <2>1, ClientTypes DEF Unsent, NotEnded, Leased, Granted
    <2>. QED
      BY <1>0, <2>2, <2>3, OwnKeeps
  <1>5. CASE IsAnswer(c) /\ reply[c].result = "ok"
    <2>1. Become(c, "holding", client[c].id, "ok")
      BY <1>5 DEF ReceiveReply
    <2>2. /\ client' \in [Clients -> ClientStates]
          /\ client'[c].at = "holding" /\ client'[c].id = client[c].id
          /\ \A d \in Clients \ {c} : client'[d] = client[d]
      <3>1. "holding" \in ClientPlaces /\ "ok" \in Outcomes
        BY DEF ClientPlaces, Outcomes, Results
      <3>. QED
        BY <2>1, <3>1, ClientTypes, BecomeKeepsType DEF IInv
    <2>3. OnlyOwn(c)
      BY <1>1, <1>2, <2>2, ClientTypes DEF OnlyOwn
    <2>4. Unsent(c)' /\ NotEnded(c)' /\ Leased(c)'
      BY <1>1, <1>2, <1>5, <2>2, ClientTypes DEF Unsent, NotEnded, Leased, Granted, IsAnswer
    <2>. QED
      BY <1>0, <2>3, <2>4, OwnKeeps
  <1>6. CASE IsAnswer(c) /\ reply[c].result # "ok"
    <2>1. Become(c, "idle", NoId, reply[c].result)
      BY <1>6 DEF ReceiveReply
    <2>2. reply[c].result \in Outcomes
      <3>1. \A r \in [id: Ids, result: Results] : r.result \in Outcomes
        BY DEF Outcomes
      <3>2. NoReply.result \in Outcomes
        BY DEF NoReply, Outcomes
      <3>3. reply[c] \in [id: Ids, result: Results] \/ reply[c] = NoReply
        BY ClientTypes, Zenon DEF Replies
      <3>. QED
        BY <3>1, <3>2, <3>3
    <2>3. /\ client' \in [Clients -> ClientStates] /\ client'[c].at = "idle" /\ client'[c].id = NoId
          /\ \A d \in Clients \ {c} : client'[d] = client[d]
      <3>1. "idle" \in ClientPlaces /\ NoId \in Ids \cup {NoId}
        BY DEF ClientPlaces
      <3>. QED
        BY <2>1, <2>2, <3>1, BecomeKeepsType DEF IInv
    <2>4. OnlyOwn(c)
      BY <1>1, <1>2, <2>3, ClientTypes DEF OnlyOwn
    <2>5. Unsent(c)' /\ NotEnded(c)' /\ Leased(c)'
      BY <2>3 DEF Unsent, NotEnded, Leased, Granted
    <2>. QED
      BY <1>0, <2>4, <2>5, OwnKeeps
  <1>. QED
    BY <1>4, <1>5, <1>6

(* A client that gives up, or gives back, leaves the radio before it says so. *)
LEMMA EndsKeeps ==
    ASSUME IInv, NEW c \in Clients, GiveUp(c) \/ ReleaseLease(c)
    PROVE  IInv'
  <1>0. Client(c)
    BY DEF Client
  <1>1. UNCHANGED <<requests, reply, lastId, late, manager>> /\ client[c].at \in {"waiting", "holding"}
    BY DEF GiveUp, ReleaseLease
  <1>2. /\ client' \in [Clients -> ClientStates]
        /\ \/ client'[c].at = "gaveUp" /\ client'[c].id = client[c].id
           \/ client'[c].at = "idle" /\ client'[c].id = NoId
        /\ \A d \in Clients \ {c} : client'[d] = client[d]
    <2>1. "idle" \in ClientPlaces /\ "gaveUp" \in ClientPlaces /\ "none" \in Outcomes
          /\ NoId \in Ids \cup {NoId}
      BY DEF ClientPlaces, Outcomes
    <2>2. CASE GiveUp(c)
      <3>1. Become(c, "gaveUp", client[c].id, "none")
        BY <2>2 DEF GiveUp
      <3>. QED
        BY <2>1, <3>1, ClientTypes, BecomeKeepsType DEF IInv
    <2>3. CASE ReleaseLease(c)
      <3>1. Become(c, "idle", NoId, client[c].outcome)
        BY <2>3 DEF ReleaseLease
      <3>. QED
        BY <2>1, <3>1, ClientTypes, BecomeKeepsType DEF IInv
    <2>. QED
      BY <2>2, <2>3
  <1>3. /\ controls' \in Seq(Controls) /\ Len(controls') <= ControlQueue
        /\ \A k \in 1 .. Len(controls') :
                \/ controls'[k].client = c /\ controls'[k].id = client[c].id
                \/ k \in 1 .. Len(controls) /\ controls'[k] = controls[k]
    <2>1. CASE controls' = controls
      BY <2>1, ClientTypes
    <2>2. ASSUME NEW type \in {"release", "cancel"}, SendControl(c, type), Len(controls) < ControlQueue
          PROVE  <1>3
      <3>. DEFINE last == [type |-> type, client |-> c, id |-> client[c].id]
      <3>1. last \in Controls /\ last.client = c /\ last.id = client[c].id
        BY <1>1, ClientTypes DEF Controls
      <3>2. controls' = Append(controls, last)
        BY <2>2 DEF SendControl
      <3>. HIDE DEF last
      <3>. QED
        BY <2>2, <3>1, <3>2, ClientTypes, Constants
    <2>. QED
      BY <2>1, <2>2 DEF GiveUp, ReleaseLease
  <1>4. OnlyOwn(c)
    BY <1>1, <1>2, <1>3, ClientTypes DEF OnlyOwn
  <1>5. Unsent(c)' /\ NotEnded(c)' /\ Leased(c)'
    BY <1>2 DEF Unsent, NotEnded, Leased, Granted
  <1>. QED
    BY <1>0, <1>4, <1>5, OwnKeeps

LEMMA ClientKeeps == ASSUME IInv, NEW c \in Clients, Client(c) PROVE IInv'
  BY BeginAcquireKeeps, SendKeeps, QueueFullKeeps, ReceiveReplyKeeps, EndsKeeps,
     DeadlinePassesKeeps DEF Client

-----------------------------------------------------------------------------
(* Wi-Fi, as others move it. *)
LEMMA ServiceTypes ==
    ASSUME state \in States, users \subseteq Users, ServiceShape,
           \/ Start \/ Retry \/ Resolve \/ LinkLost \/ TurnOff \/ BeginSetup \/ EndSetup
           \/ \E u \in Users : Acquire(u) \/ Release(u)
    PROVE  state' \in States /\ users' \subseteq Users /\ ServiceShape'
  <1>1. {"OFF", "CONNECTED", "FAILED", "CONNECTING", "RECONNECTING", "SETUP_REQUIRED",
         "SETUP_RUNNING"} \subseteq States
    BY Zenon DEF States, Trying, Setup
  <1>2. CASE Start \/ Retry \/ Resolve \/ LinkLost
    BY <1>1, <1>2 DEF Start, Retry, Resolve, LinkLost, ServiceShape, Trying
  <1>3. CASE TurnOff \/ BeginSetup \/ EndSetup
    BY <1>1, <1>3 DEF TurnOff, BeginSetup, EndSetup, ServiceShape
  <1>4. ASSUME NEW u \in Users, Acquire(u) \/ Release(u)
        PROVE  state' \in States /\ users' \subseteq Users /\ ServiceShape'
    <2>1. CASE Acquire(u)
      BY <1>1, <2>1 DEF Acquire, ServiceShape
    <2>2. CASE Release(u)
      BY <2>2 DEF Release, ServiceShape
    <2>. QED
      BY <1>4, <2>1, <2>2
  <1>. QED
    BY <1>2, <1>3, <1>4

LEMMA WifiKeeps == ASSUME IInv, Wifi PROVE IInv'
  <1>1. UNCHANGED radioVars
    BY DEF Wifi
  <1>2. state' \in States /\ users' \subseteq Users /\ ServiceShape'
    BY ServiceTypes DEF Wifi, IInv, TypeOK
  <1>3. RadioUser \in users' <=> RadioUser \in users
    BY DEF Wifi, Start, Retry, Resolve, LinkLost, TurnOff, BeginSetup, EndSetup, Acquire, Release
  <1>4. TypeOK'
    BY <1>1, <1>2 DEF IInv, TypeOK, radioVars, queues
  <1>5. ManagerShape' /\ WifiShape' /\ GivenOut' /\ ClientShape'
    BY <1>1, <1>3 DEF IInv, ManagerShape, WifiShape, GivenOut, ClientShape, radioVars, queues
  <1>6. LeaseShape'
    BY <1>1 DEF IInv, LeaseShape, Unsent, NotEnded, Leased, Granted, radioVars, queues
  <1>. QED
    BY <1>2, <1>4, <1>5, <1>6 DEF IInv

-----------------------------------------------------------------------------
(* The manager. *)
LEMMA Shorter ==
    ASSUME NEW S, NEW s \in Seq(S), s # <<>>
    PROVE  /\ Tail(s) \in Seq(S) /\ Len(Tail(s)) <= Len(s) /\ Head(s) \in S
           /\ 1 \in 1 .. Len(s) /\ Head(s) = s[1]
           /\ \A k \in 1 .. Len(Tail(s)) : k + 1 \in 1 .. Len(s) /\ Tail(s)[k] = s[k + 1]
  OBVIOUS

LEMMA ManagerTypes ==
    ASSUME IInv
    PROVE  /\ manager \in Managers /\ state \in States /\ users \subseteq Users /\ held \in BOOLEAN
           /\ (held <=> RadioUser \in users) /\ ServiceShape
  BY DEF IInv, TypeOK, WifiShape, Managers, Places

(* A step that keeps the messages and the owner concerns no lease. *)
LEMMA QuietKeeps ==
    ASSUME IInv, UNCHANGED <<requests, controls, reply, lastId, late, client>>,
           manager'.owner = manager.owner, manager'.pending \in {manager.pending, NoRequest},
           manager' \in Managers, state' \in States, users' \subseteq Users, held' \in BOOLEAN
    PROVE  TypeOK' /\ GivenOut' /\ ClientShape' /\ LeaseShape'
  <1>1. TypeOK'
    BY DEF IInv, TypeOK, Managers, Places
  <1>2. NoRequest.id = 0 /\ lastId \in Nat
    BY Constants, Types DEF NoRequest, IInv
  <1>3. GivenOut' /\ ClientShape'
    BY <1>2 DEF IInv, GivenOut, ClientShape
  <1>4. \A c \in Clients : client[c].at = "sending" => client[c].id # 0
    BY Constants DEF IInv, ClientShape
  <1>5. LeaseShape'
    BY <1>2, <1>4 DEF IInv, LeaseShape, Unsent, NotEnded, Leased, Granted
  <1>. QED
    BY <1>1, <1>3, <1>5

LEMMA ReleaseWifiShape ==
    ASSUME IInv, ReleaseWifi
    PROVE  /\ held' = FALSE /\ RadioUser \notin users'
           /\ state' \in States /\ users' \subseteq Users /\ ServiceShape'
  <1>1. held' = FALSE
    BY DEF ReleaseWifi
  <1>2. CASE held /\ RadioUser \in users
    <2>1. Release(RadioUser)
      BY <1>2 DEF ReleaseWifi
    <2>. QED
      BY <1>1, <2>1, ManagerTypes DEF Release, ServiceShape
  <1>3. CASE ~(held /\ RadioUser \in users)
    <2>1. UNCHANGED <<state, users>>
      BY <1>3 DEF ReleaseWifi, serviceVars
    <2>2. RadioUser \notin users
      BY <1>3, ManagerTypes
    <2>. QED
      BY <1>1, <2>1, <2>2, ManagerTypes DEF ServiceShape
  <1>. QED
    BY <1>2, <1>3

(* manager with another place, or a verdict. *)
LEMMA GotoShape ==
    ASSUME IInv, NEW place \in Places, Goto(place)
    PROVE  /\ manager' \in Managers /\ manager'.at = place
           /\ manager'.owner = manager.owner /\ manager'.pending = manager.pending
           /\ manager'.verdict = manager.verdict
  BY ManagerTypes DEF Goto, Managers

LEMMA ConcludeShape ==
    ASSUME IInv, NEW verdict \in Results, Conclude(verdict)
    PROVE  /\ manager' \in Managers /\ manager'.at = "decide"
           /\ manager'.owner = manager.owner /\ manager'.pending = manager.pending
           /\ manager'.verdict = verdict
  <1>1. manager' = [manager EXCEPT !.at = "decide", !.verdict = verdict, !.preparing = NoId]
    BY DEF Conclude
  <1>2. "decide" \in Places /\ verdict \in Results \cup {"none"} /\ NoId \in Ids \cup {NoId}
    BY DEF Places
  <1>3. manager' \in Managers
    BY <1>1, <1>2, ManagerTypes, Zenon DEF Managers
  <1>. QED
    BY <1>1, <1>3, ManagerTypes DEF Managers

LEMMA FinishShape ==
    ASSUME IInv, NEW verdict, Finish(verdict), manager.at \in {"decide", "answer"},
           verdict = manager.verdict
    PROVE  /\ manager' \in Managers /\ manager'.at = "idle" /\ manager'.owner = manager.owner
           /\ manager'.pending = NoRequest /\ manager'.verdict = "none"
           /\ state' \in States /\ users' \subseteq Users /\ held' \in BOOLEAN
           /\ ServiceShape' /\ ManagerShape' /\ WifiShape'
  <1>1. manager' = [manager EXCEPT !.at = "idle", !.pending = NoRequest, !.verdict = "none"]
    BY DEF Finish
  <1>2. /\ "idle" \in Places /\ NoRequest \in Requests \cup {NoRequest}
        /\ "none" \in Results \cup {"none"}
    BY DEF Places
  <1>3. manager' \in Managers
    BY <1>1, <1>2, ManagerTypes, Zenon DEF Managers
  <1>4. /\ manager'.at = "idle" /\ manager'.owner = manager.owner
        /\ manager'.pending = NoRequest /\ manager'.verdict = "none"
    BY <1>1, ManagerTypes DEF Managers
  <1>5. /\ state' \in States /\ users' \subseteq Users /\ held' \in BOOLEAN /\ ServiceShape'
        /\ held' <=> RadioUser \in users'
    <2>1. CASE UNCHANGED <<serviceVars, held>>
      BY <2>1, ManagerTypes DEF serviceVars, ServiceShape
    <2>2. CASE ReleaseWifi
      BY <2>2, ReleaseWifiShape
    <2>. QED
      BY <2>1, <2>2 DEF Finish
  <1>6. ManagerShape' /\ WifiShape'
    BY <1>4, <1>5, Constants DEF IInv, ManagerShape, WifiShape
  <1>. QED
    BY <1>3, <1>4, <1>5, <1>6

LEMMA PreparingKeeps ==
    ASSUME IInv, IdleTimeout \/ AcquireWifi \/ CheckState \/ WaitConnected
    PROVE  IInv'
  <1>0. /\ "idle" \in Places /\ "check" \in Places /\ "wait" \in Places
        /\ "ok" \in Results /\ "failed" \in Results /\ "paused" \in Results
    BY DEF Places, Results
  <1>1. UNCHANGED <<requests, controls, reply, lastId, late, client>>
    BY DEF IdleTimeout, AcquireWifi, CheckState, WaitConnected, ManagerUnchanged, queues
  <1>2. /\ manager' \in Managers /\ manager'.owner = manager.owner
        /\ manager'.pending = manager.pending
        /\ state' \in States /\ users' \subseteq Users /\ held' \in BOOLEAN
        /\ ServiceShape' /\ ManagerShape' /\ WifiShape'
    <2>1. CASE IdleTimeout
      <3>1. manager' = manager /\ manager.at = "idle" /\ ReleaseWifi
        BY <2>1 DEF IdleTimeout
      <3>. QED
        BY <3>1, ReleaseWifiShape, ManagerTypes DEF IInv, ManagerShape, WifiShape
    <2>2. CASE AcquireWifi
      <3>0. manager.at = "acquire" /\ manager.verdict = "none"
        BY <2>2 DEF AcquireWifi, IInv, ManagerShape
      <3>1. CASE held /\ Goto("check") /\ UNCHANGED <<serviceVars, held>>
        <4>1. UNCHANGED <<state, users, held>> /\ held
          BY <3>1 DEF serviceVars
        <4>2. ManagerShape' /\ WifiShape'
          BY <1>0, <3>0, <3>1, <4>1, GotoShape, ManagerTypes DEF IInv, ManagerShape, WifiShape
        <4>. QED
          BY <1>0, <3>1, <4>1, <4>2, GotoShape, ManagerTypes DEF ServiceShape
      <3>2. CASE ~held /\ Conclude("failed") /\ UNCHANGED <<serviceVars, held>>
        <4>1. UNCHANGED <<state, users, held>>
          BY <3>2 DEF serviceVars
        <4>2. ManagerShape' /\ WifiShape'
          BY <1>0, <3>0, <3>2, <4>1, ConcludeShape, ManagerTypes DEF IInv, ManagerShape, WifiShape
        <4>. QED
          BY <1>0, <3>2, <4>1, <4>2, ConcludeShape, ManagerTypes DEF ServiceShape
      <3>3. CASE ~held /\ Acquire(RadioUser) /\ held' = TRUE /\ Goto("check")
        <4>1. state' \in States /\ users' \subseteq Users /\ ServiceShape'
          BY <3>3, ServiceTypes, ManagerTypes, Constants
        <4>2. RadioUser \in users'
          BY <3>3 DEF Acquire
        <4>3. ManagerShape' /\ WifiShape'
          BY <1>0, <3>0, <3>3, <4>2, GotoShape DEF IInv, ManagerShape, WifiShape
        <4>. QED
          BY <1>0, <3>3, <4>1, <4>3, GotoShape
      <3>. QED
        BY <2>2, <3>1, <3>2, <3>3 DEF AcquireWifi
    <2>3. CASE CheckState
      <3>0. /\ manager.at = "check" /\ manager.verdict = "none" /\ held
            /\ UNCHANGED <<state, users, held>>
        BY <2>3 DEF CheckState, IInv, ManagerShape, WifiShape, serviceVars
      <3>1. \/ \E verdict \in {"ok", "failed"} : Conclude(verdict)
            \/ Goto("wait")
        BY <2>3 DEF CheckState
      <3>2. ASSUME NEW verdict \in {"ok", "failed"}, Conclude(verdict) PROVE <1>2
        <4>1. verdict \in Results
          BY <1>0
        <4>2. ManagerShape' /\ WifiShape'
          BY <3>0, <3>2, <4>1, ConcludeShape, ManagerTypes DEF IInv, ManagerShape, WifiShape
        <4>. QED
          BY <3>0, <3>2, <4>1, <4>2, ConcludeShape, ManagerTypes DEF ServiceShape
      <3>3. CASE Goto("wait")
        <4>1. ManagerShape' /\ WifiShape'
          BY <1>0, <3>0, <3>3, GotoShape, ManagerTypes DEF IInv, ManagerShape, WifiShape
        <4>. QED
          BY <1>0, <3>0, <3>3, <4>1, GotoShape, ManagerTypes DEF ServiceShape
      <3>. QED
        BY <3>1, <3>2, <3>3
    <2>4. CASE WaitConnected
      <3>0. /\ manager.at = "wait" /\ manager.verdict = "none" /\ held
            /\ UNCHANGED <<state, users, held>>
        BY <2>4 DEF WaitConnected, IInv, ManagerShape, WifiShape, serviceVars
      <3>1. Conclude("paused") \/ Goto("check")
        BY <2>4 DEF WaitConnected
      <3>2. CASE Conclude("paused")
        <4>1. ManagerShape' /\ WifiShape'
          BY <1>0, <3>0, <3>2, ConcludeShape, ManagerTypes DEF IInv, ManagerShape, WifiShape
        <4>. QED
          BY <1>0, <3>0, <3>2, <4>1, ConcludeShape, ManagerTypes DEF ServiceShape
      <3>3. CASE Goto("check")
        <4>1. ManagerShape' /\ WifiShape'
          BY <1>0, <3>0, <3>3, GotoShape, ManagerTypes DEF IInv, ManagerShape, WifiShape
        <4>. QED
          BY <1>0, <3>0, <3>3, <4>1, GotoShape, ManagerTypes DEF ServiceShape
      <3>. QED
        BY <3>1, <3>2, <3>3
    <2>. QED
      BY <2>1, <2>2, <2>3, <2>4
  <1>3. TypeOK' /\ GivenOut' /\ ClientShape' /\ LeaseShape'
    BY <1>1, <1>2, QuietKeeps
  <1>. QED
    BY <1>2, <1>3 DEF IInv

LEMMA CheckDeadlineKeeps == ASSUME IInv, CheckDeadline PROVE IInv'
  <1>0. "answer" \in Places /\ manager.at = "decide"
    BY DEF Places, CheckDeadline
  <1>1. UNCHANGED <<requests, controls, reply, lastId, late, client>>
    BY DEF CheckDeadline, ManagerUnchanged
  <1>2. CASE Finish(manager.verdict)
    <2>1. TypeOK' /\ GivenOut' /\ ClientShape' /\ LeaseShape'
      BY <1>0, <1>1, <1>2, FinishShape, QuietKeeps
    <2>. QED
      BY <1>0, <1>2, <2>1, FinishShape DEF IInv
  <1>3. CASE Goto("answer") /\ UNCHANGED <<serviceVars, held>>
    <2>1. UNCHANGED <<state, users, held>>
      BY <1>3 DEF serviceVars
    <2>2. TypeOK' /\ GivenOut' /\ ClientShape' /\ LeaseShape'
      BY <1>0, <1>1, <1>3, <2>1, GotoShape, ManagerTypes, QuietKeeps
    <2>3. ServiceShape' /\ ManagerShape' /\ WifiShape'
      BY <1>0, <1>3, <2>1, GotoShape DEF IInv, ServiceShape, ManagerShape, WifiShape
    <2>. QED
      BY <2>2, <2>3 DEF IInv
  <1>. QED
    BY <1>2, <1>3 DEF CheckDeadline

(* The answer goes to the client of the request, with its id, which is no     *)
(* request that client has still to send.                                     *)
LEMMA RespondShape ==
    ASSUME IInv, NEW result \in Results, Respond(manager.pending, result), manager.at = "answer"
    PROVE  /\ manager.pending \in Requests /\ manager.pending.client \in Clients
           /\ reply' \in [Clients -> Replies]
           /\ reply'[manager.pending.client].id = manager.pending.id
           /\ reply'[manager.pending.client].result = result
           /\ \A c \in Clients \ {manager.pending.client} : reply'[c] = reply[c]
           /\ manager.owner = NoRequest
  <1>1. manager.pending \in Requests /\ manager.owner = NoRequest
    BY ManagerTypes DEF IInv, ManagerShape, Managers
  <1>2. manager.pending.client \in Clients /\ manager.pending.id \in Ids
    BY <1>1 DEF Requests
  <1>. DEFINE answer == [id |-> manager.pending.id, result |-> result]
  <1>3. answer \in Replies /\ answer.id = manager.pending.id /\ answer.result = result
    <2>1. answer \in [id: Ids, result: Results]
      BY <1>2
    <2>. QED
      BY <2>1, Zenon DEF Replies
  <1>4. reply' = [reply EXCEPT ![manager.pending.client] = answer]
    BY DEF Respond
  <1>5. reply \in [Clients -> Replies]
    BY DEF IInv, TypeOK
  <1>. HIDE DEF answer
  <1>. QED
    BY <1>1, <1>2, <1>3, <1>4, <1>5

LEMMA AnswerKeeps ==
    ASSUME IInv, Reject \/ Grant
    PROVE  IInv'
  <1>0. /\ manager.at = "answer" /\ UNCHANGED <<requests, controls, lastId, late, client>>
        /\ "owned" \in Places /\ "ok" \in Results
    BY DEF Reject, Grant, ManagerUnchanged, Places, Results
  <1>1. PICK result \in Results :
            /\ Respond(manager.pending, result)
            /\ result = "ok" <=> Grant /\ ~Reject
    <2>1. manager.verdict \in Results
      BY <1>0, ManagerTypes DEF Reject, Grant, Managers, IInv, ManagerShape
    <2>2. CASE Reject
      BY <2>1, <2>2 DEF Reject, Grant
    <2>3. CASE Grant
      BY <2>1, <2>3 DEF Reject, Grant
    <2>. QED
      BY <2>2, <2>3
  <1>. DEFINE p == manager.pending
  <1>2. /\ p \in Requests /\ p.client \in Clients /\ reply' \in [Clients -> Replies]
        /\ reply'[p.client].id = p.id /\ reply'[p.client].result = result
        /\ \A c \in Clients \ {p.client} : reply'[c] = reply[c]
        /\ manager.owner = NoRequest
    BY <1>0, <1>1, RespondShape
  <1>3. /\ manager' \in Managers /\ manager'.pending = NoRequest
        /\ manager'.owner = IF result = "ok" THEN p ELSE NoRequest
        /\ state' \in States /\ users' \subseteq Users /\ held' \in BOOLEAN
        /\ ServiceShape' /\ ManagerShape' /\ WifiShape'
    <2>1. CASE Reject
      BY <1>0, <1>1, <1>2, <2>1, FinishShape DEF Reject
    <2>2. CASE Grant /\ ~Reject
      <3>1. manager' = [manager EXCEPT !.at = "owned", !.pending = NoRequest, !.verdict = "none",
                                       !.owner = p]
            /\ manager.verdict = "ok" /\ UNCHANGED <<state, users, held>>
        BY <2>2 DEF Grant, serviceVars
      <3>2. NoRequest \in Requests \cup {NoRequest} /\ "none" \in Results \cup {"none"}
            /\ p \in Requests \cup {NoRequest}
        BY <1>2
      <3>. HIDE DEF p
      <3>3. manager' \in Managers
        BY <1>0, <3>1, <3>2, ManagerTypes, Zenon DEF Managers
      <3>4. manager'.at = "owned" /\ manager'.pending = NoRequest /\ manager'.verdict = "none"
            /\ manager'.owner = p
        BY <3>1, ManagerTypes DEF Managers
      <3>5. ManagerShape' /\ WifiShape' /\ ServiceShape'
        BY <1>2, <3>1, <3>4, Constants DEF IInv, ManagerShape, WifiShape, ServiceShape
      <3>. QED
        BY <1>1, <2>2, <3>1, <3>3, <3>4, <3>5, ManagerTypes
    <2>. QED
      BY <2>1, <2>2
  <1>4. TypeOK'
    BY <1>0, <1>2, <1>3 DEF IInv, TypeOK, Managers, Places
  <1>5. NoRequest.id = 0 /\ lastId \in Nat
    BY Constants, Types DEF NoRequest, IInv
  <1>. HIDE DEF p
  <1>6. p.id <= lastId /\ \A c \in Clients : Unsent(c) /\ NotEnded(c) /\ Leased(c)
    BY DEF IInv, GivenOut, LeaseShape, p
  <1>7. GivenOut'
    <2>1. \A c \in Clients : client'[c].id <= lastId /\ reply'[c].id <= lastId
      BY <1>0, <1>2, <1>6 DEF IInv, GivenOut
    <2>. QED
      BY <1>0, <1>3, <1>5, <2>1 DEF IInv, GivenOut
  <1>8. ClientShape'
    BY <1>0 DEF IInv, ClientShape
  <1>9. ASSUME NEW c \in Clients PROVE Unsent(c)' /\ NotEnded(c)' /\ Leased(c)'
    <2>1. Unsent(c)'
      <3>. SUFFICES ASSUME client[c].at = "sending" PROVE Unsent(c)'
        BY <1>0 DEF Unsent
      <3>1. client[c].id # 0 /\ ~(p.client = c /\ p.id = client[c].id)
        BY <1>6, Constants DEF IInv, ClientShape, Unsent, p
      <3>2. reply'[c].id # client[c].id
        BY <1>2, <1>6, <3>1 DEF Unsent
      <3>. QED
        BY <1>0, <1>3, <1>5, <1>6, <3>1, <3>2 DEF Unsent
    <2>2. NotEnded(c)'
      BY <1>0, <1>6 DEF NotEnded
    <2>3. Leased(c)'
      <3>. SUFFICES ASSUME c \in Unlimited, Granted(c)'
                    PROVE  manager'.owner = [client |-> c, id |-> client[c].id]
        BY <1>0 DEF Leased
      <3>1. ~Granted(c)
        <4>. SUFFICES ASSUME Granted(c) PROVE FALSE
          OBVIOUS
        <4>1. manager.owner = [client |-> c, id |-> client[c].id]
          BY <1>6 DEF Leased
        <4>2. client[c].id \in Ids
          BY DEF IInv, ClientShape, Granted
        <4>3. manager.owner.id # 0
          BY <4>1, <4>2, Constants
        <4>. QED
          BY <1>2, <1>5, <4>3
      <3>2. c = p.client /\ client[c].id = p.id /\ result = "ok"
        BY <1>0, <1>2, <3>1 DEF Granted
      <3>3. p = [client |-> p.client, id |-> p.id]
        BY <1>2 DEF Requests
      <3>. QED
        BY <1>3, <3>2, <3>3
    <2>. QED
      BY <2>1, <2>2, <2>3
  <1>. QED
    BY <1>3, <1>4, <1>7, <1>8, <1>9 DEF IInv, LeaseShape

LEMMA ReceiveKeeps == ASSUME IInv, Receive PROVE IInv'
  <1>0. /\ manager.at = "idle" /\ requests # <<>> /\ requests' = Tail(requests)
        /\ UNCHANGED <<state, users, controls, reply, lastId, late, held, client>>
        /\ "acquire" \in Places /\ requests \in Seq(Requests)
    BY Types DEF Receive, serviceVars, Places, IInv
  <1>. DEFINE r == Head(requests)
  <1>1. /\ requests' \in Seq(Requests) /\ Len(requests') <= Len(requests)
        /\ r \in Requests /\ 1 \in 1 .. Len(requests) /\ r = requests[1]
        /\ \A k \in 1 .. Len(requests') :
                k + 1 \in 1 .. Len(requests) /\ requests'[k] = requests[k + 1]
    BY <1>0, Shorter
  <1>. HIDE DEF r
  <1>2. /\ manager' \in Managers /\ manager'.owner = manager.owner
        /\ manager'.verdict = manager.verdict
        /\ \/ manager' = manager
           \/ manager'.at = "acquire" /\ manager'.pending = r
    <2>1. CASE manager' = manager
      BY <2>1, ManagerTypes
    <2>2. CASE manager' = [manager EXCEPT !.at = "acquire", !.pending = r, !.preparing = r.id]
      <3>1. r \in Requests \cup {NoRequest} /\ r.id \in Ids \cup {NoId}
        BY <1>1 DEF Requests
      <3>2. manager' \in Managers
        BY <1>0, <2>2, <3>1, ManagerTypes, Zenon DEF Managers
      <3>. QED
        BY <2>2, <3>2, ManagerTypes DEF Managers
    <2>. QED
      BY <2>1, <2>2 DEF Receive, r
  <1>3. Len(requests) <= RequestQueue /\ Len(requests) \in Nat /\ Len(requests') \in Nat
        /\ RequestQueue \in Nat
    BY <1>1, Types, Constants DEF IInv, TypeOK
  <1>4. TypeOK'
    BY <1>0, <1>1, <1>2, <1>3 DEF IInv, TypeOK, Managers, Places
  <1>5. ServiceShape' /\ ManagerShape' /\ WifiShape' /\ ClientShape'
    BY <1>0, <1>1, <1>2 DEF IInv, ServiceShape, ManagerShape, WifiShape, ClientShape
  <1>6. GivenOut'
    <2>1. \A k \in 1 .. Len(requests') : requests'[k].id <= lastId
      BY <1>1 DEF IInv, GivenOut
    <2>2. manager'.pending.id <= lastId
      BY <1>1, <1>2 DEF IInv, GivenOut
    <2>. QED
      BY <1>0, <2>1, <2>2 DEF IInv, GivenOut
  <1>7. ASSUME NEW c \in Clients PROVE Unsent(c)' /\ NotEnded(c)' /\ Leased(c)'
    <2>0. Unsent(c) /\ NotEnded(c) /\ Leased(c)
      BY DEF IInv, LeaseShape
    <2>1. Unsent(c)'
      BY <1>0, <1>1, <1>2, <2>0 DEF Unsent
    <2>2. NotEnded(c)' /\ Leased(c)'
      BY <1>0, <1>2, <2>0 DEF NotEnded, Leased, Granted
    <2>. QED
      BY <2>1, <2>2
  <1>. QED
    BY <1>4, <1>5, <1>6, <1>7 DEF IInv, LeaseShape

(* A lease ends for a message of its own, or for its limit; neither happens   *)
(* to a client without limit that is still there.                             *)
LEMMA OwnedKeeps == ASSUME IInv, ReceiveControl \/ HoldLimit PROVE IInv'
  <1>0. /\ manager.at = "owned" /\ manager.verdict = "none" /\ manager.pending \notin Requests
        /\ UNCHANGED <<state, users, requests, reply, lastId, late, held, client>>
        /\ "idle" \in Places
    BY DEF ReceiveControl, HoldLimit, serviceVars, Places, queues, IInv, ManagerShape
  <1>1. /\ controls' \in Seq(Controls) /\ Len(controls') <= ControlQueue
        /\ \A k \in 1 .. Len(controls') :
                \E j \in 1 .. Len(controls) : controls'[k] = controls[j]
    <2>1. CASE ReceiveControl
      <3>1. controls # <<>> /\ controls' = Tail(controls) /\ controls \in Seq(Controls)
            /\ Len(controls) <= ControlQueue /\ ControlQueue \in Nat
        BY <2>1, Types, Constants DEF ReceiveControl, IInv, TypeOK
      <3>2. /\ controls' \in Seq(Controls) /\ Len(controls') <= Len(controls)
            /\ Len(controls') \in Nat /\ Len(controls) \in Nat
            /\ \A k \in 1 .. Len(controls') :
                    k + 1 \in 1 .. Len(controls) /\ controls'[k] = controls[k + 1]
        BY <3>1, Shorter
      <3>. QED
        BY <3>1, <3>2
    <2>2. CASE HoldLimit
      BY <2>2 DEF HoldLimit, queues, IInv, TypeOK
    <2>. QED
      BY <2>1, <2>2
  <1>2. /\ manager' \in Managers /\ manager'.verdict = "none" /\ manager'.pending = manager.pending
        /\ \/ manager' = manager
           \/ EndOwner /\ manager'.at = "idle" /\ manager'.owner = NoRequest
    <2>1. CASE manager' = manager
      BY <1>0, <2>1, ManagerTypes
    <2>2. CASE EndOwner
      <3>1. manager' = [manager EXCEPT !.at = "idle", !.owner = NoRequest]
            /\ NoRequest \in Requests \cup {NoRequest}
        BY <2>2 DEF EndOwner
      <3>2. manager' \in Managers
        BY <1>0, <3>1, ManagerTypes, Zenon DEF Managers
      <3>. QED
        BY <1>0, <2>2, <3>1, <3>2, ManagerTypes DEF Managers
    <2>. QED
      BY <2>1, <2>2 DEF ReceiveControl, HoldLimit
  <1>3. TypeOK'
    BY <1>0, <1>1, <1>2 DEF IInv, TypeOK, Managers, Places
  <1>4. ServiceShape' /\ ManagerShape' /\ WifiShape' /\ ClientShape'
    BY <1>0, <1>2, Constants DEF IInv, ServiceShape, ManagerShape, WifiShape, ClientShape
  <1>5. GivenOut'
    <2>1. \A k \in 1 .. Len(controls') : controls'[k].id <= lastId
      BY <1>1 DEF IInv, GivenOut
    <2>. QED
      BY <1>0, <1>2, <2>1 DEF IInv, GivenOut
  <1>6. ASSUME NEW c \in Clients PROVE Unsent(c)' /\ NotEnded(c)' /\ Leased(c)'
    <2>0. Unsent(c) /\ NotEnded(c) /\ Leased(c)
      BY DEF IInv, LeaseShape
    <2>1. Unsent(c)'
      BY <1>0, <1>2, <2>0 DEF Unsent
    <2>2. NotEnded(c)'
      BY <1>0, <1>1, <2>0 DEF NotEnded
    <2>3. Leased(c)'
      <3>1. CASE manager' = manager
        BY <1>0, <2>0, <3>1 DEF Leased, Granted
      <3>2. ASSUME EndOwner, manager' # manager, c \in Unlimited, Granted(c) PROVE FALSE
        <4>1. manager.owner = [client |-> c, id |-> client[c].id]
          BY <2>0, <3>2 DEF Leased
        <4>2. manager.owner.client = c /\ manager.owner.id = client[c].id
          BY <4>1
        <4>3. ~HoldLimit
          BY <3>2, <4>2 DEF HoldLimit
        <4>4. controls # <<>> /\ IsOwner(Head(controls)) /\ controls \in Seq(Controls)
          BY <3>2, <4>3, Types DEF ReceiveControl, IInv
        <4>5. 1 \in 1 .. Len(controls) /\ Head(controls) = controls[1]
          BY <4>4, Shorter
        <4>6. controls[1].client = c /\ controls[1].id = client[c].id
          BY <4>2, <4>4, <4>5 DEF IsOwner
        <4>. QED
          BY <2>0, <3>2, <4>5, <4>6 DEF NotEnded, Granted
      <3>. QED
        BY <1>0, <1>2, <3>1, <3>2 DEF Leased, Granted
    <2>. QED
      BY <2>1, <2>2, <2>3
  <1>. QED
    BY <1>3, <1>4, <1>5, <1>6 DEF IInv, LeaseShape

LEMMA StutterKeeps == ASSUME IInv, UNCHANGED vars PROVE IInv'
  BY DEF IInv, vars, serviceVars, radioVars, queues, TypeOK, ServiceShape, ManagerShape, WifiShape,
         GivenOut, ClientShape, LeaseShape, Unsent, NotEnded, Leased, Granted

LEMMA Invariance == Spec => []IInv
  <1>1. IInv /\ [Next]_vars => IInv'
    BY ClientKeeps, WifiKeeps, PreparingKeeps, CheckDeadlineKeeps, AnswerKeeps, ReceiveKeeps,
       OwnedKeeps, StutterKeeps DEF Next, Manager
  <1>. QED
    BY InitHolds, <1>1, PTL DEF Spec

-----------------------------------------------------------------------------
(* The types; no queue holds more than its length. *)
THEOREM TypeCorrect == Spec => []TypeOK
  <1>1. IInv => TypeOK
    BY DEF IInv
  <1>. QED
    BY <1>1, Invariance, PTL

(* A client that was granted the radio without a limit owns it until it gives *)
(* it back (radio_manager_acquire(), radio_manager_wait_owner_release()):     *)
(* however many requests it gave up before, whose replies come late and whose *)
(* cancellations are still in the queue.                                      *)
THEOREM HolderIsOwner == Spec => []HolderOwns
  <1>1. IInv => HolderOwns
    BY RadioAssumption DEF IInv, LeaseShape, Leased, Granted, HolderOwns
  <1>. QED
    BY <1>1, Invariance, PTL

(* Wi-Fi is held for whoever owns the radio or is about to, and then no other *)
(* user of it can turn it off (radio_manager_prepare_internet() and           *)
(* radio_manager_release_wifi_if_idle() on the contract of wifi_connection).  *)
THEOREM WifiStaysBehindLease == Spec => []WifiBehindLease
  <1>1. IInv => WifiBehindLease
    BY DEF IInv, WifiShape, ServiceShape, WifiBehindLease
  <1>. QED
    BY <1>1, Invariance, PTL

(* A lease is real: who believes to hold the radio owns it, and Wi-Fi is      *)
(* behind it.                                                                 *)
THEOREM LeasesAreReal == Spec => []LeaseIsReal
  <1>1. HolderOwns /\ WifiBehindLease => LeaseIsReal
    BY DEF LeaseIsReal
  <1>. QED
    BY <1>1, HolderIsOwner, WifiStaysBehindLease, PTL

-----------------------------------------------------------------------------
(* A cancellation finds room in the control queue. *)
NoCancelIsLost == \A c \in Clients : GiveUp(c) => Len(controls) < ControlQueue

(* The client of a request waits for its answer, which has not come; or has   *)
(* said that it does not.                                                     *)
Waits(r) ==
    /\ client[r.client].at = "waiting" /\ client[r.client].id = r.id
    /\ reply[r.client].id # r.id

Ended(r) ==
    \E k \in 1 .. Len(controls) : controls[k].client = r.client /\ controls[k].id = r.id

(* A request that nobody awaits is late, which the manager sees before it     *)
(* answers, or is cancelled.                                                  *)
Awaited(r) == r.id \in late \/ Waits(r)

Preparing == {"acquire", "check", "wait", "decide"}

RequestShape ==
    /\ \A j, k \in 1 .. Len(requests) : requests[j] = requests[k] => j = k
    /\ manager.pending \in Requests =>
           \A k \in 1 .. Len(requests) : requests[k] # manager.pending
    /\ \A k \in 1 .. Len(requests) : Awaited(requests[k])
    /\ manager.at \in Preparing => Awaited(manager.pending)
    /\ manager.at = "answer" => Waits(manager.pending) \/ Ended(manager.pending)

(* The owner has its grant, or it is on its way, or the end of it is. *)
Returns(r) ==
    \/ client[r.client].id = r.id /\ client[r.client].at = "holding"
    \/ /\ client[r.client].id = r.id /\ client[r.client].at = "waiting"
       /\ reply[r.client].id = r.id /\ reply[r.client].result = "ok"
    \/ Ended(r)

OwnerShape == manager.at = "owned" => Returns(manager.owner)

EndInv == RequestShape /\ OwnerShape

LEMMA EndInit == Init => EndInv
  BY Constants DEF Init, EndInv, RequestShape, OwnerShape, Preparing

(* A step that leaves the requests to the manager, and the manager to its     *)
(* place, has only to keep what is known of each request.                     *)
LEMMA EndFrame ==
    ASSUME IInv, EndInv, UNCHANGED <<requests, manager>>,
           \A r \in Requests :
              /\ Waits(r) => Waits(r)' \/ (r.id \in late' /\ Ended(r)')
              /\ r.id \in late => r.id \in late'
              /\ Ended(r) => Ended(r)',
           OwnerShape'
    PROVE  EndInv'
  <1>1. /\ \A k \in 1 .. Len(requests) : requests[k] \in Requests
        /\ manager.at \in Preparing \cup {"answer"} => manager.pending \in Requests
    BY Types DEF IInv, ManagerShape, Preparing
  <1>2. \A r \in Requests : Awaited(r) => Awaited(r)'
    BY DEF Awaited
  <1>3. RequestShape'
    <2>1. \A k \in 1 .. Len(requests) : Awaited(requests[k])'
      BY <1>1, <1>2 DEF EndInv, RequestShape
    <2>2. manager.at \in Preparing => Awaited(manager.pending)'
      BY <1>1, <1>2 DEF EndInv, RequestShape
    <2>3. manager.at = "answer" => (Waits(manager.pending) \/ Ended(manager.pending))'
      BY <1>1 DEF EndInv, RequestShape
    <2>. QED
      BY <2>1, <2>2, <2>3 DEF EndInv, RequestShape, Awaited, Waits, Ended
  <1>. QED
    BY <1>3 DEF EndInv

LEMMA OwnerType ==
    ASSUME IInv, manager.at = "owned"
    PROVE  /\ manager.owner \in Requests /\ manager.owner.client \in Clients
           /\ manager.owner.id \in Ids
  BY DEF IInv, ManagerShape, Requests

(* The clients. *)
LEMMA QuietClientEnds ==
    ASSUME IInv, EndInv, NEW c \in Clients,
           BeginAcquire(c) \/ QueueFull(c) \/ TimeoutFailure(c) \/ DeadlinePasses(c)
    PROVE  EndInv'
  <1>1. /\ UNCHANGED <<requests, controls, manager>> /\ late \subseteq late'
        /\ client[c].at \notin {"holding"}
    BY DEF BeginAcquire, QueueFull, TimeoutFailure, DeadlinePasses, queues
  <1>2. \A d \in Clients \ {c} : client'[d] = client[d] /\ reply'[d] = reply[d]
    BY ClientTypes DEF BeginAcquire, QueueFull, TimeoutFailure, DeadlinePasses, queues, Become
  <1>3. client[c].at = "waiting" => client'[c] = client[c] /\ reply'[c] = reply[c]
    BY DEF BeginAcquire, QueueFull, TimeoutFailure, DeadlinePasses, queues
  <1>4. \A r \in Requests : r.client \in Clients
    BY DEF Requests
  <1>5. \A r \in Requests : Waits(r) => Waits(r)'
    BY <1>2, <1>3, <1>4 DEF Waits
  <1>6. OwnerShape'
    BY <1>1, <1>2, <1>3, OwnerType DEF EndInv, OwnerShape, Returns, Ended
  <1>. QED
    BY <1>1, <1>5, <1>6, EndFrame DEF Ended

LEMMA SendEnds ==
    ASSUME IInv, EndInv, NEW c \in Clients, Send(c), IInv'
    PROVE  EndInv'
  <1>0. PICK request : request = [client |-> c, id |-> client[c].id]
    OBVIOUS
  <1>1. /\ client[c].at = "sending" /\ UNCHANGED <<controls, reply, late, manager>>
        /\ requests' = Append(requests, request) /\ requests \in Seq(Requests)
        /\ request \in Requests /\ Unsent(c)
    <2>1. client[c].id \in Ids
      BY ClientTypes DEF Send
    <2>. QED
      BY <1>0, <2>1, Types, ClientTypes DEF Send, IInv, Requests
  <1>2. /\ client'[c].at = "waiting" /\ client'[c].id = client[c].id
        /\ \A d \in Clients \ {c} : client'[d] = client[d]
    BY ClientTypes DEF Send, Become
  <1>3. request.client = c /\ request.id = client[c].id
    BY <1>0
  <1>4. /\ Len(requests) \in Nat /\ Len(requests') = Len(requests) + 1
        /\ requests'[Len(requests) + 1] = request
        /\ \A k \in 1 .. Len(requests) : requests'[k] = requests[k] /\ requests[k] \in Requests
    BY <1>1
  <1>5. \A k \in 1 .. Len(requests) : requests[k] # request
    BY <1>1, <1>3 DEF Unsent
  <1>6. manager.pending # request
    BY <1>1, <1>3 DEF Unsent
  <1>7. Waits(request)'
    BY <1>1, <1>2, <1>3 DEF Unsent, Waits
  <1>8. \A r \in Requests : (Waits(r) => Waits(r)') /\ (Ended(r) => Ended(r)')
    <2>1. \A r \in Requests : r.client \in Clients
      BY DEF Requests
    <2>. QED
      BY <1>1, <1>2, <2>1 DEF Waits, Ended
  <1>9. \A r \in Requests : Awaited(r) => Awaited(r)'
    BY <1>1, <1>8 DEF Awaited
  <1>10. manager.at \in Preparing \cup {"answer"} => manager.pending \in Requests
    BY DEF IInv, ManagerShape, Preparing
  <1>11. \A j, k \in 1 .. Len(requests') : requests'[j] = requests'[k] => j = k
    BY <1>4, <1>5 DEF EndInv, RequestShape
  <1>12. \A k \in 1 .. Len(requests') : requests'[k] # manager.pending \/ manager.pending \notin Requests
    BY <1>4, <1>6 DEF EndInv, RequestShape
  <1>13. (\A k \in 1 .. Len(requests) : Awaited(requests[k]))'
    <2>1. \A k \in 1 .. Len(requests) : Awaited(requests[k])
      BY DEF EndInv, RequestShape
    <2>2. ASSUME NEW k \in 1 .. Len(requests'), NEW r \in Requests, r = requests'[k]
          PROVE  Awaited(r)'
      <3>1. CASE k \in 1 .. Len(requests)
        <4>1. Awaited(r)
          BY <1>4, <2>1, <2>2, <3>1
        <4>. QED
          BY <1>9, <4>1
      <3>2. CASE k = Len(requests) + 1
        <4>1. r = request
          BY <1>4, <2>2, <3>2
        <4>. QED
          BY <1>7, <4>1 DEF Awaited, Waits
      <3>. QED
        BY <1>4, <3>1, <3>2
    <2>3. \A k \in 1 .. Len(requests') : requests'[k] \in Requests
      BY <1>1
    <2>. QED
      BY <2>2, <2>3 DEF Awaited, Waits
  <1>14. (manager.at \in Preparing => Awaited(manager.pending))'
    BY <1>1, <1>9, <1>10 DEF EndInv, RequestShape, Awaited, Waits
  <1>15. (manager.at = "answer" => Waits(manager.pending) \/ Ended(manager.pending))'
    BY <1>1, <1>8, <1>10 DEF EndInv, RequestShape, Waits, Ended
  <1>16. RequestShape'
    BY <1>1, <1>11, <1>12, <1>13, <1>14, <1>15 DEF RequestShape
  <1>17. OwnerShape'
    BY <1>1, <1>2, OwnerType DEF EndInv, OwnerShape, Returns, Ended
  <1>. QED
    BY <1>16, <1>17 DEF EndInv

LEMMA ReceiveReplyEnds ==
    ASSUME IInv, EndInv, NEW c \in Clients, ReceiveReply(c)
    PROVE  EndInv'
  <1>1. /\ UNCHANGED <<requests, controls, late, manager>> /\ client[c].at = "waiting"
        /\ reply'[c] = NoReply /\ NoReply.id = 0 /\ reply[c] # NoReply
        /\ \A d \in Clients \ {c} : reply'[d] = reply[d]
    BY ClientTypes, Constants DEF ReceiveReply, NoReply
  <1>2. /\ \A d \in Clients \ {c} : client'[d] = client[d]
        /\ \/ client' = client /\ ~IsAnswer(c)
           \/ /\ IsAnswer(c) /\ reply[c].result = "ok"
              /\ client'[c].at = "holding" /\ client'[c].id = client[c].id
           \/ IsAnswer(c) /\ reply[c].result # "ok"
    BY ClientTypes DEF ReceiveReply, Become
  <1>3. \A r \in Requests : r.client \in Clients /\ r.id # 0
    BY Constants DEF Requests
  <1>4. \A r \in Requests : Waits(r) => Waits(r)'
    BY <1>1, <1>2, <1>3 DEF Waits, IsAnswer
  <1>5. OwnerShape'
    <2>. SUFFICES ASSUME manager.at = "owned" PROVE Returns(manager.owner)'
      BY <1>1 DEF OwnerShape, Returns, Ended
    <2>1. manager.owner.client \in Clients /\ manager.owner.id # 0 /\ Returns(manager.owner)
      BY OwnerType, Constants DEF EndInv, OwnerShape
    <2>2. CASE manager.owner.client # c
      BY <1>1, <1>2, <2>1, <2>2 DEF Returns, Ended
    <2>3. CASE manager.owner.client = c
      BY <1>1, <1>2, <2>1, <2>3 DEF Returns, Ended, IsAnswer
    <2>. QED
      BY <2>2, <2>3
  <1>. QED
    BY <1>1, <1>4, <1>5, EndFrame DEF Ended

(* Who leaves a request or a lease says so. *)
LEMMA LeavingEnds ==
    ASSUME IInv, EndInv, NEW c \in Clients, GiveUp(c) \/ ReleaseLease(c), NoCancelIsLost
    PROVE  EndInv'
  <1>1. /\ UNCHANGED <<requests, reply, late, manager>>
        /\ \A d \in Clients \ {c} : client'[d] = client[d]
        /\ controls \in Seq(Controls) /\ client[c].id \in Ids
        /\ GiveUp(c) => client[c].at = "waiting" /\ client[c].id \in late /\ reply[c] = NoReply
        /\ ReleaseLease(c) => client[c].at = "holding"
    BY ClientTypes DEF GiveUp, ReleaseLease, Become
  <1>2. \/ \E type \in {"release", "cancel"} : SendControl(c, type)
        \/ ReleaseLease(c) /\ controls' = controls /\ manager.at # "owned"
    BY DEF GiveUp, ReleaseLease, NoCancelIsLost
  <1>3. /\ Len(controls) \in Nat /\ Len(controls') \in Nat /\ Len(controls) <= Len(controls')
        /\ \A k \in 1 .. Len(controls) : controls'[k] = controls[k]
        /\ \/ /\ Len(controls') \in 1 .. Len(controls')
              /\ controls'[Len(controls')].client = c
              /\ controls'[Len(controls')].id = client[c].id
           \/ ReleaseLease(c) /\ manager.at # "owned"
    <2>1. ASSUME NEW type \in {"release", "cancel"}, SendControl(c, type) PROVE <1>3
      <3>1. PICK last : last = [type |-> type, client |-> c, id |-> client[c].id]
        OBVIOUS
      <3>2. controls' = Append(controls, last) /\ last.client = c /\ last.id = client[c].id
            /\ last \in Controls
        BY <1>1, <2>1, <3>1 DEF SendControl, Controls
      <3>. QED
        BY <1>1, <3>2
    <2>2. CASE ReleaseLease(c) /\ controls' = controls /\ manager.at # "owned"
      BY <1>1, <2>2
    <2>. QED
      BY <1>2, <2>1, <2>2
  <1>4. \A r \in Requests : r.client \in Clients /\ r.id \in Ids
    BY DEF Requests
  <1>5. \A r \in Requests : Ended(r) => Ended(r)'
    <2>. SUFFICES ASSUME NEW r \in Requests,
                         NEW k \in 1 .. Len(controls), controls[k].client = r.client,
                         controls[k].id = r.id
                  PROVE  \E j \in 1 .. Len(controls') :
                            controls'[j].client = r.client /\ controls'[j].id = r.id
      BY DEF Ended
    <2>1. k \in 1 .. Len(controls') /\ controls'[k] = controls[k]
      BY <1>3
    <2>. QED
      BY <2>1
  <1>6. ASSUME NEW r \in Requests, r.client = c, r.id = client[c].id,
               GiveUp(c) \/ manager.at = "owned"
        PROVE  Ended(r)'
    <2>1. \/ GiveUp(c) /\ ~ReleaseLease(c)
          \/ manager.at = "owned"
      BY <1>1, <1>6
    <2>. QED
      BY <1>3, <1>6, <2>1 DEF Ended
  <1>7. \A r \in Requests : Waits(r) => Waits(r)' \/ (r.id \in late' /\ Ended(r)')
    <2>. SUFFICES ASSUME NEW r \in Requests, Waits(r)
                  PROVE  Waits(r)' \/ (r.id \in late' /\ Ended(r)')
      OBVIOUS
    <2>1. CASE r.client # c
      BY <1>1, <1>4, <2>1 DEF Waits
    <2>2. CASE r.client = c
      <3>1. r.id = client[c].id /\ client[c].at = "waiting"
        BY <2>2 DEF Waits
      <3>2. GiveUp(c) /\ r.id \in late'
        BY <1>1, <3>1
      <3>. QED
        BY <1>6, <2>2, <3>1, <3>2
    <2>. QED
      BY <2>1, <2>2
  <1>8. OwnerShape'
    <2>. SUFFICES ASSUME manager.at = "owned", NEW r \in Requests, r = manager.owner PROVE Returns(r)'
      BY <1>1, OwnerType DEF OwnerShape, Returns, Ended
    <2>1. Returns(r)
      BY DEF EndInv, OwnerShape
    <2>2. CASE Ended(r)
      BY <1>5, <2>2 DEF Returns
    <2>3. CASE r.client # c
      BY <1>1, <1>4, <1>5, <2>1, <2>3 DEF Returns
    <2>4. CASE r.client = c /\ r.id = client[c].id
      BY <1>6, <2>4 DEF Returns
    <2>. QED
      BY <2>1, <2>2, <2>3, <2>4 DEF Returns
  <1>. QED
    BY <1>1, <1>5, <1>7, <1>8, EndFrame

LEMMA ClientEnds ==
    ASSUME IInv, EndInv, NEW c \in Clients, Client(c), NoCancelIsLost, IInv'
    PROVE  EndInv'
  BY QuietClientEnds, SendEnds, ReceiveReplyEnds, LeavingEnds DEF Client

(* Wi-Fi, and the manager while it prepares: nothing happens to a request. *)
LEMMA WifiEnds == ASSUME EndInv, UNCHANGED radioVars PROVE EndInv'
  BY DEF radioVars, queues, EndInv, RequestShape, OwnerShape, Awaited, Waits, Returns, Ended

LEMMA PreparingEnds ==
    ASSUME IInv, EndInv, IdleTimeout \/ AcquireWifi \/ CheckState \/ WaitConnected
    PROVE  EndInv'
  <1>0. /\ "check" \in Places /\ "wait" \in Places
        /\ "ok" \in Results /\ "failed" \in Results /\ "paused" \in Results
    BY DEF Places, Results
  <1>1. UNCHANGED <<requests, controls, reply, late, client>>
    BY DEF IdleTimeout, AcquireWifi, CheckState, WaitConnected, ManagerUnchanged, queues
  <1>2. \/ manager' = manager
        \/ /\ manager.at \in Preparing /\ manager'.at \in Preparing
           /\ manager'.pending = manager.pending
    <2>1. CASE IdleTimeout
      BY <2>1 DEF IdleTimeout
    <2>2. CASE AcquireWifi
      BY <1>0, <2>2, GotoShape, ConcludeShape DEF AcquireWifi, Preparing
    <2>3. CASE CheckState
      BY <1>0, <2>3, GotoShape, ConcludeShape DEF CheckState, Preparing
    <2>4. CASE WaitConnected
      BY <1>0, <2>4, GotoShape, ConcludeShape DEF WaitConnected, Preparing
    <2>. QED
      BY <2>1, <2>2, <2>3, <2>4
  <1>. QED
    BY <1>1, <1>2 DEF EndInv, RequestShape, OwnerShape, Awaited, Waits, Returns, Ended, Preparing

LEMMA CheckDeadlineEnds == ASSUME IInv, EndInv, CheckDeadline PROVE EndInv'
  <1>1. UNCHANGED <<requests, controls, reply, late, client>> /\ manager.at = "decide"
    BY DEF CheckDeadline, ManagerUnchanged
  <1>2. CASE Expired(manager.pending)
    <2>1. manager'.at = "idle" /\ manager'.pending \notin Requests
      BY <1>1, <1>2, FinishShape, Constants DEF CheckDeadline
    <2>. QED
      BY <1>1, <2>1 DEF EndInv, RequestShape, OwnerShape, Awaited, Waits, Preparing
  <1>3. CASE ~Expired(manager.pending)
    <2>1. manager'.at = "answer" /\ manager'.pending = manager.pending
      BY <1>1, <1>3, GotoShape DEF CheckDeadline, Places
    <2>2. Waits(manager.pending)
      BY <1>1, <1>3 DEF EndInv, RequestShape, Awaited, Expired, Preparing
    <2>. QED
      BY <1>1, <2>1, <2>2 DEF EndInv, RequestShape, OwnerShape, Awaited, Waits, Preparing
  <1>. QED
    BY <1>2, <1>3

LEMMA AnswerEnds == ASSUME IInv, EndInv, Reject \/ Grant PROVE EndInv'
  <1>1. manager.at = "answer" /\ UNCHANGED <<requests, controls, late, client>>
    BY DEF Reject, Grant, ManagerUnchanged
  <1>2. PICK result \in Results :
            Respond(manager.pending, result) /\ (result = "ok" \/ Reject)
    <2>1. manager.verdict \in Results /\ "ok" \in Results
      BY <1>1, ManagerTypes DEF Managers, IInv, ManagerShape, Results
    <2>. QED
      BY <2>1 DEF Reject, Grant
  <1>3. PICK p : p = manager.pending
    OBVIOUS
  <1>4. /\ p \in Requests /\ p.client \in Clients
        /\ reply'[p.client].id = p.id /\ reply'[p.client].result = result
        /\ \A c \in Clients \ {p.client} : reply'[c] = reply[c]
    BY <1>1, <1>2, <1>3, RespondShape
  <1>5. \A r \in Requests : r # p /\ Waits(r) => Waits(r)'
    <2>1. \A r \in Requests : r = [client |-> r.client, id |-> r.id] /\ r.client \in Clients
      BY DEF Requests
    <2>. QED
      BY <1>1, <1>4, <2>1 DEF Waits
  <1>6. \A r \in Requests : r # p /\ Awaited(r) => Awaited(r)'
    BY <1>1, <1>5 DEF Awaited
  <1>7. \A k \in 1 .. Len(requests) : requests[k] \in Requests /\ requests[k] # p
                                      /\ Awaited(requests[k])
    BY <1>3, <1>4, Types DEF IInv, EndInv, RequestShape
  <1>8. (\A k \in 1 .. Len(requests) : Awaited(requests[k]))'
    BY <1>1, <1>6, <1>7 DEF Awaited, Waits
  <1>9. /\ manager'.pending \notin Requests /\ manager'.at \in {"idle", "owned"}
        /\ manager'.at = "owned" => manager'.owner = p /\ result = "ok"
    <2>1. CASE Reject
      BY <1>1, <2>1, FinishShape, Constants DEF Reject
    <2>2. CASE Grant /\ ~Reject
      BY <1>2, <1>3, <2>2, ManagerTypes, Constants DEF Grant, Managers
    <2>. QED
      BY <2>1, <2>2
  <1>10. RequestShape'
    BY <1>1, <1>8, <1>9 DEF EndInv, RequestShape, Preparing
  <1>11. OwnerShape'
    <2>. SUFFICES ASSUME manager'.at = "owned" PROVE Returns(manager.owner)'
      BY DEF OwnerShape
    <2>1. Waits(p) \/ Ended(p)
      BY <1>1, <1>3 DEF EndInv, RequestShape
    <2>. QED
      BY <1>1, <1>4, <1>9, <2>1 DEF Returns, Waits, Ended
  <1>. QED
    BY <1>10, <1>11 DEF EndInv

LEMMA ReceiveEnds == ASSUME IInv, EndInv, Receive PROVE EndInv'
  <1>0. /\ manager.at = "idle" /\ requests # <<>> /\ requests' = Tail(requests)
        /\ UNCHANGED <<controls, reply, late, client>> /\ requests \in Seq(Requests)
        /\ "acquire" \in Places /\ Len(requests) \in Nat
    BY Types DEF Receive, Places, IInv
  <1>1. PICK r : r = Head(requests)
    OBVIOUS
  <1>2. /\ requests' \in Seq(Requests) /\ r \in Requests
        /\ 1 \in 1 .. Len(requests) /\ r = requests[1]
        /\ \A k \in 1 .. Len(requests') :
                k + 1 \in 1 .. Len(requests) /\ requests'[k] = requests[k + 1]
    BY <1>0, <1>1, Shorter
  <1>3. \/ manager' = manager
        \/ manager'.at = "acquire" /\ manager'.pending = r /\ ~Expired(r)
    BY <1>0, <1>1, ManagerTypes DEF Receive, Managers
  <1>4. \A k \in 1 .. Len(requests') : requests'[k] # r
    BY <1>2 DEF EndInv, RequestShape
  <1>5. \A j, k \in 1 .. Len(requests') : requests'[j] = requests'[k] => j = k
    <2>. SUFFICES ASSUME NEW j \in 1 .. Len(requests'), NEW k \in 1 .. Len(requests'),
                         requests'[j] = requests'[k]
                  PROVE  j = k
      OBVIOUS
    <2>1. j + 1 = k + 1
      BY <1>2 DEF EndInv, RequestShape
    <2>. QED
      BY <2>1
  <1>6. (\A k \in 1 .. Len(requests) : Awaited(requests[k]))'
    <2>1. \A k \in 1 .. Len(requests') : Awaited(requests[k + 1])
      BY <1>2 DEF EndInv, RequestShape
    <2>. QED
      BY <1>0, <1>2, <2>1 DEF Awaited, Waits
  <1>7. manager.pending \notin Requests
    BY <1>0 DEF IInv, ManagerShape
  <1>8. Awaited(r)
    BY <1>2 DEF EndInv, RequestShape
  <1>9. (manager.at \in Preparing => Awaited(manager.pending))'
    BY <1>0, <1>3, <1>8 DEF Preparing, Awaited, Waits
  <1>10. (manager.pending \in Requests => \A k \in 1 .. Len(requests) : requests[k] # manager.pending)'
    BY <1>3, <1>4, <1>7
  <1>11. manager'.at # "answer" /\ manager'.at # "owned"
    BY <1>0, <1>3
  <1>. QED
    BY <1>5, <1>6, <1>9, <1>10, <1>11 DEF EndInv, RequestShape, OwnerShape

(* The manager takes a message: the owner's ends the lease, any other is not  *)
(* the one that is awaited.                                                   *)
LEMMA OwnedEnds == ASSUME IInv, EndInv, ReceiveControl \/ HoldLimit PROVE EndInv'
  <1>1. /\ manager.at = "owned" /\ manager.pending \notin Requests
        /\ UNCHANGED <<requests, reply, late, client>>
    BY DEF ReceiveControl, HoldLimit, queues, IInv, ManagerShape
  <1>2. manager' = manager \/ (manager'.at = "idle" /\ manager'.pending = manager.pending)
    BY ManagerTypes DEF ReceiveControl, HoldLimit, EndOwner, Managers
  <1>3. RequestShape'
    BY <1>1, <1>2 DEF EndInv, RequestShape, Awaited, Waits, Preparing
  <1>4. CASE manager' = manager
    <2>1. ReceiveControl
      <3>1. HoldLimit => manager'.at = "idle"
        BY ManagerTypes DEF HoldLimit, EndOwner, Managers
      <3>. QED
        BY <1>1, <1>4, <3>1
    <2>2. /\ controls # <<>> /\ controls' = Tail(controls) /\ controls \in Seq(Controls)
          /\ ~IsOwner(Head(controls))
      <3>1. EndOwner => manager'.at = "idle"
        BY ManagerTypes DEF EndOwner, Managers
      <3>. QED
        BY <1>1, <1>4, <2>1, <3>1, Types DEF ReceiveControl, IInv
    <2>3. Returns(manager.owner)
      BY <1>1 DEF EndInv, OwnerShape
    <2>4. Ended(manager.owner) => Ended(manager.owner)'
      <3>. SUFFICES ASSUME NEW k \in 1 .. Len(controls),
                           controls[k].client = manager.owner.client,
                           controls[k].id = manager.owner.id
                    PROVE  \E j \in 1 .. Len(controls') :
                              /\ controls'[j].client = manager.owner.client
                              /\ controls'[j].id = manager.owner.id
        BY <1>4 DEF Ended
      <3>1. k # 1
        BY <2>2, Shorter DEF IsOwner
      <3>2. k - 1 \in 1 .. Len(controls') /\ controls'[k - 1] = controls[k]
        BY <2>2, <3>1
      <3>. QED
        BY <3>2
    <2>. QED
      BY <1>1, <1>3, <1>4, <2>3, <2>4 DEF EndInv, OwnerShape, Returns
  <1>5. CASE manager'.at = "idle"
    BY <1>3, <1>5 DEF EndInv, OwnerShape
  <1>. QED
    BY <1>2, <1>4, <1>5

(* No lease is left without an end: whoever stops waiting for a grant cancels *)
(* it, whoever has it gives it back, and a request nobody waits for is not    *)
(* granted unless its cancellation is on its way (radio_manager.c:386-445,    *)
(* 530-601) - as long as the control queue has room for the cancellations,    *)
(* which the code does not wait for.                                          *)
THEOREM EveryGrantEnds == Spec /\ [][NoCancelIsLost]_vars => []GrantHasAnEnd
  <1>1. IInv /\ EndInv /\ [Next]_vars /\ [NoCancelIsLost]_vars => (IInv /\ EndInv)'
    <2>. SUFFICES ASSUME IInv, EndInv, [Next]_vars, [NoCancelIsLost]_vars
                  PROVE  IInv' /\ EndInv'
      OBVIOUS
    <2>1. IInv'
      BY ClientKeeps, WifiKeeps, PreparingKeeps, CheckDeadlineKeeps, AnswerKeeps, ReceiveKeeps,
         OwnedKeeps, StutterKeeps DEF Next, Manager
    <2>2. CASE UNCHANGED vars
      BY <2>1, <2>2, WifiEnds DEF vars
    <2>3. CASE NoCancelIsLost /\ Next
      BY <2>1, <2>3, ClientEnds, WifiEnds, PreparingEnds, CheckDeadlineEnds, AnswerEnds,
         ReceiveEnds, OwnedEnds DEF Next, Manager, Wifi
    <2>. QED
      BY <2>2, <2>3
  <1>2. IInv /\ EndInv => GrantHasAnEnd
    <2>. SUFFICES ASSUME IInv, EndInv, manager.at = "owned",
                         NEW c, c = manager.owner.client, NEW i, i = manager.owner.id
                  PROVE  \/ client[c].id = i /\ client[c].at = "holding"
                         \/ /\ client[c].id = i /\ client[c].at = "waiting"
                            /\ reply[c] = [id |-> i, result |-> "ok"]
                         \/ \E k \in DOMAIN controls : controls[k].client = c /\ controls[k].id = i
      BY DEF GrantHasAnEnd
    <2>1. Returns(manager.owner) /\ c \in Clients /\ DOMAIN controls = 1 .. Len(controls)
      BY OwnerType, Types DEF EndInv, OwnerShape
    <2>2. reply[c].result = "ok" => reply[c] = [id |-> reply[c].id, result |-> "ok"]
      <3>1. reply[c] \in [id: Ids, result: Results] \/ reply[c] = NoReply
        BY <2>1, ClientTypes, Zenon DEF Replies
      <3>. QED
        BY <3>1 DEF NoReply
    <2>. QED
      BY <2>1, <2>2 DEF Returns, Ended
  <1>. QED
    BY InitHolds, EndInit, <1>1, <1>2, PTL DEF Spec
=============================================================================
