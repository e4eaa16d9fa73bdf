--------------------------- MODULE WifiProfileStore ---------------------------
(***************************************************************************)
(* The store of Wi-Fi profiles, components/services/wifi_profile_store.    *)
(*                                                                         *)
(* One blob in flash holds every profile.  An operation reads the blob,    *)
(* changes its copy, and writes it back whole, without a lock: the manager *)
(* task records successes, the app_shell task prefers and removes.         *)
(* NVS itself reads and writes a blob at once.                             *)
(***************************************************************************)
EXTENDS SavedProfiles, FiniteSets

CONSTANTS
    Networks,       \* the SSIDs
    NoNetwork,      \* the SSID of an empty entry
    MaxProfiles,    \* WIFI_PROFILE_STORE_MAX_ENTRIES
    MaxSuccess      \* bound: success_seq (32 bits: it never wraps in the life of a device)

ASSUME StoreAssumption ==
    /\ NoNetwork \notin Networks
    /\ MaxProfiles \in Nat \ {0} /\ MaxSuccess \in Nat

VARIABLES
    nvs,          \* the blob in NVS; a missing or invalid one reads as an empty one
    writer,         \* each task: the operation it is in, and its copy of the blob
    removed         \* the networks whose removal was the last thing confirmed of them

storeVars == <<nvs, writer, removed>>

-----------------------------------------------------------------------------
Slots   == 1 .. MaxProfiles
Seqs    == 0 .. MaxSuccess
Entries == [ssid: Networks \cup {NoNetwork}, seq: Seqs]
Blobs   == [entries: [Slots -> Entries], success: Seqs]

NoEntry   == [ssid |-> NoNetwork, seq |-> 0]
EmptyBlob == [entries |-> [i \in Slots |-> NoEntry], success |-> 0]

Ops == [manager |-> {"record"}, screen |-> {"prefer", "remove"}]
Writers == DOMAIN Ops

SavedSsids(blob) == {blob.entries[i].ssid : i \in Slots} \ {NoNetwork}
Idle == [op |-> "none", ssid |-> NoNetwork, copy |-> EmptyBlob]

StoreInit ==
    /\ nvs = EmptyBlob
    /\ writer = [w \in Writers |-> Idle]
    /\ removed = {}

-----------------------------------------------------------------------------
(* Where the operations find their entry. *)
SlotsOf(blob, ssid) == {i \in Slots : blob.entries[i].ssid = ssid}
First(slots)        == CHOOSE i \in slots : \A j \in slots : i <= j

\* Mistaken: a full store gives up its first entry.
FirstSlot(blob) == 1

Oldest(blob) ==
    CHOOSE i \in Slots : \A j \in Slots : \/ blob.entries[i].seq < blob.entries[j].seq
                                          \/ blob.entries[i].seq = blob.entries[j].seq /\ i <= j

\* Mistaken: an empty entry in front of the network's own is taken.
TargetFirstFit(blob, ssid) ==
    LET fit == SlotsOf(blob, ssid) \cup SlotsOf(blob, NoNetwork)
    IN  IF fit # {} THEN First(fit) ELSE Oldest(blob)

(* The network's own entry, else an empty one, else the oldest. *)
Target(blob, ssid) ==
    IF SlotsOf(blob, ssid) # {} THEN First(SlotsOf(blob, ssid))
    ELSE IF SlotsOf(blob, NoNetwork) # {} THEN First(SlotsOf(blob, NoNetwork))
    ELSE Oldest(blob)

(* The entry becomes the newest success. *)
Numbered(blob, i, ssid) ==
    [ entries |-> [blob.entries EXCEPT ![i] = [ssid |-> ssid, seq |-> blob.success + 1]],
      success |-> blob.success + 1 ]

(* What an operation makes of its copy.  To prefer or remove a network, it must  *)
(* be there: else the operation ends without a write.                          *)
Finds(op, blob, ssid) == op = "record" \/ ssid \in SavedSsids(blob)

Changed(op, blob, ssid) ==
    CASE op = "record" -> Numbered(blob, Target(blob, ssid), ssid)
      [] op = "prefer" -> Numbered(blob, First(SlotsOf(blob, ssid)), ssid)
      [] op = "remove" -> [blob EXCEPT !.entries[First(SlotsOf(blob, ssid))] = NoEntry]

-----------------------------------------------------------------------------
(* wifi_profile_store_prepare_blob_for_write(): the operation begins. *)
Read(w, op, ssid) ==
    /\ writer[w] = Idle
    /\ op = "remove" \/ nvs.success < MaxSuccess
    /\ writer' = [writer EXCEPT ![w] = [op |-> op, ssid |-> ssid, copy |-> nvs]]
    /\ removed' = IF op = "record" THEN removed \ {ssid} ELSE removed
    /\ UNCHANGED nvs

(* wifi_profile_store_write_blob() writes, or fails; the caller is told which. *)
Write(w) ==
    LET op   == writer[w].op
        ssid == writer[w].ssid
    IN  /\ op # "none"
        /\ writer' = [writer EXCEPT ![w] = Idle]
        /\ \/ /\ Finds(op, writer[w].copy, ssid)
              /\ nvs' = Changed(op, writer[w].copy, ssid)
              /\ removed' = IF op = "remove" THEN removed \cup {ssid} ELSE removed
           \/ UNCHANGED <<nvs, removed>>

StoreNext ==
    \E w \in Writers :
        \/ \E op \in Ops[w], ssid \in Networks : Read(w, op, ssid)
        \/ Write(w)

StoreSpec == StoreInit /\ [][StoreNext]_storeVars

-----------------------------------------------------------------------------
StoreTypeOK ==
    /\ nvs \in Blobs
    /\ writer \in [Writers -> [op: {"none"} \cup UNION {Ops[w] : w \in Writers},
                               ssid: Networks \cup {NoNetwork}, copy: Blobs]]
    /\ removed \subseteq Networks

(* However the operations overlap, the blob in flash is one that a single        *)
(* operation made: no network is in it twice, and their successes are ordered,  *)
(* so that the newest and the oldest are what they say.                        *)
Consistent(blob) ==
    \A i, j \in Slots :
        IF blob.entries[i].ssid = NoNetwork THEN blob.entries[i].seq = 0
        ELSE /\ blob.entries[i].seq \in 1 .. blob.success
             /\ i # j => /\ blob.entries[i].ssid # blob.entries[j].ssid
                         /\ blob.entries[i].seq # blob.entries[j].seq

BlobConsistent == Consistent(nvs)

(* The order of the profiles, as WifiConnection has it. *)
Place(blob, net) ==
    IF net \notin SavedSsids(blob) THEN 0
    ELSE LET seq == blob.entries[First(SlotsOf(blob, net))].seq
         IN  Cardinality({i \in Slots : blob.entries[i].seq >= seq})

Order(blob) == [n \in Networks |-> Place(blob, n)]

(* An operation whose copy is still what flash holds when it writes does to the  *)
(* order of the profiles what WifiConnection is built on: the newest comes      *)
(* first, and the oldest makes room.                                           *)
WritesCurrentCopy ==
    \A w \in Writers : writer[w] # Idle /\ writer'[w] = Idle => writer[w].copy = nvs

ImplementsSavedProfiles ==
    [][ WritesCurrentCopy => SavedNext(Order(nvs), Order(nvs'), MaxProfiles) ]_storeVars

-----------------------------------------------------------------------------
(* What the documents say and the code does not do: as an invariant of          *)
(* MCWifiProfileStore.cfg this is violated.                                    *)

(* docs/cyd_system_apps.md:156: the user can delete a saved network.  A success  *)
(* of another network, recorded at the same time from an older copy of the      *)
(* blob, brings it back after the deletion was confirmed.                      *)
RemovedStaysRemoved == removed \cap SavedSsids(nvs) = {}
=============================================================================
