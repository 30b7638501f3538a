------------------------------ MODULE Registry ------------------------------
(***************************************************************************)
(* store.Registry: the etcd clusters that are configured, in memory and in *)
(* CLUSTERS_FILE, and one etcd client per cluster, created when a request  *)
(* first needs it.                                                         *)
(*                                                                         *)
(* Changes run under the write lock, write the whole file and put the      *)
(* memory back when writing fails; the last step of writing, Chmod, comes  *)
(* after the rename.  UpdateCluster reads the settings it starts from in   *)
(* an earlier critical section, and ClusterKV creates a client between     *)
(* two: what it read is recognised as stale by its UpdatedAt.              *)
(*                                                                         *)
(* Settings are a name (up to case), a password and the two times; the     *)
(* other fields travel like the name.  A time is the number of a reading   *)
(* of the clock: no two are equal.                                         *)
(***************************************************************************)
EXTENDS Naturals

CONSTANTS
    Ids,             \* what newClusterID can return
    Names,           \* cluster names, up to case
    Passwords,       \* etcd passwords, one of them empty
    Clients,         \* etcd clients
    Callers,         \* requests that call ClusterKV
    Admins,          \* requests that change clusters
    RegistryFaults,  \* whether writing the file may fail
    MaxTime,         \* bound: readings of the clock
    Nil

ASSUME RegistryAssumption ==
    /\ RegistryFaults \in BOOLEAN
    /\ MaxTime \in Nat
    /\ Nil \notin Passwords \cup Clients

VARIABLES
    clusters,     \* r.clusters: settings and client of each cluster
    clusterFile,  \* the settings in the file
    used,         \* ids newClusterID has returned so far
    clock,        \* readings of the clock so far
    open,         \* clients that are not closed
    origin,       \* the settings each client was created from
    calls,        \* where each ClusterKV call stands, and what it returned
    updates,      \* what each UpdateCluster call is about to store
    closing       \* Close has run: main is about to end

clientVars == <<open, origin, calls>>
regVars == <<clusters, clusterFile, used, clock, clientVars, updates, closing>>

Config ==
    [name : Names, password : Passwords, created : Nat, updated : Nat]

Managed == [config : Config, client : Clients \cup {Nil}]

Idle == [stage |-> "idle"]

Call ==
    {Idle} \cup [stage : {"find"}, id : Ids]
           \cup [stage : {"attach", "returned"}, id : Ids, cluster : Config,
                 client : Clients]

Update == [id : Ids, config : Config]

ASSUME RegistryNil == Nil \notin Managed \cup Config \cup Update

RegTypeOK ==
    /\ clusters \in [Ids -> Managed \cup {Nil}]
    /\ clusterFile \in [Ids -> Config \cup {Nil}]
    /\ used \in SUBSET Ids
    /\ clock \in Nat
    /\ open \in SUBSET Clients
    /\ origin \in [Clients -> Config \cup {Nil}]
    /\ calls \in [Callers -> Call]
    /\ updates \in [Admins -> Update \cup {Nil}]
    /\ closing \in BOOLEAN

RegInit ==
    /\ clusters = [i \in Ids |-> Nil]
    /\ clusterFile = [i \in Ids |-> Nil]
    /\ used = {}
    /\ clock = 0
    /\ open = {}
    /\ origin = [c \in Clients |-> Nil]
    /\ calls = [k \in Callers |-> Idle]
    /\ updates = [a \in Admins |-> Nil]
    /\ closing = FALSE

-----------------------------------------------------------------------------
Present(i) == clusters[i] # Nil

(* The clients the map holds.                                               *)
Stored == {clusters[i].client : i \in {j \in Ids : Present(j)}} \ {Nil}

(* The clients ClusterKV calls have created and not yet stored.             *)
Attaching ==
    {calls[k].client : k \in {j \in Callers : calls[j].stage = "attach"}}

(* The clients requests work with.                                          *)
InUse ==
    {calls[k].client : k \in {j \in Callers : calls[j].stage = "returned"}}

NameExistsOnUpdate(name, except) ==  \* mutant: not asked by CreateCluster
    \E i \in Ids \ {except} :
        except # Nil /\ Present(i) /\ clusters[i].config.name = name

(* nameExistsLocked.                                                        *)
NameExists(name, except) ==
    \E i \in Ids \ {except} : Present(i) /\ clusters[i].config.name = name

Configs(map) ==
    [i \in Ids |-> IF map[i] = Nil THEN Nil ELSE map[i].config]

(* saveLocked of the changed map: the file is replaced, or the call fails   *)
(* before or after that and the map is put back.                            *)
Saved(next) == clusterFile' = Configs(next) /\ clusters' = next

SaveFails(next) ==
    /\ RegistryFaults
    /\ clusterFile' \in {clusterFile, Configs(next)}
    /\ UNCHANGED clusters

CloseClient(client) == open' = open \ {client}

NewClusterIDReused == {i \in Ids : ~Present(i)}  \* mutant: ids are reused

(* newClusterID: 16 random bytes.                                           *)
NewClusterID == Ids \ used

(* time.Now                                                                 *)
Now == clock + 1

Tick == clock < MaxTime /\ clock' = Now

-----------------------------------------------------------------------------
CreateCluster(id, name, password) ==
    /\ id \in NewClusterID
    /\ ~NameExists(name, Nil)
    /\ LET config == [name |-> name, password |-> password,
                      created |-> Now, updated |-> Now]
           next == [clusters EXCEPT ![id] = [config |-> config, client |-> Nil]]
       IN  Saved(next) \/ SaveFails(next)
    /\ used' = used \cup {id}
    /\ Tick
    /\ UNCHANGED <<clientVars, updates, closing>>

PasswordAsGiven(base, given) == given  \* mutant: nil is not recognised

(* clusterFromInput: an input without a password, given = Nil, keeps that   *)
(* of the base.                                                             *)
PasswordFrom(base, given) == IF given = Nil THEN base.password ELSE given

(* UpdateCluster, first half: clusterFromInput on a copy of the settings.   *)
UpdateBegin(a, id, name, given) ==
    /\ updates[a] = Nil
    /\ Present(id)
    /\ LET base == clusters[id].config IN
       updates' = [updates EXCEPT ![a] =
          [id |-> id,
           config |-> [base EXCEPT
                !.name = name,
                !.password = PasswordFrom(base, given),
                !.updated = Now]]]
    /\ Tick
    /\ UNCHANGED <<clusters, clusterFile, used, clientVars, closing>>

UpdateStored(a) ==
    [clusters EXCEPT ![updates[a].id] =
        [config |-> updates[a].config, client |-> Nil]]

UpdateAllowed(a) ==
    /\ Present(updates[a].id)
    /\ ~NameExists(updates[a].config.name, updates[a].id)

UpdateClosesNothing(a) ==  \* mutant: the replaced client stays open
    /\ updates[a] # Nil /\ UpdateAllowed(a)
    /\ Saved(UpdateStored(a))
    /\ updates' = [updates EXCEPT ![a] = Nil]
    /\ UNCHANGED <<used, clock, clientVars, closing>>

(* UpdateCluster, second half: the settings replace whatever is there now,  *)
(* without a client; the client there was is closed.                        *)
UpdateStore(a) ==
    /\ updates[a] # Nil /\ UpdateAllowed(a)
    /\ Saved(UpdateStored(a))
    /\ CloseClient(clusters[updates[a].id].client)
    /\ updates' = [updates EXCEPT ![a] = Nil]
    /\ UNCHANGED <<used, clock, origin, calls, closing>>

UpdateSaveFails(a) ==
    /\ updates[a] # Nil /\ UpdateAllowed(a)
    /\ SaveFails(UpdateStored(a))
    /\ updates' = [updates EXCEPT ![a] = Nil]
    /\ UNCHANGED <<used, clock, clientVars, closing>>

(* The cluster was deleted, or its new name taken, in between.              *)
UpdateRefused(a) ==
    /\ updates[a] # Nil /\ ~UpdateAllowed(a)
    /\ updates' = [updates EXCEPT ![a] = Nil]
    /\ UNCHANGED <<clusters, clusterFile, used, clock, clientVars, closing>>

DeleteCluster(id) ==
    /\ Present(id)
    /\ Saved([clusters EXCEPT ![id] = Nil])
    /\ CloseClient(clusters[id].client)
    /\ UNCHANGED <<used, clock, origin, calls, updates, closing>>

DeleteSaveFails(id) ==
    /\ Present(id)
    /\ SaveFails([clusters EXCEPT ![id] = Nil])
    /\ UNCHANGED <<used, clock, clientVars, updates, closing>>

-----------------------------------------------------------------------------
Return(k, id, client) ==
    calls' = [calls EXCEPT ![k] =
        [stage |-> "returned", id |-> id, cluster |-> clusters[id].config,
         client |-> client]]

(* ClusterKV starts, or starts again after it found its settings stale.     *)
MayFind(k, id) == calls[k] \in {Idle, [stage |-> "find", id |-> id]}

(* The cluster has a client.                                                *)
FindClient(k, id) ==
    /\ MayFind(k, id)
    /\ Present(id) /\ clusters[id].client # Nil
    /\ Return(k, id, clusters[id].client)
    /\ UNCHANGED <<clusters, clusterFile, used, clock, open, origin, updates,
                   closing>>

(* It has none: the settings are copied, the lock is released and NewEtcd   *)
(* creates one.                                                             *)
CreateClient(k, id, client) ==
    /\ MayFind(k, id)
    /\ Present(id) /\ clusters[id].client = Nil
    /\ client \notin open \cup Stored \cup InUse
    /\ open' = open \cup {client}
    /\ origin' = [origin EXCEPT ![client] = clusters[id].config]
    /\ calls' = [calls EXCEPT ![k] =
          [stage |-> "attach", id |-> id, cluster |-> clusters[id].config,
           client |-> client]]
    /\ UNCHANGED <<clusters, clusterFile, used, clock, updates, closing>>

(* Starting again, the cluster is gone, or NewEtcd fails.                   *)
FindFails(k) ==
    /\ calls[k].stage = "find"
    /\ calls' = [calls EXCEPT ![k] = Idle]
    /\ UNCHANGED <<clusters, clusterFile, used, clock, open, origin, updates,
                   closing>>

UnchangedByName(k) ==  \* mutant: the name is compared, not UpdatedAt
    LET id == calls[k].id IN
    Present(id) /\ clusters[id].config.name = calls[k].cluster.name

(* The settings are those the client was created from.                      *)
Unchanged(k) ==
    LET id == calls[k].id IN
    Present(id) /\ clusters[id].config.updated = calls[k].cluster.updated

(* ClusterKV, under the lock again: the cluster was deleted, or changed.    *)
AttachGone(k) ==
    /\ calls[k].stage = "attach"
    /\ ~Present(calls[k].id)
    /\ CloseClient(calls[k].client)
    /\ calls' = [calls EXCEPT ![k] = Idle]
    /\ UNCHANGED <<clusters, clusterFile, used, clock, origin, updates, closing>>

AttachStale(k) ==
    /\ calls[k].stage = "attach"
    /\ Present(calls[k].id) /\ ~Unchanged(k)
    /\ CloseClient(calls[k].client)
    /\ calls' = [calls EXCEPT ![k] = [stage |-> "find", id |-> calls[k].id]]
    /\ UNCHANGED <<clusters, clusterFile, used, clock, origin, updates, closing>>

AttachExistingOwn(k) ==  \* mutant: the closed client is returned
    /\ calls[k].stage = "attach"
    /\ Unchanged(k) /\ clusters[calls[k].id].client # Nil
    /\ CloseClient(calls[k].client)
    /\ Return(k, calls[k].id, calls[k].client)
    /\ UNCHANGED <<clusters, clusterFile, used, clock, origin, updates, closing>>

(* Another call has stored a client meanwhile: that one is used.            *)
AttachExisting(k) ==
    /\ calls[k].stage = "attach"
    /\ Unchanged(k) /\ clusters[calls[k].id].client # Nil
    /\ CloseClient(calls[k].client)
    /\ Return(k, calls[k].id, clusters[calls[k].id].client)
    /\ UNCHANGED <<clusters, clusterFile, used, clock, origin, updates, closing>>

AttachStore(k) ==
    /\ calls[k].stage = "attach"
    /\ Unchanged(k) /\ clusters[calls[k].id].client = Nil
    /\ clusters' = [clusters EXCEPT ![calls[k].id].client = calls[k].client]
    /\ Return(k, calls[k].id, calls[k].client)
    /\ UNCHANGED <<clusterFile, used, clock, open, origin, updates, closing>>

(* The request that called ClusterKV ends.                                  *)
Finish(k) ==
    /\ calls[k].stage = "returned"
    /\ calls' = [calls EXCEPT ![k] = Idle]
    /\ UNCHANGED <<clusters, clusterFile, used, clock, open, origin, updates,
                   closing>>

-----------------------------------------------------------------------------
(* Close, deferred in main: it runs when Serve returns, while requests may  *)
(* still be under way.  The closed clients stay in the map.                 *)
Close ==
    /\ ~closing
    /\ closing' = TRUE
    /\ open' = open \ Stored
    /\ UNCHANGED <<clusters, clusterFile, used, clock, origin, calls, updates>>

(* The process ends, and NewRegistry loads the file.                        *)
Restart ==
    /\ clusters' = [i \in Ids |->
          IF clusterFile[i] = Nil THEN Nil
          ELSE [config |-> clusterFile[i], client |-> Nil]]
    /\ open' = {}
    /\ origin' = [c \in Clients |-> Nil]
    /\ calls' = [k \in Callers |-> Idle]
    /\ updates' = [a \in Admins |-> Nil]
    /\ closing' = FALSE
    /\ UNCHANGED <<clusterFile, used, clock>>

-----------------------------------------------------------------------------
KVNext ==
    \E k \in Callers :
        \/ \E id \in Ids :
              \/ FindClient(k, id)
              \/ \E client \in Clients : CreateClient(k, id, client)
        \/ FindFails(k) \/ AttachGone(k) \/ AttachStale(k)
        \/ AttachExisting(k) \/ AttachStore(k) \/ Finish(k)

EditNext ==
    \/ \E id \in Ids, name \in Names, password \in Passwords :
          CreateCluster(id, name, password)
    \/ \E a \in Admins :
          \/ \E id \in Ids, name \in Names, given \in Passwords \cup {Nil} :
                UpdateBegin(a, id, name, given)
          \/ UpdateStore(a) \/ UpdateSaveFails(a) \/ UpdateRefused(a)

RegNext ==
    \/ KVNext \/ EditNext
    \/ \E id \in Ids : DeleteCluster(id) \/ DeleteSaveFails(id)
    \/ Close \/ Restart

RegSpec == RegInit /\ [][RegNext]_regVars

-----------------------------------------------------------------------------
(* Every client in the map was created from the settings next to it and,    *)
(* until main ends, is open: although clients are created without the lock  *)
(* and settings are changed or deleted meanwhile.                           *)
StoredClientIsCurrent ==
    \A i \in Ids : Present(i) /\ clusters[i].client # Nil =>
        /\ origin[clusters[i].client] = clusters[i].config
        /\ closing \/ clusters[i].client \in open

(* No client is forgotten open: until main ends, an open client is in the   *)
(* map, under one cluster, or still in the hands of the call that created   *)
(* it.                                                                      *)
NoClientLeaks ==
    /\ ~closing => open = Stored \cup Attaching
    /\ \A i, j \in Ids :
          Present(i) /\ Present(j) /\ clusters[i].client # Nil
            /\ clusters[i].client = clusters[j].client => i = j

(* A request works with a client of the settings it was given, and loses it *)
(* only because the cluster was changed or deleted or the process ends.     *)
RequestKeepsClient ==
    \A k \in Callers : calls[k].stage = "returned" =>
        /\ origin[calls[k].client] = calls[k].cluster
        /\ \/ calls[k].client \in open
           \/ closing
           \/ ~Present(calls[k].id)
           \/ clusters[calls[k].id].config # calls[k].cluster

(* Names are unique, in memory and in the file a restart would read: also   *)
(* when updates overlap and when a failed write has left its content.       *)
NamesAreUnique ==
    \A map \in {Configs(clusters), clusterFile} : \A i, j \in Ids :
        map[i] # Nil /\ map[j] # Nil /\ map[i].name = map[j].name => i = j

-----------------------------------------------------------------------------
(* Why clients do not get mixed up, for every number of callers and admins. *)

HasClient(k) == calls[k].stage \in {"attach", "returned"}

(* A client that is not yet stored belongs to one call and to nobody else;  *)
(* a returned one is stored under the cluster of the call, if at all.       *)
ClientsHaveOwners ==
    /\ \A k \in Callers : calls[k].stage = "attach" =>
          /\ calls[k].client \in open
          /\ calls[k].client \notin Stored \cup InUse
          /\ origin[calls[k].client] = calls[k].cluster
          /\ \A j \in Callers :
                calls[j].stage = "attach" /\ calls[j].client = calls[k].client
                  => j = k
    /\ \A k \in Callers, i \in Ids :
          /\ calls[k].stage = "returned" /\ Present(i)
          /\ clusters[i].client = calls[k].client
          => i = calls[k].id

(* UpdatedAt tells settings apart: an update that is not yet stored has a   *)
(* time no settings have that are stored, in use or about to be stored.     *)
TimesTellApart ==
    /\ \A i \in Ids : Present(i) => clusters[i].config.updated <= clock
    /\ \A i \in Ids : clusterFile[i] # Nil => clusterFile[i].updated <= clock
    /\ \A k \in Callers : HasClient(k) => calls[k].cluster.updated <= clock
    /\ \A a \in Admins : updates[a] # Nil =>
          LET time == updates[a].config.updated IN
          /\ time <= clock
          /\ \A i \in Ids : Present(i) => clusters[i].config.updated # time
          /\ \A k \in Callers : HasClient(k) => calls[k].cluster.updated # time
          /\ \A b \in Admins \ {a} :
                updates[b] # Nil => updates[b].config.updated # time
    /\ \A k \in Callers : calls[k].stage = "attach" /\ Unchanged(k) =>
          clusters[calls[k].id].config = calls[k].cluster

ClientInv ==
    /\ StoredClientIsCurrent
    /\ NoClientLeaks
    /\ RequestKeepsClient
    /\ ClientsHaveOwners
    /\ TimesTellApart
=============================================================================
