------------------------ MODULE ClusterAdminProofs ------------------------
(***************************************************************************)
(* Theorems about the registry and the handlers that delete and grant      *)
(* clusters, for any clusters, callers, administrators and operators: the  *)
(* instance TLC checks has one administrator, so no two updates overlap    *)
(* there.                                                                  *)
(*                                                                         *)
(* A client that ClusterKV has created belongs to one call until it is in  *)
(* the map (ClientsHaveOwners), and no update can bring back a time that a *)
(* call compares with (TimesTellApart).                                    *)
(***************************************************************************)
EXTENDS ClusterAdmin, TLAPS

USE RegistryAssumption, RegistryNil, GrantAssumption, GrantNil

-----------------------------------------------------------------------------
(* What the parts of the state are made of.                                 *)

LEMMA CallTyped ==
    ASSUME RegTypeOK, NEW k \in Callers
    PROVE  /\ calls[k].stage \in {"idle", "find", "attach", "returned"}
           /\ calls[k].stage = "find" => calls[k].id \in Ids
           /\ HasClient(k) => /\ calls[k].id \in Ids
                              /\ calls[k].cluster \in Config
                              /\ calls[k].client \in Clients
<1>1. calls[k] \in Call
  BY DEF RegTypeOK
<1>2. QED
  BY <1>1 DEF Call, Idle, HasClient

LEMMA ClusterTyped ==
    ASSUME RegTypeOK, NEW i \in Ids, Present(i)
    PROVE  /\ clusters[i] \in Managed
           /\ clusters[i].config \in Config
           /\ clusters[i].client \in Clients \cup {Nil}
<1>1. clusters[i] \in Managed
  BY DEF RegTypeOK, Present
<1>2. QED
  BY <1>1 DEF Managed

LEMMA UpdateTyped ==
    ASSUME RegTypeOK, NEW a \in Admins, updates[a] # Nil
    PROVE  updates[a].id \in Ids /\ updates[a].config \in Config
<1>1. updates[a] \in Update
  BY DEF RegTypeOK
<1>2. QED
  BY <1>1 DEF Update

(* The settings of a map, and what saving one does to the types.            *)
LEMMA ConfigsTyped ==
    ASSUME NEW next \in [Ids -> Managed \cup {Nil}]
    PROVE  /\ Configs(next) \in [Ids -> Config \cup {Nil}]
           /\ \A i \in Ids : /\ next[i] = Nil => Configs(next)[i] = Nil
                             /\ next[i] # Nil =>
                                  /\ Configs(next)[i] = next[i].config
                                  /\ Configs(next)[i] # Nil
<1>1. \A i \in Ids : next[i] # Nil => next[i].config \in Config
  BY DEF Managed
<1>2. QED
  BY <1>1 DEF Configs

LEMMA SavedTyped ==
    ASSUME RegTypeOK, NEW next \in [Ids -> Managed \cup {Nil}],
           Saved(next) \/ SaveFails(next)
    PROVE  /\ clusters' \in [Ids -> Managed \cup {Nil}]
           /\ clusterFile' \in [Ids -> Config \cup {Nil}]
BY ConfigsTyped DEF RegTypeOK, Saved, SaveFails

(* The maps the changes save.                                               *)
LEMMA UpdateStoredTyped ==
    ASSUME RegTypeOK, NEW a \in Admins, updates[a] # Nil
    PROVE  UpdateStored(a) \in [Ids -> Managed \cup {Nil}]
BY UpdateTyped DEF UpdateStored, RegTypeOK, Managed

LEMMA DeletedTyped ==
    ASSUME RegTypeOK, NEW id \in Ids
    PROVE  [clusters EXCEPT ![id] = Nil] \in [Ids -> Managed \cup {Nil}]
BY DEF RegTypeOK

-----------------------------------------------------------------------------
(* Type correctness.                                                        *)

LEMMA CallTypes ==
    ASSUME NEW id \in Ids, NEW cluster \in Config, NEW client \in Clients
    PROVE  /\ Idle \in Call
           /\ [stage |-> "find", id |-> id] \in Call
           /\ [stage |-> "attach", id |-> id, cluster |-> cluster,
               client |-> client] \in Call
           /\ [stage |-> "returned", id |-> id, cluster |-> cluster,
               client |-> client] \in Call
BY DEF Call

LEMMA KVTypes ==
    ASSUME RegTypeOK, KVNext
    PROVE  RegTypeOK'
<1>1. PICK k \in Callers :
          \/ \E id \in Ids :
                \/ FindClient(k, id)
                \/ \E client \in Clients : CreateClient(k, id, client)
          \/ FindFails(k) \/ AttachGone(k) \/ AttachStale(k)
          \/ AttachExisting(k) \/ AttachStore(k) \/ Finish(k)
  BY DEF KVNext
<1>2. ASSUME NEW id \in Ids, FindClient(k, id)
      PROVE  RegTypeOK'
  <2>1. clusters[id].config \in Config /\ clusters[id].client \in Clients
    BY <1>2, ClusterTyped DEF FindClient
  <2>2. calls' \in [Callers -> Call]
    BY <1>2, <2>1, CallTypes DEF FindClient, Return, RegTypeOK
  <2>3. QED
    BY <1>2, <2>2 DEF FindClient, RegTypeOK
<1>3. ASSUME NEW id \in Ids, NEW client \in Clients, CreateClient(k, id, client)
      PROVE  RegTypeOK'
  <2>1. clusters[id].config \in Config
    BY <1>3, ClusterTyped DEF CreateClient
  <2>2. calls' \in [Callers -> Call]
    BY <1>3, <2>1, CallTypes DEF CreateClient, RegTypeOK
  <2>3. open' \in SUBSET Clients /\ origin' \in [Clients -> Config \cup {Nil}]
    BY <1>3, <2>1 DEF CreateClient, RegTypeOK
  <2>4. QED
    BY <1>3, <2>2, <2>3 DEF CreateClient, RegTypeOK
<1>4. CASE FindFails(k) \/ Finish(k)
  <2>1. calls' \in [Callers -> Call]
    BY <1>4 DEF FindFails, Finish, RegTypeOK, Call
  <2>2. QED
    BY <1>4, <2>1 DEF FindFails, Finish, RegTypeOK
<1>5. CASE AttachGone(k) \/ AttachStale(k)
  <2>1. calls[k].id \in Ids
    BY <1>5, CallTyped DEF AttachGone, AttachStale, HasClient
  <2>2. calls' \in [Callers -> Call]
    BY <1>5, <2>1 DEF AttachGone, AttachStale, RegTypeOK, Call
  <2>3. QED
    BY <1>5, <2>2 DEF AttachGone, AttachStale, CloseClient, RegTypeOK
<1>6. CASE AttachExisting(k)
  <2>1. calls[k].id \in Ids
    BY <1>6, CallTyped DEF AttachExisting, HasClient
  <2>2. /\ clusters[calls[k].id].config \in Config
        /\ clusters[calls[k].id].client \in Clients
    BY <1>6, <2>1, ClusterTyped DEF AttachExisting, Unchanged
  <2>3. calls' \in [Callers -> Call]
    BY <1>6, <2>1, <2>2, CallTypes DEF AttachExisting, Return, RegTypeOK
  <2>4. QED
    BY <1>6, <2>3 DEF AttachExisting, CloseClient, RegTypeOK
<1>7. CASE AttachStore(k)
  <2>1. calls[k].id \in Ids /\ calls[k].client \in Clients
    BY <1>7, CallTyped DEF AttachStore, HasClient
  <2>2. /\ clusters[calls[k].id].config \in Config
        /\ clusters[calls[k].id] \in Managed
    BY <1>7, <2>1, ClusterTyped DEF AttachStore, Unchanged
  <2>3. calls' \in [Callers -> Call]
    BY <1>7, <2>1, <2>2, CallTypes DEF AttachStore, Return, RegTypeOK
  <2>4. clusters' \in [Ids -> Managed \cup {Nil}]
    BY <1>7, <2>1, <2>2 DEF AttachStore, RegTypeOK, Managed
  <2>5. QED
    BY <1>7, <2>3, <2>4 DEF AttachStore, RegTypeOK
<1>8. QED
  BY <1>1, <1>2, <1>3, <1>4, <1>5, <1>6, <1>7

LEMMA EditTypes ==
    ASSUME RegTypeOK, EditNext
    PROVE  RegTypeOK'
<1>1. ASSUME NEW id \in Ids, NEW name \in Names, NEW password \in Passwords,
             CreateCluster(id, name, password)
      PROVE  RegTypeOK'
  <2> DEFINE config == [name |-> name, password |-> password,
                        created |-> Now, updated |-> Now]
             next == [clusters EXCEPT ![id] = [config |-> config, client |-> Nil]]
  <2>1. Now \in Nat
    BY DEF Now, RegTypeOK
  <2>2. [config |-> config, client |-> Nil] \in Managed
    BY <2>1 DEF Managed, Config
  <2>3. next \in [Ids -> Managed \cup {Nil}]
    BY <2>2 DEF RegTypeOK
  <2>4. Saved(next) \/ SaveFails(next)
    BY <1>1 DEF CreateCluster
  <2>5. /\ clusters' \in [Ids -> Managed \cup {Nil}]
        /\ clusterFile' \in [Ids -> Config \cup {Nil}]
    BY <2>3, <2>4, SavedTyped
  <2>6. QED
    BY <1>1, <2>1, <2>5 DEF CreateCluster, RegTypeOK, Tick, clientVars
<1>2. ASSUME NEW a \in Admins, NEW id \in Ids, NEW name \in Names,
             NEW given \in Passwords \cup {Nil}, UpdateBegin(a, id, name, given)
      PROVE  RegTypeOK'
  <2>1. Now \in Nat /\ clusters[id].config \in Config
    BY <1>2, ClusterTyped DEF Now, RegTypeOK, UpdateBegin
  <2>2. PasswordFrom(clusters[id].config, given) \in Passwords
    BY <2>1 DEF PasswordFrom, Config
  <2>3. updates'[a] \in Update /\ updates' \in [Admins -> Update \cup {Nil}]
    BY <1>2, <2>1, <2>2 DEF UpdateBegin, RegTypeOK, Update, Config
  <2>4. QED
    BY <1>2, <2>1, <2>3 DEF UpdateBegin, RegTypeOK, Tick, clientVars
<1>3. ASSUME NEW a \in Admins,
             UpdateStore(a) \/ UpdateSaveFails(a) \/ UpdateRefused(a)
      PROVE  RegTypeOK'
  <2>1. updates[a] # Nil
    BY <1>3 DEF UpdateStore, UpdateSaveFails, UpdateRefused
  <2>2. /\ clusters' \in [Ids -> Managed \cup {Nil}]
        /\ clusterFile' \in [Ids -> Config \cup {Nil}]
    BY <1>3, <2>1, UpdateStoredTyped, SavedTyped
       DEF UpdateStore, UpdateSaveFails, UpdateRefused, RegTypeOK
  <2>3. QED
    BY <1>3, <2>2 DEF UpdateStore, UpdateSaveFails, UpdateRefused, RegTypeOK,
                      CloseClient, clientVars
<1>4. QED
  BY <1>1, <1>2, <1>3 DEF EditNext

LEMMA DeleteTypes ==
    ASSUME RegTypeOK, NEW id \in Ids, DeleteCluster(id) \/ DeleteSaveFails(id)
    PROVE  RegTypeOK'
<1>1. /\ clusters' \in [Ids -> Managed \cup {Nil}]
      /\ clusterFile' \in [Ids -> Config \cup {Nil}]
  BY DeletedTyped, SavedTyped DEF DeleteCluster, DeleteSaveFails
<1>2. QED
  BY <1>1 DEF DeleteCluster, DeleteSaveFails, RegTypeOK, CloseClient, clientVars

LEMMA EndTypes ==
    ASSUME RegTypeOK, Close \/ Restart
    PROVE  RegTypeOK'
<1>1. CASE Close
  BY <1>1 DEF Close, RegTypeOK
<1>2. CASE Restart
  <2>1. clusters' \in [Ids -> Managed \cup {Nil}]
    BY <1>2 DEF Restart, RegTypeOK, Managed
  <2>2. calls' \in [Callers -> Call]
    BY <1>2 DEF Restart, Call
  <2>3. QED
    BY <1>2, <2>1, <2>2 DEF Restart, RegTypeOK
<1>3. QED
  BY <1>1, <1>2

(* What a step does to the registry, whatever it does to the grants.        *)
Edits == KVNext \/ EditNext \/ Close

Deletes == \E id \in Ids : DeleteCluster(id) \/ DeleteSaveFails(id)

LEMMA RegistrySteps ==
    ASSUME [CANext]_caVars
    PROVE  Edits \/ Deletes \/ Restart \/ UNCHANGED regVars
<1>1. CASE UNCHANGED caVars
  BY <1>1 DEF caVars
<1>2. ASSUME NEW a \in Admins, NEW id \in Ids, HandleDelete(a, id)
      PROVE  Deletes
  BY <1>2 DEF HandleDelete, Deletes
<1>3. ASSUME NEW a \in Admins,
             \/ \E o \in Operators, ids \in SUBSET Ids : ValidateGrants(a, o, ids)
             \/ StoreGrants(a) \/ RemoveClusterPermissions(a)
      PROVE  UNCHANGED regVars
  BY <1>3 DEF ValidateGrants, StoreGrants, RemoveClusterPermissions
<1>4. QED
  BY <1>1, <1>2, <1>3 DEF CANext, Edits, RestartAll

LEMMA RegistryTypes ==
    ASSUME RegTypeOK, Edits \/ Deletes \/ Restart \/ UNCHANGED regVars
    PROVE  RegTypeOK'
<1>1. CASE UNCHANGED regVars
  BY <1>1 DEF regVars, clientVars, RegTypeOK
<1>2. QED
  BY <1>1, KVTypes, EditTypes, DeleteTypes, EndTypes DEF Edits, Deletes

LEMMA SaveGrantsTyped ==
    ASSUME CATypeOK, NEW next \in [Operators -> SUBSET Grant], SaveGrants(next)
    PROVE  /\ grants' \in [Operators -> SUBSET Grant]
           /\ grantFile' \in [Operators -> SUBSET Grant]
BY DEF CATypeOK, SaveGrants

Granting == [operator : Operators, chosen : SUBSET Grant]

LEMMA GrantingTyped ==
    ASSUME CATypeOK, NEW a \in Admins, granting[a] # Nil
    PROVE  granting[a].operator \in Operators /\ granting[a].chosen \subseteq Grant
<1>1. granting[a] \in Granting
  BY DEF CATypeOK, Granting
<1>2. QED
  BY <1>1 DEF Granting

LEMMA TypesPreserved ==
    ASSUME CATypeOK, [CANext]_caVars
    PROVE  CATypeOK'
<1>1. RegTypeOK'
  BY RegistrySteps, RegistryTypes DEF CATypeOK
<1>2. CASE UNCHANGED grantVars
  BY <1>1, <1>2 DEF grantVars, CATypeOK
<1>3. ASSUME NEW a \in Admins, NEW o \in Operators, NEW ids \in SUBSET Ids,
             ValidateGrants(a, o, ids)
      PROVE  CATypeOK'
  <2>1. Chosen(ids) \subseteq Grant
    <3>1. \A i \in ids : clusters[i].config.created \in Nat
      BY <1>3, ClusterTyped DEF ValidateGrants, CATypeOK, Config
    <3>2. QED
      BY <3>1 DEF Chosen, Grant
  <2>2. granting' \in [Admins -> Granting \cup {Nil}]
    BY <1>3, <2>1 DEF ValidateGrants, CATypeOK, Granting
  <2>3. QED
    BY <1>1, <1>3, <2>2 DEF ValidateGrants, CATypeOK, Granting
<1>4. ASSUME NEW a \in Admins, StoreGrants(a)
      PROVE  CATypeOK'
  <2>1. [grants EXCEPT ![granting[a].operator] = granting[a].chosen]
          \in [Operators -> SUBSET Grant]
    BY <1>4, GrantingTyped DEF StoreGrants, CATypeOK
  <2>2. /\ grants' \in [Operators -> SUBSET Grant]
        /\ grantFile' \in [Operators -> SUBSET Grant]
    BY <1>4, <2>1, SaveGrantsTyped DEF StoreGrants
  <2>3. QED
    BY <1>1, <1>4, <2>2 DEF StoreGrants, CATypeOK
<1>5. ASSUME NEW a \in Admins, NEW id \in Ids, HandleDelete(a, id)
      PROVE  CATypeOK'
  BY <1>1, <1>5 DEF HandleDelete, CATypeOK
<1>6. ASSUME NEW a \in Admins, RemoveClusterPermissions(a)
      PROVE  CATypeOK'
  <2>1. WithoutCluster(removing[a]) \in [Operators -> SUBSET Grant]
    BY DEF WithoutCluster, CATypeOK
  <2>2. /\ grants' \in [Operators -> SUBSET Grant]
        /\ grantFile' \in [Operators -> SUBSET Grant]
    BY <1>6, <2>1, SaveGrantsTyped DEF RemoveClusterPermissions, CATypeOK
  <2>3. QED
    BY <1>1, <1>6, <2>2 DEF RemoveClusterPermissions, CATypeOK
<1>7. CASE RestartAll
  BY <1>1, <1>7 DEF RestartAll, CATypeOK
<1>8. QED
  BY <1>2, <1>3, <1>4, <1>5, <1>6, <1>7 DEF CANext, caVars

(* Storing a client leaves the settings alone, and a restart loads those of *)
(* the file.                                                                *)
LEMMA KVConfigs ==
    ASSUME RegTypeOK, KVNext
    PROVE  UNCHANGED Configs(clusters)
<1>1. ASSUME NEW k \in Callers, AttachStore(k)
      PROVE  UNCHANGED Configs(clusters)
  <2>1. /\ calls[k].id \in Ids /\ Present(calls[k].id)
        /\ calls[k].client \in Clients
    BY <1>1, CallTyped DEF AttachStore, HasClient, Unchanged
  <2> DEFINE new == [clusters[calls[k].id] EXCEPT !.client = calls[k].client]
  <2>2. new \in Managed /\ new.config = clusters[calls[k].id].config
    BY <2>1, ClusterTyped DEF Managed
  <2>3. \A i \in Ids : /\ clusters'[i] = Nil <=> clusters[i] = Nil
                       /\ clusters[i] # Nil =>
                            clusters'[i].config = clusters[i].config
    BY <1>1, <2>1, <2>2 DEF AttachStore, RegTypeOK, Present
  <2>4. QED
    BY <2>3 DEF Configs
<1>2. QED
  BY <1>1 DEF KVNext, FindClient, CreateClient, FindFails, AttachGone,
                    AttachStale, AttachExisting, Finish, Configs

LEMMA RestartConfigs ==
    ASSUME RegTypeOK, Restart
    PROVE  Configs(clusters') = clusterFile
<1>1. \A i \in Ids : clusterFile[i] # Nil =>
          [config |-> clusterFile[i], client |-> Nil] \in Managed
  BY DEF RegTypeOK, Managed
<1>2. \A i \in Ids : IF clusterFile[i] = Nil THEN clusters'[i] = Nil
                     ELSE /\ clusters'[i] # Nil
                          /\ clusters'[i].config = clusterFile[i]
  BY <1>1 DEF Restart
<1>3. QED
  BY <1>2 DEF Configs, RegTypeOK

-----------------------------------------------------------------------------
(* Names.                                                                   *)

UniqueNames(map) ==
    \A i, j \in Ids :
        map[i] # Nil /\ map[j] # Nil /\ map[i].name = map[j].name => i = j

LEMMA SavedNames ==
    ASSUME NamesAreUnique, NEW next, UniqueNames(Configs(next)),
           Saved(next) \/ SaveFails(next)
    PROVE  NamesAreUnique'
<1>1. UniqueNames(Configs(clusters)) /\ UniqueNames(clusterFile)
  BY DEF NamesAreUnique, UniqueNames
<1>2. /\ Configs(clusters') \in {Configs(clusters), Configs(next)}
      /\ clusterFile' \in {clusterFile, Configs(next)}
  BY DEF Saved, SaveFails
<1>3. UniqueNames(Configs(clusters')) /\ UniqueNames(clusterFile')
  BY <1>1, <1>2
<1>4. QED
  BY <1>3 DEF NamesAreUnique, UniqueNames, Configs

(* A map with one entry replaced, whose name no other entry has.            *)
LEMMA ReplacedNames ==
    ASSUME RegTypeOK, NamesAreUnique, NEW id \in Ids, NEW config \in Config,
           \A i \in Ids \ {id} : Present(i) => clusters[i].config.name # config.name
    PROVE  UniqueNames(Configs([clusters EXCEPT ![id] =
                                   [config |-> config, client |-> Nil]]))
<1> DEFINE next == [clusters EXCEPT ![id] = [config |-> config, client |-> Nil]]
<1>1. next \in [Ids -> Managed \cup {Nil}]
  BY DEF RegTypeOK, Managed
<1>2. /\ \A i \in Ids : /\ next[i] = Nil => Configs(next)[i] = Nil
                        /\ next[i] # Nil => Configs(next)[i] = next[i].config
      /\ \A i \in Ids : /\ clusters[i] = Nil => Configs(clusters)[i] = Nil
                        /\ clusters[i] # Nil =>
                             /\ Configs(clusters)[i] = clusters[i].config
                             /\ Configs(clusters)[i] # Nil
  BY <1>1, ConfigsTyped DEF RegTypeOK
<1>3. /\ next[id].config = config
      /\ \A i \in Ids \ {id} : next[i] = clusters[i]
  BY DEF RegTypeOK
<1>4. UniqueNames(Configs(clusters))
  BY DEF NamesAreUnique, UniqueNames
<1> HIDE DEF next
<1>5. SUFFICES ASSUME NEW i \in Ids, NEW j \in Ids, Configs(next)[i] # Nil,
                      Configs(next)[j] # Nil,
                      Configs(next)[i].name = Configs(next)[j].name
               PROVE  i = j
  BY DEF UniqueNames, next
<1>6. CASE i # id /\ j # id
  BY <1>2, <1>3, <1>4, <1>5, <1>6 DEF UniqueNames
<1>7. CASE i = id /\ j # id
  BY <1>2, <1>3, <1>5, <1>7 DEF Present
<1>8. CASE i # id /\ j = id
  BY <1>2, <1>3, <1>5, <1>8 DEF Present
<1>9. QED
  BY <1>6, <1>7, <1>8

LEMMA NamesPreserved ==
    ASSUME RegTypeOK, NamesAreUnique,
           Edits \/ Deletes \/ Restart \/ UNCHANGED regVars
    PROVE  NamesAreUnique'
<1>1. CASE UNCHANGED <<Configs(clusters), clusterFile>>
  BY <1>1 DEF NamesAreUnique
<1>2. CASE KVNext
  <2>2. UNCHANGED Configs(clusters)
    BY <1>2, KVConfigs
  <2>3. UNCHANGED clusterFile
    BY <1>2 DEF KVNext, FindClient, CreateClient, FindFails, AttachGone,
                AttachStale, AttachExisting, AttachStore, Finish
  <2>4. QED
    BY <1>1, <2>2, <2>3
<1>3. ASSUME NEW id \in Ids, NEW name \in Names, NEW password \in Passwords,
             CreateCluster(id, name, password)
      PROVE  NamesAreUnique'
  <2> DEFINE config == [name |-> name, password |-> password,
                        created |-> Now, updated |-> Now]
             next == [clusters EXCEPT ![id] = [config |-> config, client |-> Nil]]
  <2>1. config \in Config
    BY DEF Config, Now, RegTypeOK
  <2>2. \A i \in Ids \ {id} : Present(i) => clusters[i].config.name # config.name
    BY <1>3 DEF CreateCluster, NameExists
  <2>3. UniqueNames(Configs(next))
    BY <2>1, <2>2, ReplacedNames
  <2>4. Saved(next) \/ SaveFails(next)
    BY <1>3 DEF CreateCluster
  <2>5. QED
    BY <2>3, <2>4, SavedNames
<1>4. ASSUME NEW a \in Admins,
             UpdateStore(a) \/ UpdateSaveFails(a) \/ UpdateRefused(a)
      PROVE  NamesAreUnique'
  <2>1. CASE UpdateRefused(a)
    BY <1>1, <2>1 DEF UpdateRefused, Configs
  <2>2. CASE UpdateStore(a) \/ UpdateSaveFails(a)
    <3>1. updates[a].id \in Ids /\ updates[a].config \in Config
      BY <2>2, UpdateTyped DEF UpdateStore, UpdateSaveFails
    <3>2. \A i \in Ids \ {updates[a].id} :
              Present(i) => clusters[i].config.name # updates[a].config.name
      BY <2>2 DEF UpdateStore, UpdateSaveFails, UpdateAllowed, NameExists
    <3>3. UniqueNames(Configs(UpdateStored(a)))
      BY <3>1, <3>2, ReplacedNames DEF UpdateStored
    <3>4. QED
      BY <2>2, <3>3, SavedNames DEF UpdateStore, UpdateSaveFails
  <2>3. QED
    BY <1>4, <2>1, <2>2
<1>5. ASSUME NEW id \in Ids, DeleteCluster(id) \/ DeleteSaveFails(id)
      PROVE  NamesAreUnique'
  <2> DEFINE next == [clusters EXCEPT ![id] = Nil]
  <2>1. \A i \in Ids : Configs(next)[i] # Nil => Configs(next)[i] = Configs(clusters)[i]
    BY DEF Configs, RegTypeOK
  <2>2. UniqueNames(Configs(clusters))
    BY DEF NamesAreUnique, UniqueNames
  <2>3. UniqueNames(Configs(next))
    BY <2>1, <2>2 DEF UniqueNames
  <2>4. Saved(next) \/ SaveFails(next)
    BY <1>5 DEF DeleteCluster, DeleteSaveFails
  <2>5. QED
    BY <2>3, <2>4, SavedNames
<1>6. CASE Restart
  <2>1. Configs(clusters') = clusterFile
    BY <1>6, RestartConfigs
  <2>2. UniqueNames(clusterFile)
    BY DEF NamesAreUnique, UniqueNames
  <2>3. UniqueNames(Configs(clusters')) /\ UniqueNames(clusterFile')
    BY <1>6, <2>1, <2>2 DEF Restart
  <2>4. QED
    BY <2>3 DEF NamesAreUnique, UniqueNames, Configs
<1>7. CASE \/ Close \/ UNCHANGED regVars
           \/ \E a \in Admins, id \in Ids, name \in Names,
                 given \in Passwords \cup {Nil} : UpdateBegin(a, id, name, given)
  BY <1>1, <1>7 DEF Close, regVars, UpdateBegin, Configs
<1>8. QED
  BY <1>2, <1>3, <1>4, <1>5, <1>6, <1>7 DEF Edits, Deletes, EditNext

-----------------------------------------------------------------------------
(* Ids.                                                                     *)

LEMMA NothingNew ==
    ASSUME IdsAreDrawnOnce, Mentions' \subseteq Mentions, used \subseteq used'
    PROVE  IdsAreDrawnOnce'
BY DEF IdsAreDrawnOnce

LEMMA MentionParts ==
    /\ Mentions = MentionedIn(Configs(clusters)) \cup MentionedIn(clusterFile)
                    \cup OfUpdates \cup OfGrants \cup OfGranting
    /\ Mentions' = MentionedIn(Configs(clusters')) \cup MentionedIn(clusterFile')
                    \cup OfUpdates' \cup OfGrants' \cup OfGranting'
<1>1. Mentions = MentionedIn(Configs(clusters)) \cup MentionedIn(clusterFile)
                   \cup OfUpdates \cup OfGrants \cup OfGranting
  BY DEF Mentions
<1>2. /\ MentionedIn(Configs(clusters))' = MentionedIn(Configs(clusters'))
      /\ MentionedIn(clusterFile)' = MentionedIn(clusterFile')
  BY DEF MentionedIn, Configs
<1>3. Mentions' = MentionedIn(Configs(clusters))' \cup MentionedIn(clusterFile)'
                    \cup OfUpdates' \cup OfGrants' \cup OfGranting'
  BY DEF Mentions
<1>4. QED
  BY <1>1, <1>2, <1>3

LEMMA SavedMentions ==
    ASSUME NEW next, NEW M, Mentions \subseteq M,
           MentionedIn(Configs(next)) \subseteq M,
           Saved(next) \/ SaveFails(next)
    PROVE  /\ MentionedIn(Configs(clusters')) \subseteq M
           /\ MentionedIn(clusterFile') \subseteq M
<1>1. /\ Configs(clusters') \in {Configs(clusters), Configs(next)}
      /\ clusterFile' \in {clusterFile, Configs(next)}
  BY DEF Saved, SaveFails
<1>2. QED
  BY <1>1, MentionParts

(* Of a map with one entry replaced.                                        *)
LEMMA ReplacedMentions ==
    ASSUME RegTypeOK, NEW id \in Ids, NEW config \in Config
    PROVE  MentionedIn(Configs([clusters EXCEPT ![id] =
                                   [config |-> config, client |-> Nil]]))
             \subseteq MentionedIn(Configs(clusters))
                         \cup {[id |-> id, created |-> config.created]}
<1> DEFINE next == [clusters EXCEPT ![id] = [config |-> config, client |-> Nil]]
<1>1. next \in [Ids -> Managed \cup {Nil}]
  BY DEF RegTypeOK, Managed
<1>2. \A i \in Ids \ {id} : Configs(next)[i] = Configs(clusters)[i]
  BY DEF Configs, RegTypeOK
<1>3. Configs(next)[id] = config
  BY <1>1 DEF Configs, RegTypeOK, Managed
<1> HIDE DEF next
<1>4. MentionedIn(Configs(next))
        \subseteq MentionedIn(Configs(clusters))
                    \cup {[id |-> id, created |-> config.created]}
  BY <1>2, <1>3 DEF MentionedIn
<1>5. QED
  BY <1>4 DEF next

(* The creation of a cluster that is there.                                 *)
LEMMA PresentMentioned ==
    ASSUME RegTypeOK, NEW i \in Ids, Present(i)
    PROVE  [id |-> i, created |-> clusters[i].config.created] \in Mentions
<1>1. Configs(clusters)[i] = clusters[i].config /\ Configs(clusters)[i] # Nil
  BY ConfigsTyped DEF RegTypeOK, Present
<1>2. QED
  BY <1>1, MentionParts DEF MentionedIn

(* Steps of the registry.                                                   *)
LEMMA EditMentions ==
    ASSUME RegTypeOK, IdsAreDrawnOnce, EditNext, UNCHANGED grantVars
    PROVE  IdsAreDrawnOnce'
<1>0. OfGrants' = OfGrants /\ OfGranting' = OfGranting
  BY DEF grantVars, OfGrants, OfGranting
<1>1. ASSUME NEW id \in Ids, NEW name \in Names, NEW password \in Passwords,
             CreateCluster(id, name, password)
      PROVE  IdsAreDrawnOnce'
  <2> DEFINE config == [name |-> name, password |-> password,
                        created |-> Now, updated |-> Now]
             next == [clusters EXCEPT ![id] = [config |-> config, client |-> Nil]]
             new == [id |-> id, created |-> Now]
  <2>1. config \in Config
    BY DEF Config, Now, RegTypeOK
  <2>2. MentionedIn(Configs(next)) \subseteq Mentions \cup {new}
    BY <2>1, ReplacedMentions, MentionParts
  <2>3. Saved(next) \/ SaveFails(next)
    BY <1>1 DEF CreateCluster
  <2>4. /\ MentionedIn(Configs(clusters')) \subseteq Mentions \cup {new}
        /\ MentionedIn(clusterFile') \subseteq Mentions \cup {new}
    BY <2>2, <2>3, SavedMentions
  <2>5. OfUpdates' = OfUpdates
    BY <1>1 DEF CreateCluster, OfUpdates
  <2>6. Mentions' \subseteq Mentions \cup {new}
    BY <1>0, <2>4, <2>5, MentionParts
  <2>7. id \notin used /\ used' = used \cup {id}
    BY <1>1 DEF CreateCluster, NewClusterID
  <2>8. QED
    BY <2>6, <2>7 DEF IdsAreDrawnOnce
<1>2. ASSUME NEW a \in Admins, NEW id \in Ids, NEW name \in Names,
             NEW given \in Passwords \cup {Nil}, UpdateBegin(a, id, name, given)
      PROVE  IdsAreDrawnOnce'
  <2>1. Present(id) /\ clusters[id].config \in Config
    BY <1>2, ClusterTyped DEF UpdateBegin
  <2>2. /\ updates'[a].id = id
        /\ updates'[a].config.created = clusters[id].config.created
        /\ \A b \in Admins \ {a} : updates'[b] = updates[b]
    BY <1>2, <2>1 DEF UpdateBegin, RegTypeOK, Config
  <2>3. OfUpdates' \subseteq
          OfUpdates \cup {[id |-> id, created |-> clusters[id].config.created]}
    BY <2>2 DEF OfUpdates
  <2>4. OfUpdates' \subseteq Mentions
    BY <2>1, <2>3, PresentMentioned, MentionParts
  <2>5. UNCHANGED <<clusters, clusterFile, used>>
    BY <1>2 DEF UpdateBegin
  <2>6. QED
    BY <1>0, <2>4, <2>5, MentionParts, NothingNew
<1>3. ASSUME NEW a \in Admins,
             UpdateStore(a) \/ UpdateSaveFails(a) \/ UpdateRefused(a)
      PROVE  IdsAreDrawnOnce'
  <2>1. updates[a] # Nil /\ updates[a].id \in Ids /\ updates[a].config \in Config
    BY <1>3, UpdateTyped DEF UpdateStore, UpdateSaveFails, UpdateRefused
  <2>2. OfUpdates' \subseteq OfUpdates
    BY <1>3 DEF UpdateStore, UpdateSaveFails, UpdateRefused, OfUpdates, RegTypeOK
  <2>3. [id |-> updates[a].id, created |-> updates[a].config.created] \in Mentions
    BY <2>1, MentionParts DEF OfUpdates
  <2>4. MentionedIn(Configs(UpdateStored(a))) \subseteq Mentions
    BY <2>1, <2>3, ReplacedMentions, MentionParts DEF UpdateStored
  <2>5. /\ MentionedIn(Configs(clusters')) \subseteq Mentions
        /\ MentionedIn(clusterFile') \subseteq Mentions
    <3>1. CASE UpdateRefused(a)
      BY <3>1, MentionParts DEF UpdateRefused
    <3>2. CASE Saved(UpdateStored(a)) \/ SaveFails(UpdateStored(a))
      BY <2>4, <3>2, SavedMentions
    <3>3. QED
      BY <1>3, <3>1, <3>2 DEF UpdateStore, UpdateSaveFails
  <2>6. used' = used
    BY <1>3 DEF UpdateStore, UpdateSaveFails, UpdateRefused
  <2>7. QED
    BY <1>0, <2>2, <2>5, <2>6, MentionParts, NothingNew
<1>4. QED
  BY <1>1, <1>2, <1>3 DEF EditNext

LEMMA KVMentions ==
    ASSUME RegTypeOK, IdsAreDrawnOnce, KVNext, UNCHANGED grantVars
    PROVE  IdsAreDrawnOnce'
<1>1. UNCHANGED Configs(clusters)
  BY KVConfigs
<1>2. UNCHANGED <<clusterFile, used, updates>>
  BY DEF KVNext, FindClient, CreateClient, FindFails, AttachGone, AttachStale,
         AttachExisting, AttachStore, Finish
<1>3. Configs(clusters') = Configs(clusters)
  BY <1>1 DEF Configs
<1>4. /\ OfGrants' = OfGrants /\ OfGranting' = OfGranting
      /\ OfUpdates' = OfUpdates
  BY <1>2 DEF grantVars, OfGrants, OfGranting, OfUpdates
<1>5. QED
  BY <1>2, <1>3, <1>4, MentionParts, NothingNew

LEMMA DeleteMentions ==
    ASSUME RegTypeOK, IdsAreDrawnOnce, Deletes,
           UNCHANGED <<grants, grantFile, granting>>
    PROVE  IdsAreDrawnOnce'
<1>1. PICK id \in Ids : DeleteCluster(id) \/ DeleteSaveFails(id)
  BY DEF Deletes
<1> DEFINE next == [clusters EXCEPT ![id] = Nil]
<1>2. \A i \in Ids : Configs(next)[i] # Nil => Configs(next)[i] = Configs(clusters)[i]
  BY DEF Configs, RegTypeOK
<1>3. MentionedIn(Configs(next)) \subseteq Mentions
  BY <1>2, MentionParts DEF MentionedIn
<1>4. Saved(next) \/ SaveFails(next)
  BY <1>1 DEF DeleteCluster, DeleteSaveFails
<1>5. /\ MentionedIn(Configs(clusters')) \subseteq Mentions
      /\ MentionedIn(clusterFile') \subseteq Mentions
  BY <1>3, <1>4, SavedMentions
<1>6. UNCHANGED <<used, updates>>
  BY <1>1 DEF DeleteCluster, DeleteSaveFails
<1>7. /\ OfGrants' = OfGrants /\ OfGranting' = OfGranting
      /\ OfUpdates' = OfUpdates
  BY <1>6 DEF OfGrants, OfGranting, OfUpdates
<1>8. QED
  BY <1>5, <1>6, <1>7, MentionParts, NothingNew

(* Steps of the grants.                                                     *)
LEMMA GrantMentions ==
    ASSUME CATypeOK, IdsAreDrawnOnce, UNCHANGED regVars,
           OfGrants' \subseteq Mentions, OfGranting' \subseteq Mentions
    PROVE  IdsAreDrawnOnce'
<1>1. UNCHANGED <<clusters, clusterFile, used, updates>>
  BY DEF regVars
<1>2. OfUpdates' = OfUpdates
  BY <1>1 DEF OfUpdates
<1>3. QED
  BY <1>1, <1>2, MentionParts, NothingNew

LEMMA SaveGrantsMentions ==
    ASSUME CATypeOK, NEW next \in [Operators -> SUBSET Grant],
           \A o \in Operators : next[o] \subseteq Mentions,
           SaveGrants(next) \/ UNCHANGED <<grants, grantFile>>
    PROVE  OfGrants' \subseteq Mentions
<1>1. \A o \in Operators : grants[o] \subseteq Mentions /\ grantFile[o] \subseteq Mentions
  BY MentionParts DEF OfGrants
<1>2. grants' \in {grants, next} /\ grantFile' \in {grantFile, next}
  BY DEF SaveGrants
<1>3. \A o \in Operators : grants'[o] \subseteq Mentions /\ grantFile'[o] \subseteq Mentions
  BY <1>1, <1>2
<1>4. QED
  BY <1>3 DEF OfGrants

LEMMA IdsPreserved ==
    ASSUME CATypeOK, IdsAreDrawnOnce, [CANext]_caVars
    PROVE  IdsAreDrawnOnce'
<1>0. RegTypeOK
  BY DEF CATypeOK
<1>1. CASE (KVNext \/ EditNext) /\ UNCHANGED grantVars
  BY <1>0, <1>1, KVMentions, EditMentions
<1>2. CASE \/ Close /\ UNCHANGED grantVars
           \/ UNCHANGED caVars
  <2>1. UNCHANGED <<clusters, clusterFile, used, updates, grantVars>>
    BY <1>2 DEF Close, caVars, regVars
  <2>2. Mentions' = Mentions
    BY <2>1 DEF Mentions, grantVars, Configs, MentionedIn, OfUpdates, OfGrants,
               OfGranting
  <2>3. QED
    BY <2>1, <2>2, NothingNew
<1>3. ASSUME NEW a \in Admins, NEW o \in Operators, NEW ids \in SUBSET Ids,
             ValidateGrants(a, o, ids)
      PROVE  IdsAreDrawnOnce'
  <2>1. Chosen(ids) \subseteq Mentions
    BY <1>0, <1>3, PresentMentioned DEF ValidateGrants, Chosen
  <2>2. OfGranting' \subseteq OfGranting \cup Chosen(ids)
    BY <1>3 DEF ValidateGrants, OfGranting, CATypeOK
  <2>3. OfGrants' = OfGrants /\ UNCHANGED regVars
    BY <1>3 DEF ValidateGrants, OfGrants
  <2>4. QED
    BY <2>1, <2>2, <2>3, MentionParts, GrantMentions
<1>4. ASSUME NEW a \in Admins, StoreGrants(a)
      PROVE  IdsAreDrawnOnce'
  <2> DEFINE next == [grants EXCEPT ![granting[a].operator] = granting[a].chosen]
  <2>1. granting[a] # Nil
    BY <1>4 DEF StoreGrants
  <2>2. granting[a].chosen \subseteq Mentions
    BY <2>1, MentionParts DEF OfGranting
  <2>3. \A o \in Operators : grants[o] \subseteq Mentions
    BY MentionParts DEF OfGrants
  <2>4. /\ next \in [Operators -> SUBSET Grant]
        /\ \A o \in Operators : next[o] \subseteq Mentions
    BY <2>1, <2>2, <2>3, GrantingTyped DEF CATypeOK
  <2>5. OfGrants' \subseteq Mentions
    BY <1>4, <2>4, SaveGrantsMentions DEF StoreGrants
  <2>6. OfGranting' \subseteq OfGranting
    BY <1>4 DEF StoreGrants, OfGranting, CATypeOK
  <2>7. QED
    BY <1>4, <2>5, <2>6, MentionParts, GrantMentions DEF StoreGrants
<1>5. ASSUME NEW a \in Admins, NEW id \in Ids, HandleDelete(a, id)
      PROVE  IdsAreDrawnOnce'
  BY <1>0, <1>5, DeleteMentions DEF HandleDelete, Deletes
<1>6. ASSUME NEW a \in Admins, RemoveClusterPermissions(a)
      PROVE  IdsAreDrawnOnce'
  <2> DEFINE next == WithoutCluster(removing[a])
  <2>1. \A o \in Operators : grants[o] \subseteq Mentions
    BY MentionParts DEF OfGrants
  <2>2. /\ next \in [Operators -> SUBSET Grant]
        /\ \A o \in Operators : next[o] \subseteq Mentions
    BY <2>1 DEF WithoutCluster, CATypeOK
  <2>3. OfGrants' \subseteq Mentions
    BY <1>6, <2>2, SaveGrantsMentions DEF RemoveClusterPermissions
  <2>4. OfGranting' = OfGranting
    BY <1>6 DEF RemoveClusterPermissions, OfGranting
  <2>5. QED
    BY <1>6, <2>3, <2>4, MentionParts, GrantMentions DEF RemoveClusterPermissions
<1>7. CASE RestartAll
  <2>1. Configs(clusters') = clusterFile
    BY <1>0, <1>7, RestartConfigs DEF RestartAll
  <2>2. OfGrants' \subseteq OfGrants /\ OfGranting' = {} /\ OfUpdates' = {}
    BY <1>7 DEF RestartAll, Restart, OfGrants, OfGranting, OfUpdates
  <2>3. used' = used /\ clusterFile' = clusterFile
    BY <1>7 DEF RestartAll, Restart
  <2>4. QED
    BY <2>1, <2>2, <2>3, MentionParts, NothingNew
<1>8. QED
  BY <1>1, <1>2, <1>3, <1>4, <1>5, <1>6, <1>7 DEF CANext

-----------------------------------------------------------------------------
(* Clients.                                                                 *)

LEMMA Members ==
    ASSUME NEW c
    PROVE  /\ c \in Stored <=> /\ c # Nil
                               /\ \E i \in Ids : Present(i) /\ clusters[i].client = c
           /\ c \in Attaching <=> \E k \in Callers : /\ calls[k].stage = "attach"
                                                     /\ calls[k].client = c
           /\ c \in InUse <=> \E k \in Callers : /\ calls[k].stage = "returned"
                                                 /\ calls[k].client = c
           /\ c \in Stored' <=> /\ c # Nil
                                /\ \E i \in Ids : Present(i)' /\ clusters'[i].client = c
           /\ c \in Attaching' <=> \E k \in Callers : /\ calls'[k].stage = "attach"
                                                      /\ calls'[k].client = c
           /\ c \in InUse' <=> \E k \in Callers : /\ calls'[k].stage = "returned"
                                                  /\ calls'[k].client = c
BY DEF Stored, Attaching, InUse

(* A call without a client ends or starts again.                            *)
LEMMA CallEndsInv ==
    ASSUME RegTypeOK, ClientInv, NEW k \in Callers, FindFails(k) \/ Finish(k)
    PROVE  ClientInv'
<1>1. /\ calls[k].stage # "attach" /\ calls'[k].stage = "idle"
      /\ \A j \in Callers \ {k} : calls'[j] = calls[j]
  BY DEF FindFails, Finish, RegTypeOK, Idle
<1>2. UNCHANGED <<clusters, clusterFile, clock, open, origin, updates, closing>>
  BY DEF FindFails, Finish
<1>3. Stored' = Stored
  BY <1>2 DEF Stored, Present
<1>4. Attaching' = Attaching
  <2>1. \A c : c \in Attaching' <=> c \in Attaching
    BY <1>1, Members
  <2>2. QED
    BY <2>1
<1>5. InUse' \subseteq InUse
  BY <1>1, Members
<1>6. StoredClientIsCurrent'
  BY <1>2 DEF ClientInv, StoredClientIsCurrent, Present
<1>7. NoClientLeaks'
  BY <1>2, <1>3, <1>4 DEF ClientInv, NoClientLeaks, Present
<1>8. RequestKeepsClient'
  BY <1>1, <1>2 DEF ClientInv, RequestKeepsClient, Present
<1>9. ClientsHaveOwners'
  BY <1>1, <1>2, <1>3, <1>5 DEF ClientInv, ClientsHaveOwners, Present
<1>10. TimesTellApart'
  BY <1>1, <1>2 DEF ClientInv, TimesTellApart, Present, HasClient, Unchanged
<1>11. QED
  BY <1>6, <1>7, <1>8, <1>9, <1>10 DEF ClientInv

(* A call closes the client it has created.                                 *)
LEMMA AttachClosesInv ==
    ASSUME RegTypeOK, ClientInv, NEW k \in Callers, AttachGone(k) \/ AttachStale(k)
    PROVE  ClientInv'
<1> DEFINE c == calls[k].client
<1>1. /\ calls[k].stage = "attach" /\ calls'[k].stage \in {"idle", "find"}
      /\ \A j \in Callers \ {k} : calls'[j] = calls[j]
  BY DEF AttachGone, AttachStale, RegTypeOK, Idle
<1>2. /\ UNCHANGED <<clusters, clusterFile, clock, origin, updates, closing>>
      /\ open' = open \ {c}
  BY DEF AttachGone, AttachStale, CloseClient
<1>3. /\ c \in open /\ c \notin Stored \cup InUse
      /\ \A j \in Callers \ {k} : calls[j].stage = "attach" => calls[j].client # c
  BY <1>1 DEF ClientInv, ClientsHaveOwners
<1>4. Stored' = Stored
  BY <1>2 DEF Stored, Present
<1>5. Attaching' = Attaching \ {c}
  BY <1>1, <1>3, Members
<1>6. InUse' = InUse
  <2>1. \A d : d \in InUse' <=> d \in InUse
    BY <1>1, Members
  <2>2. QED
    BY <2>1
<1> HIDE DEF c
<1>7. StoredClientIsCurrent'
  <2>1. \A i \in Ids : Present(i) /\ clusters[i].client # Nil =>
            clusters[i].client \in Stored
    BY Members
  <2>2. QED
    BY <1>2, <1>3, <2>1 DEF ClientInv, StoredClientIsCurrent, Present
<1>8. NoClientLeaks'
  BY <1>2, <1>3, <1>4, <1>5 DEF ClientInv, NoClientLeaks, Present
<1>9. RequestKeepsClient'
  <2>1. \A j \in Callers : calls[j].stage = "returned" => calls[j].client # c
    BY <1>3, Members
  <2>2. QED
    BY <1>1, <1>2, <2>1 DEF ClientInv, RequestKeepsClient, Present
<1>10. ClientsHaveOwners'
  BY <1>1, <1>2, <1>3, <1>4, <1>6 DEF ClientInv, ClientsHaveOwners, Present
<1>11. TimesTellApart'
  BY <1>1, <1>2 DEF ClientInv, TimesTellApart, Present, HasClient, Unchanged
<1>12. QED
  BY <1>7, <1>8, <1>9, <1>10, <1>11 DEF ClientInv

(* A call stores the client it has created.                                 *)
LEMMA AttachStoreInv ==
    ASSUME RegTypeOK, ClientInv, NEW k \in Callers, AttachStore(k)
    PROVE  ClientInv'
<1> DEFINE id == calls[k].id
           c == calls[k].client
<1>1. /\ calls[k].stage = "attach" /\ id \in Ids /\ c \in Clients /\ c # Nil
      /\ Present(id) /\ clusters[id].client = Nil
      /\ clusters[id].config = calls[k].cluster
  BY CallTyped DEF AttachStore, HasClient, Unchanged, ClientInv, TimesTellApart
<1>2. \A i \in Ids :
          /\ Present(i)' <=> Present(i)
          /\ Present(i) => clusters'[i].config = clusters[i].config
          /\ i # id => clusters'[i] = clusters[i]
          /\ i = id => clusters'[i].client = c
  <2>1. [clusters[id] EXCEPT !.client = c] \in Managed
    BY <1>1, ClusterTyped DEF Managed
  <2>2. QED
    BY <1>1, <2>1, ClusterTyped DEF AttachStore, RegTypeOK, Present, Managed
<1>3. /\ calls'[k] = [stage |-> "returned", id |-> id,
                      cluster |-> calls[k].cluster, client |-> c]
      /\ \A j \in Callers \ {k} : calls'[j] = calls[j]
  BY <1>1 DEF AttachStore, Return, RegTypeOK
<1>4. UNCHANGED <<clusterFile, clock, open, origin, updates, closing>>
  BY DEF AttachStore
<1>5. /\ c \in open /\ c \notin Stored \cup InUse /\ origin[c] = calls[k].cluster
      /\ \A j \in Callers \ {k} : calls[j].stage = "attach" => calls[j].client # c
  BY <1>1 DEF ClientInv, ClientsHaveOwners
<1> HIDE DEF c, id
<1>6. Stored' = Stored \cup {c}
  BY <1>1, <1>2, Members
<1>7. Attaching' = Attaching \ {c}
  BY <1>1, <1>3, <1>5, Members DEF c
<1>8. InUse' = InUse \cup {c}
  BY <1>1, <1>3, Members
<1>9. \A i \in Ids : Present(i) => clusters[i].client # c
  BY <1>1, <1>5, Members
<1>10. StoredClientIsCurrent'
  BY <1>1, <1>2, <1>4, <1>5 DEF ClientInv, StoredClientIsCurrent
<1>11. NoClientLeaks'
  <2>1. c \in Attaching
    BY <1>1, Members DEF c
  <2>2. ~closing' => open' = Stored' \cup Attaching'
    BY <1>4, <1>6, <1>7, <2>1 DEF ClientInv, NoClientLeaks
  <2>3. QED
    BY <1>1, <1>2, <1>9, <2>2 DEF ClientInv, NoClientLeaks
<1>12. RequestKeepsClient'
  <2>1. ASSUME NEW j \in Callers \ {k}, calls[j].stage = "returned"
        PROVE  /\ origin[calls[j].client] = calls[j].cluster
               /\ \/ calls[j].client \in open \/ closing
                  \/ clusters'[calls[j].id] = Nil
                  \/ clusters'[calls[j].id].config # calls[j].cluster
    <3>1. calls[j].id \in Ids
      BY <2>1, CallTyped DEF HasClient
    <3>2. QED
      BY <1>2, <2>1, <3>1 DEF ClientInv, RequestKeepsClient, Present
  <2>2. QED
    BY <1>3, <1>4, <1>5, <2>1 DEF RequestKeepsClient, Present
<1>13. ClientsHaveOwners'
  <2>1. ASSUME NEW j \in Callers, calls'[j].stage = "attach"
        PROVE  j # k /\ calls[j] = calls'[j] /\ calls[j].client # c
    BY <1>3, <1>5, <2>1
  <2>2. ASSUME NEW j \in Callers, NEW i \in Ids, calls'[j].stage = "returned",
               Present(i)', clusters'[i].client = calls'[j].client
        PROVE  i = calls'[j].id
    <3>1. CASE j = k
      BY <1>2, <1>3, <1>9, <2>2, <3>1
    <3>2. CASE j # k
      <4>1. calls[j].client # c
        BY <1>3, <1>5, <2>2, <3>2, Members
      <4>2. QED
        BY <1>2, <1>3, <2>2, <3>2, <4>1 DEF ClientInv, ClientsHaveOwners
    <3>3. QED
      BY <3>1, <3>2
  <2>3. QED
    BY <1>4, <1>6, <1>8, <2>1, <2>2 DEF ClientInv, ClientsHaveOwners
<1>14. TimesTellApart'
  <2>1. \A j \in Callers : /\ HasClient(j)' <=> HasClient(j)
                           /\ HasClient(j) => calls'[j].cluster = calls[j].cluster
    BY <1>1, <1>3 DEF HasClient
  <2>2. ASSUME NEW j \in Callers, calls'[j].stage = "attach", Unchanged(j)'
        PROVE  clusters'[calls'[j].id].config = calls'[j].cluster
    <3>1. calls'[j] = calls[j]
      BY <1>3, <2>2
    <3>2. calls[j].id \in Ids
      BY <2>2, <3>1, CallTyped DEF HasClient
    <3>3. QED
      BY <1>2, <2>2, <3>1, <3>2 DEF Unchanged, ClientInv, TimesTellApart
  <2>3. QED
    BY <1>2, <1>4, <2>1, <2>2 DEF ClientInv, TimesTellApart
<1>15. QED
  BY <1>10, <1>11, <1>12, <1>13, <1>14 DEF ClientInv

(* A call returns the client the map holds, and closes its own if it had    *)
(* created one.                                                             *)
LEMMA ReturnStoredInv ==
    ASSUME RegTypeOK, ClientInv, NEW k \in Callers, NEW id \in Ids,
           FindClient(k, id) \/ (AttachExisting(k) /\ id = calls[k].id)
    PROVE  ClientInv'
<1> DEFINE c == clusters[id].client
           own == IF calls[k].stage = "attach" THEN {calls[k].client} ELSE {}
<1>1. /\ Present(id) /\ c # Nil /\ c \in Clients
      /\ calls[k].stage # "returned"
  BY ClusterTyped DEF FindClient, MayFind, Idle, AttachExisting, Unchanged
<1>2. /\ calls'[k] = [stage |-> "returned", id |-> id,
                      cluster |-> clusters[id].config, client |-> c]
      /\ \A j \in Callers \ {k} : calls'[j] = calls[j]
  BY DEF FindClient, AttachExisting, Return, RegTypeOK
<1>3. /\ UNCHANGED <<clusters, clusterFile, clock, origin, updates, closing>>
      /\ open' = open \ own
  BY DEF FindClient, MayFind, Idle, AttachExisting, CloseClient
<1>4. /\ \A d \in own : d \notin Stored \cup InUse
      /\ \A j \in Callers \ {k} : calls[j].stage = "attach" => calls[j].client \notin own
  BY DEF ClientInv, ClientsHaveOwners
<1>5. own \subseteq Attaching
  BY Members
<1>6. \A d : d \in Attaching' <=> d \in Attaching /\ d \notin own
  BY <1>2, <1>4, Members
<1> HIDE DEF c, own
<1>7. Stored' = Stored /\ c \in Stored
  BY <1>1, <1>3, Members DEF Stored, Present, c
<1>8. \A d : d \in InUse' => d \in InUse \cup {c}
  BY <1>2, Members
<1>9. \A i \in Ids : Present(i) /\ clusters[i].client # Nil =>
          /\ clusters[i].client \in Stored /\ clusters[i].client \notin own
          /\ clusters[i].client = c => i = id
  BY <1>1, <1>4, Members DEF ClientInv, NoClientLeaks, c
<1>10. StoredClientIsCurrent'
  BY <1>3, <1>9 DEF ClientInv, StoredClientIsCurrent, Present
<1>11. NoClientLeaks'
  <2>1. ~closing' => open' = Stored' \cup Attaching'
    BY <1>3, <1>4, <1>6, <1>7 DEF ClientInv, NoClientLeaks
  <2>2. QED
    BY <1>3, <2>1 DEF ClientInv, NoClientLeaks, Present
<1>12. RequestKeepsClient'
  <2>1. /\ origin[c] = clusters[id].config
        /\ closing \/ c \in open'
    BY <1>1, <1>3, <1>9 DEF ClientInv, StoredClientIsCurrent, c
  <2>2. ASSUME NEW j \in Callers \ {k}, calls[j].stage = "returned"
        PROVE  /\ origin[calls[j].client] = calls[j].cluster
               /\ \/ calls[j].client \in open' \/ closing
                  \/ clusters[calls[j].id] = Nil
                  \/ clusters[calls[j].id].config # calls[j].cluster
    <3>1. calls[j].client \notin own
      BY <1>4, <2>2, Members
    <3>2. QED
      BY <1>3, <2>2, <3>1 DEF ClientInv, RequestKeepsClient, Present
  <2>3. QED
    BY <1>2, <1>3, <2>1, <2>2 DEF RequestKeepsClient, Present
<1>13. ClientsHaveOwners'
  <2>1. ASSUME NEW j \in Callers, calls'[j].stage = "attach"
        PROVE  /\ j # k /\ calls[j] = calls'[j]
               /\ calls[j].client # c /\ calls[j].client \notin own
    <3>1. j # k /\ calls[j] = calls'[j]
      BY <1>2, <2>1
    <3>2. QED
      BY <1>4, <1>7, <2>1, <3>1 DEF ClientInv, ClientsHaveOwners
  <2>2. ASSUME NEW j \in Callers, NEW i \in Ids, calls'[j].stage = "returned",
               Present(i)', clusters'[i].client = calls'[j].client
        PROVE  i = calls'[j].id
    <3>1. CASE j = k
      BY <1>1, <1>2, <1>3, <1>9, <2>2, <3>1 DEF Present
    <3>2. CASE j # k
      BY <1>2, <1>3, <2>2, <3>2 DEF ClientInv, ClientsHaveOwners, Present
    <3>3. QED
      BY <3>1, <3>2
  <2>3. QED
    BY <1>3, <1>7, <1>8, <2>1, <2>2 DEF ClientInv, ClientsHaveOwners
<1>14. TimesTellApart'
  <2>1. clusters[id].config.updated <= clock
    BY <1>1 DEF ClientInv, TimesTellApart
  <2>2. \A j \in Callers \ {k} : HasClient(j)' <=> HasClient(j)
    BY <1>2 DEF HasClient
  <2>3. ASSUME NEW a \in Admins, updates[a] # Nil, NEW j \in Callers, HasClient(j)'
        PROVE  calls'[j].cluster.updated # updates[a].config.updated
    <3>1. CASE j = k
      BY <1>1, <1>2, <2>3, <3>1 DEF ClientInv, TimesTellApart
    <3>2. CASE j # k
      BY <1>2, <2>2, <2>3, <3>2 DEF ClientInv, TimesTellApart
    <3>3. QED
      BY <3>1, <3>2
  <2>4. \A j \in Callers : HasClient(j)' => calls'[j].cluster.updated <= clock
    BY <1>2, <2>1, <2>2 DEF ClientInv, TimesTellApart
  <2>5. \A j \in Callers : calls'[j].stage = "attach" /\ Unchanged(j)' =>
            clusters'[calls'[j].id].config = calls'[j].cluster
    BY <1>2, <1>3 DEF ClientInv, TimesTellApart, Unchanged, Present
  <2>6. QED
    BY <1>3, <2>3, <2>4, <2>5 DEF ClientInv, TimesTellApart, Present
<1>15. QED
  BY <1>10, <1>11, <1>12, <1>13, <1>14 DEF ClientInv

(* A call creates a client.                                                 *)
LEMMA CreateClientInv ==
    ASSUME RegTypeOK, ClientInv, NEW k \in Callers, NEW id \in Ids,
           NEW c \in Clients, CreateClient(k, id, c)
    PROVE  ClientInv'
<1>1. /\ Present(id) /\ c # Nil
      /\ calls[k].stage \notin {"attach", "returned"}
      /\ c \notin open /\ c \notin Stored /\ c \notin InUse
  BY DEF CreateClient, MayFind, Idle
<1>2. /\ calls'[k] = [stage |-> "attach", id |-> id,
                      cluster |-> clusters[id].config, client |-> c]
      /\ \A j \in Callers \ {k} : calls'[j] = calls[j]
  BY DEF CreateClient, RegTypeOK
<1>3. /\ UNCHANGED <<clusters, clusterFile, clock, updates, closing>>
      /\ open' = open \cup {c}
      /\ origin'[c] = clusters[id].config
      /\ \A d \in Clients \ {c} : origin'[d] = origin[d]
  BY DEF CreateClient, RegTypeOK
<1>4. Stored' = Stored
  BY <1>3 DEF Stored, Present
<1>5. \A d : d \in Attaching' <=> d \in Attaching \cup {c}
  BY <1>1, <1>2, Members
<1>6. \A d : d \in InUse' => d \in InUse
  BY <1>1, <1>2, Members
<1>7. \A i \in Ids : Present(i) => clusters[i].client # c
  BY <1>1, Members
<1>8. \A j \in Callers \ {k} : HasClient(j) =>
          calls[j].client # c /\ calls[j].client \in Clients
  <2>1. SUFFICES ASSUME NEW j \in Callers \ {k}, HasClient(j)
                 PROVE  calls[j].client # c /\ calls[j].client \in Clients
    OBVIOUS
  <2>2. CASE calls[j].stage = "attach"
    BY <1>1, <2>1, <2>2, CallTyped DEF ClientInv, ClientsHaveOwners
  <2>3. CASE calls[j].stage = "returned"
    BY <1>1, <2>1, <2>3, CallTyped, Members
  <2>4. QED
    BY <2>1, <2>2, <2>3 DEF HasClient
<1>9. StoredClientIsCurrent'
  <2>1. \A i \in Ids : Present(i) => clusters[i].client \in Clients \cup {Nil}
    BY ClusterTyped
  <2>2. QED
    BY <1>3, <1>7, <2>1 DEF ClientInv, StoredClientIsCurrent, Present
<1>10. NoClientLeaks'
  <2>1. ~closing' => open' = Stored' \cup Attaching'
    BY <1>3, <1>4, <1>5 DEF ClientInv, NoClientLeaks
  <2>2. QED
    BY <1>3, <2>1 DEF ClientInv, NoClientLeaks, Present
<1>11. RequestKeepsClient'
  <2>1. ASSUME NEW j \in Callers, calls'[j].stage = "returned"
        PROVE  j # k /\ calls'[j] = calls[j] /\ HasClient(j)
    BY <1>2, <2>1 DEF HasClient
  <2>2. QED
    BY <1>3, <1>8, <2>1 DEF ClientInv, RequestKeepsClient, Present
<1>12. ClientsHaveOwners'
  <2>1. ASSUME NEW j \in Callers \ {k}, calls'[j].stage = "attach"
        PROVE  /\ calls[j] = calls'[j] /\ calls[j].client # c
               /\ calls[j].client \in Clients
    BY <1>2, <1>8, <2>1 DEF HasClient
  <2>2. ASSUME NEW j \in Callers, calls'[j].stage = "attach"
        PROVE  /\ calls'[j].client \in open'
               /\ calls'[j].client \notin Stored' \cup InUse'
               /\ origin'[calls'[j].client] = calls'[j].cluster
               /\ \A l \in Callers : calls'[l].stage = "attach" /\
                     calls'[l].client = calls'[j].client => l = j
    <3>1. CASE j = k
      BY <1>1, <1>2, <1>3, <1>4, <1>6, <2>1, <3>1
    <3>2. CASE j # k
      BY <1>2, <1>3, <1>4, <1>6, <2>1, <2>2, <3>2 DEF ClientInv, ClientsHaveOwners
    <3>3. QED
      BY <3>1, <3>2
  <2>3. ASSUME NEW j \in Callers, NEW i \in Ids, calls'[j].stage = "returned",
               Present(i)', clusters'[i].client = calls'[j].client
        PROVE  i = calls'[j].id
    BY <1>2, <1>3, <2>3 DEF ClientInv, ClientsHaveOwners, Present
  <2>4. QED
    BY <2>2, <2>3 DEF ClientsHaveOwners
<1>13. TimesTellApart'
  <2>1. clusters[id].config.updated <= clock
    BY <1>1 DEF ClientInv, TimesTellApart
  <2>2. \A j \in Callers \ {k} : HasClient(j)' <=> HasClient(j)
    BY <1>2 DEF HasClient
  <2>3. ASSUME NEW a \in Admins, updates[a] # Nil, NEW j \in Callers, HasClient(j)'
        PROVE  calls'[j].cluster.updated # updates[a].config.updated
    <3>1. CASE j = k
      BY <1>1, <1>2, <2>3, <3>1 DEF ClientInv, TimesTellApart
    <3>2. CASE j # k
      BY <1>2, <2>2, <2>3, <3>2 DEF ClientInv, TimesTellApart
    <3>3. QED
      BY <3>1, <3>2
  <2>4. \A j \in Callers : HasClient(j)' => calls'[j].cluster.updated <= clock
    BY <1>2, <2>1, <2>2 DEF ClientInv, TimesTellApart
  <2>5. \A j \in Callers : calls'[j].stage = "attach" /\ Unchanged(j)' =>
            clusters'[calls'[j].id].config = calls'[j].cluster
    BY <1>2, <1>3 DEF ClientInv, TimesTellApart, Unchanged, Present
  <2>6. QED
    BY <1>3, <2>3, <2>4, <2>5 DEF ClientInv, TimesTellApart, Present
<1>14. QED
  BY <1>9, <1>10, <1>11, <1>12, <1>13 DEF ClientInv

LEMMA KVInv ==
    ASSUME RegTypeOK, ClientInv, KVNext
    PROVE  ClientInv'
<1>1. PICK k \in Callers :
          \/ \E id \in Ids :
                \/ FindClient(k, id)
                \/ \E client \in Clients : CreateClient(k, id, client)
          \/ FindFails(k) \/ AttachGone(k) \/ AttachStale(k)
          \/ AttachExisting(k) \/ AttachStore(k) \/ Finish(k)
  BY DEF KVNext
<1>2. CASE AttachExisting(k)
  <2>1. calls[k].id \in Ids
    BY <1>2, CallTyped DEF AttachExisting, HasClient
  <2>2. QED
    BY <1>2, <2>1, ReturnStoredInv
<1>3. QED
  BY <1>1, <1>2, ReturnStoredInv, CreateClientInv, CallEndsInv, AttachClosesInv,
     AttachStoreInv

(* A cluster is added, replaced or removed: its client is closed, and       *)
(* whatever is there now has a time no call has seen.                       *)
LEMMA ReplacedInv ==
    ASSUME RegTypeOK, RegTypeOK', ClientInv, NEW id \in Ids,
           NEW c \in Clients \cup {Nil}, Present(id) => clusters[id].client = c,
           ~Present(id) => c = Nil,
           \A i \in Ids \ {id} : clusters'[i] = clusters[i],
           Present(id)' =>
             /\ clusters'[id].client = Nil
             /\ \A j \in Callers : HasClient(j) =>
                   clusters'[id].config.updated # calls[j].cluster.updated,
           open' = open \ {c},
           UNCHANGED <<origin, calls, closing>>
    PROVE  /\ StoredClientIsCurrent' /\ NoClientLeaks'
           /\ RequestKeepsClient' /\ ClientsHaveOwners'
           /\ \A j \in Callers : calls'[j].stage = "attach" /\ Unchanged(j)' =>
                  clusters'[calls'[j].id].config = calls'[j].cluster
<1>1. \A i \in Ids : Present(i)' /\ clusters'[i].client # Nil =>
          i # id /\ Present(i) /\ clusters'[i] = clusters[i]
  BY DEF Present
<1>2. \A i \in Ids \ {id} : Present(i)' <=> Present(i)
  BY DEF Present
<1>3. \A i \in Ids \ {id} : Present(i) /\ clusters[i].client # Nil =>
          clusters[i].client # c
  BY DEF ClientInv, NoClientLeaks
<1>4. \A d : d \in Stored' <=> d \in Stored /\ d # c
  <2>1. ASSUME NEW d, d \in Stored'
        PROVE  d \in Stored /\ d # c
    BY <1>1, <1>3, <2>1, Members
  <2>2. ASSUME NEW d, d \in Stored, d # c
        PROVE  d \in Stored'
    <3>1. PICK i \in Ids : Present(i) /\ clusters[i].client = d /\ d # Nil
      BY <2>2, Members
    <3>2. i # id
      BY <2>2, <3>1
    <3>3. Present(i)' /\ clusters'[i].client = d
      BY <1>2, <3>1, <3>2
    <3>4. QED
      BY <3>1, <3>3, Members
  <2>3. QED
    BY <2>1, <2>2
<1>5. Attaching' = Attaching /\ InUse' = InUse
  BY DEF Attaching, InUse
<1>6. c # Nil => c \in Stored
  BY Members
<1>7. \A j \in Callers : calls[j].stage = "attach" => calls[j].client # c
  <2>1. SUFFICES ASSUME NEW j \in Callers, calls[j].stage = "attach"
                 PROVE  calls[j].client # c
    OBVIOUS
  <2>2. calls[j].client \in Clients /\ calls[j].client \notin Stored
    BY <2>1, CallTyped DEF ClientInv, ClientsHaveOwners, HasClient
  <2>3. QED
    BY <1>6, <2>2
<1>8. StoredClientIsCurrent'
  <2>1. SUFFICES ASSUME NEW i \in Ids, Present(i)', clusters'[i].client # Nil
                 PROVE  /\ origin'[clusters'[i].client] = clusters'[i].config
                        /\ closing' \/ clusters'[i].client \in open'
    BY DEF StoredClientIsCurrent
  <2>2. i # id /\ Present(i) /\ clusters'[i] = clusters[i]
    BY <1>1, <2>1
  <2>3. /\ origin[clusters[i].client] = clusters[i].config
        /\ closing \/ clusters[i].client \in open
    BY <2>1, <2>2 DEF ClientInv, StoredClientIsCurrent
  <2>4. clusters[i].client # c
    BY <1>3, <2>1, <2>2
  <2>5. QED
    BY <2>2, <2>3, <2>4
<1>9. NoClientLeaks'
  <2>1. ~closing' => open' = Stored' \cup Attaching'
    <3>1. \A d \in Attaching : d # c
      BY <1>7, Members
    <3>2. QED
      BY <1>4, <1>5, <3>1 DEF ClientInv, NoClientLeaks
  <2>2. \A i, j \in Ids :
            Present(i)' /\ Present(j)' /\ clusters'[i].client # Nil
              /\ clusters'[i].client = clusters'[j].client => i = j
    <3>1. SUFFICES ASSUME NEW i \in Ids, NEW j \in Ids, Present(i)', Present(j)',
                          clusters'[i].client # Nil,
                          clusters'[i].client = clusters'[j].client
                   PROVE  i = j
      OBVIOUS
    <3>2. /\ Present(i) /\ clusters'[i] = clusters[i]
          /\ Present(j) /\ clusters'[j] = clusters[j]
      BY <1>1, <3>1
    <3>3. QED
      BY <3>1, <3>2 DEF ClientInv, NoClientLeaks
  <2>3. QED
    BY <2>1, <2>2 DEF NoClientLeaks
<1>10. RequestKeepsClient'
  <2>1. SUFFICES ASSUME NEW j \in Callers, calls[j].stage = "returned"
                 PROVE  /\ origin[calls[j].client] = calls[j].cluster
                        /\ \/ calls[j].client \in open'
                           \/ closing
                           \/ clusters'[calls[j].id] = Nil
                           \/ clusters'[calls[j].id].config # calls[j].cluster
    BY DEF RequestKeepsClient, Present
  <2>2. calls[j].id \in Ids /\ HasClient(j) /\ calls[j].client \in Clients
    BY <2>1, CallTyped DEF HasClient
  <2>3. CASE calls[j].id = id
    <3>1. \/ clusters'[id] = Nil
          \/ clusters'[id].config.updated # calls[j].cluster.updated
      BY <2>2 DEF Present
    <3>2. QED
      BY <2>1, <2>3, <3>1 DEF ClientInv, RequestKeepsClient
  <2>4. CASE calls[j].id # id
    <3>1. calls[j].client # c
      BY <2>1, <2>2, <2>4 DEF ClientInv, ClientsHaveOwners
    <3>2. clusters'[calls[j].id] = clusters[calls[j].id]
      BY <2>2, <2>4
    <3>3. QED
      BY <2>1, <3>1, <3>2 DEF ClientInv, RequestKeepsClient, Present
  <2>5. QED
    BY <2>3, <2>4
<1>11. ClientsHaveOwners'
  <2>1. \A j \in Callers : calls[j].stage = "attach" =>
            calls[j].client \in open' /\ calls[j].client \notin Stored' \cup InUse'
    BY <1>4, <1>5, <1>7 DEF ClientInv, ClientsHaveOwners
  <2>2. \A j \in Callers, i \in Ids :
            calls[j].stage = "returned" /\ Present(i)'
              /\ clusters'[i].client = calls[j].client => i = calls[j].id
    <3>1. SUFFICES ASSUME NEW j \in Callers, NEW i \in Ids, Present(i)',
                          calls[j].stage = "returned",
                          clusters'[i].client = calls[j].client
                   PROVE  i = calls[j].id
      OBVIOUS
    <3>2. calls[j].client # Nil
      BY <3>1, CallTyped DEF HasClient
    <3>3. Present(i) /\ clusters'[i] = clusters[i]
      BY <1>1, <3>1, <3>2
    <3>4. QED
      BY <3>1, <3>3 DEF ClientInv, ClientsHaveOwners
  <2>3. QED
    BY <2>1, <2>2 DEF ClientInv, ClientsHaveOwners
<1>12. ASSUME NEW j \in Callers, calls'[j].stage = "attach", Unchanged(j)'
       PROVE  clusters'[calls'[j].id].config = calls'[j].cluster
  <2>1. calls[j].id \in Ids /\ HasClient(j)
    BY <1>12, CallTyped DEF HasClient
  <2>2. /\ clusters'[calls[j].id] # Nil
        /\ clusters'[calls[j].id].config.updated = calls[j].cluster.updated
    BY <1>12 DEF Unchanged, Present
  <2>3. calls[j].id # id
    BY <2>1, <2>2 DEF Present
  <2>4. QED
    BY <1>12, <2>1, <2>2, <2>3 DEF ClientInv, TimesTellApart, Unchanged, Present
<1>13. QED
  BY <1>8, <1>9, <1>10, <1>11, <1>12

(* A change that fails leaves clusters and clients as they are.             *)
LEMMA SameClientsInv ==
    ASSUME ClientInv, UNCHANGED <<clusters, open, origin, calls, closing>>
    PROVE  /\ StoredClientIsCurrent' /\ NoClientLeaks'
           /\ RequestKeepsClient' /\ ClientsHaveOwners'
           /\ \A j \in Callers : calls'[j].stage = "attach" /\ Unchanged(j)' =>
                  clusters'[calls'[j].id].config = calls'[j].cluster
<1>1. Stored' = Stored /\ Attaching' = Attaching /\ InUse' = InUse
  BY DEF Stored, Present, Attaching, InUse
<1>2. StoredClientIsCurrent' /\ NoClientLeaks'
  BY <1>1 DEF ClientInv, StoredClientIsCurrent, NoClientLeaks, Present
<1>3. RequestKeepsClient'
  BY DEF ClientInv, RequestKeepsClient, Present
<1>4. ClientsHaveOwners'
  BY <1>1 DEF ClientInv, ClientsHaveOwners, Present
<1>5. QED
  BY <1>2, <1>3, <1>4 DEF ClientInv, TimesTellApart, Unchanged, Present

(* The times of a map that is saved, or not.                                *)
LEMMA SavedTimes ==
    ASSUME RegTypeOK, ClientInv, NEW next \in [Ids -> Managed \cup {Nil}],
           NEW now \in Nat, clock <= now,
           \A i \in Ids : next[i] # Nil => next[i].config.updated <= now,
           Saved(next) \/ SaveFails(next)
    PROVE  \A i \in Ids : clusterFile'[i] # Nil => clusterFile'[i].updated <= now
<1>1. clusterFile' \in {clusterFile, Configs(next)}
  BY DEF Saved, SaveFails
<1>2. \A i \in Ids : Configs(next)[i] # Nil => Configs(next)[i].updated <= now
  BY ConfigsTyped
<1>3. \A i \in Ids : clusterFile[i] # Nil => clusterFile[i].updated <= now
  <2>1. \A i \in Ids : clusterFile[i] # Nil =>
            clusterFile[i].updated \in Nat /\ clusterFile[i].updated <= clock
    BY DEF RegTypeOK, Config, ClientInv, TimesTellApart
  <2>2. QED
    BY <2>1 DEF RegTypeOK
<1>4. QED
  BY <1>1, <1>2, <1>3

(* All times so far are numbers up to the last reading of the clock.        *)
LEMMA TimesSoFar ==
    ASSUME RegTypeOK, ClientInv
    PROVE  /\ clock \in Nat
           /\ \A i \in Ids : Present(i) =>
                 /\ clusters[i].config.updated \in Nat
                 /\ clusters[i].config.updated <= clock
           /\ \A k \in Callers : HasClient(k) =>
                 /\ calls[k].cluster.updated \in Nat
                 /\ calls[k].cluster.updated <= clock
           /\ \A a \in Admins : updates[a] # Nil =>
                 /\ updates[a].config.updated \in Nat
                 /\ updates[a].config.updated <= clock
<1>1. \A i \in Ids : Present(i) => clusters[i].config.updated \in Nat
  BY ClusterTyped DEF Config
<1>2. \A k \in Callers : HasClient(k) => calls[k].cluster.updated \in Nat
  BY CallTyped DEF Config
<1>3. \A a \in Admins : updates[a] # Nil => updates[a].config.updated \in Nat
  BY UpdateTyped DEF Config
<1>4. QED
  BY <1>1, <1>2, <1>3 DEF RegTypeOK, ClientInv, TimesTellApart

LEMMA CreateClusterInv ==
    ASSUME RegTypeOK, RegTypeOK', ClientInv, IdsAreDrawnOnce, NEW id \in Ids,
           NEW name \in Names, NEW password \in Passwords,
           CreateCluster(id, name, password)
    PROVE  ClientInv'
<1> DEFINE config == [name |-> name, password |-> password,
                      created |-> Now, updated |-> Now]
           next == [clusters EXCEPT ![id] = [config |-> config, client |-> Nil]]
<1>1. /\ UNCHANGED <<open, origin, calls, updates, closing>>
      /\ clock' = Now /\ Now \in Nat /\ clock < Now
  BY DEF CreateCluster, clientVars, Tick, Now, RegTypeOK
<1>2. ~Present(id)
  <2>1. id \notin used
    BY DEF CreateCluster, NewClusterID
  <2>2. QED
    BY <2>1, PresentMentioned DEF IdsAreDrawnOnce
<1>3. /\ next \in [Ids -> Managed \cup {Nil}]
      /\ \A i \in Ids \ {id} : next[i] = clusters[i]
      /\ next[id].config.updated = Now /\ next[id].client = Nil
  BY <1>1 DEF RegTypeOK, Managed, Config
<1>4. Saved(next) \/ SaveFails(next)
  BY DEF CreateCluster
<1> HIDE DEF next
<1>5. \A i \in Ids : next[i] # Nil => next[i].config.updated <= Now
  <2>1. \A i \in Ids \ {id} : next[i] # Nil => next[i].config.updated <= Now
    BY <1>1, <1>3, TimesSoFar DEF Present
  <2>2. QED
    BY <1>1, <1>3, <2>1
<1>6. \A i \in Ids : clusterFile'[i] # Nil => clusterFile'[i].updated <= clock'
  <2>1. clock <= Now
    BY <1>1 DEF RegTypeOK
  <2>2. \A i \in Ids : clusterFile'[i] # Nil => clusterFile'[i].updated <= Now
    BY <1>1, <1>3, <1>4, <1>5, <2>1, SavedTimes
  <2>3. QED
    BY <1>1, <2>2
<1>7. \A i \in Ids : clusters'[i] \in {clusters[i], next[i]}
  BY <1>4 DEF Saved, SaveFails
<1>8. /\ StoredClientIsCurrent' /\ NoClientLeaks'
      /\ RequestKeepsClient' /\ ClientsHaveOwners'
      /\ \A j \in Callers : calls'[j].stage = "attach" /\ Unchanged(j)' =>
             clusters'[calls'[j].id].config = calls'[j].cluster
  <2>1. CASE SaveFails(next)
    BY <1>1, <2>1, SameClientsInv DEF SaveFails
  <2>2. CASE Saved(next)
    <3>1. clusters' = next
      BY <2>2 DEF Saved
    <3>2. \A j \in Callers : HasClient(j) => Now # calls[j].cluster.updated
      BY <1>1, TimesSoFar
    <3>3. open' = open \ {Nil}
      BY <1>1 DEF RegTypeOK
    <3>4. /\ \A i \in Ids \ {id} : clusters'[i] = clusters[i]
          /\ clusters'[id].client = Nil
          /\ \A j \in Callers : HasClient(j) =>
                clusters'[id].config.updated # calls[j].cluster.updated
      BY <1>3, <3>1, <3>2
    <3>5. QED
      BY <1>1, <1>2, <3>3, <3>4, ReplacedInv
  <2>3. QED
    BY <1>4, <2>1, <2>2
<1>9. TimesTellApart'
  <2>1. \A i \in Ids : Present(i)' => clusters'[i].config.updated <= clock'
    BY <1>1, <1>5, <1>7, TimesSoFar DEF Present
  <2>2. \A k \in Callers : HasClient(k)' => calls'[k].cluster.updated <= clock'
    BY <1>1, TimesSoFar DEF HasClient
  <2>3. ASSUME NEW a \in Admins, updates'[a] # Nil
        PROVE  /\ updates'[a].config.updated <= clock'
               /\ \A i \in Ids : Present(i)' =>
                     clusters'[i].config.updated # updates'[a].config.updated
               /\ \A k \in Callers : HasClient(k)' =>
                     calls'[k].cluster.updated # updates'[a].config.updated
               /\ \A b \in Admins \ {a} : updates'[b] # Nil =>
                     updates'[b].config.updated # updates'[a].config.updated
    <3>1. updates[a].config.updated \in Nat /\ updates[a].config.updated <= clock
      BY <1>1, <2>3, TimesSoFar
    <3>2. \A i \in Ids : Present(i)' =>
              clusters'[i].config.updated # updates[a].config.updated
      <4>1. SUFFICES ASSUME NEW i \in Ids, Present(i)'
                     PROVE  clusters'[i].config.updated # updates[a].config.updated
        OBVIOUS
      <4>2. CASE clusters'[i] = clusters[i]
        BY <1>1, <2>3, <4>1, <4>2 DEF Present, ClientInv, TimesTellApart
      <4>3. CASE i = id /\ clusters'[i] = next[i]
        <5>1. clusters'[i].config.updated = Now
          BY <1>3, <4>3
        <5>2. QED
          BY <1>1, <3>1, <5>1, TimesSoFar
      <4>4. QED
        BY <1>3, <1>7, <4>2, <4>3
    <3>3. QED
      BY <1>1, <2>3, <3>1, <3>2, TimesSoFar
         DEF ClientInv, TimesTellApart, HasClient
  <2>4. QED
    BY <1>6, <1>8, <2>1, <2>2, <2>3 DEF TimesTellApart
<1>10. QED
  BY <1>8, <1>9 DEF ClientInv

LEMMA UpdateBeginInv ==
    ASSUME RegTypeOK, ClientInv, NEW a \in Admins, NEW id \in Ids,
           NEW name \in Names, NEW given \in Passwords \cup {Nil},
           UpdateBegin(a, id, name, given)
    PROVE  ClientInv'
<1>1. /\ UNCHANGED <<clusters, clusterFile, open, origin, calls, closing>>
      /\ clock' = Now /\ Now \in Nat /\ clock < Now
  BY DEF UpdateBegin, clientVars, Tick, Now, RegTypeOK
<1>2. /\ updates'[a].config.updated = Now
      /\ \A b \in Admins \ {a} : updates'[b] = updates[b]
  <2>1. clusters[id].config \in Config
    BY ClusterTyped DEF UpdateBegin
  <2>2. QED
    BY <2>1 DEF UpdateBegin, RegTypeOK, Config
<1>3. /\ StoredClientIsCurrent' /\ NoClientLeaks'
      /\ RequestKeepsClient' /\ ClientsHaveOwners'
      /\ \A j \in Callers : calls'[j].stage = "attach" /\ Unchanged(j)' =>
             clusters'[calls'[j].id].config = calls'[j].cluster
  BY <1>1, SameClientsInv
<1>4. /\ \A i \in Ids : Present(i)' => clusters'[i].config.updated <= clock'
      /\ \A k \in Callers : HasClient(k)' => calls'[k].cluster.updated <= clock'
  BY <1>1, TimesSoFar DEF Present, HasClient
<1>5. \A i \in Ids : clusterFile'[i] # Nil => clusterFile'[i].updated <= clock'
  <2>1. \A i \in Ids : clusterFile[i] # Nil => clusterFile[i].updated \in Nat
    BY DEF RegTypeOK, Config
  <2>2. QED
    BY <1>1, <2>1, TimesSoFar DEF ClientInv, TimesTellApart
<1>6. ASSUME NEW b \in Admins, updates'[b] # Nil
      PROVE  /\ updates'[b].config.updated <= clock'
             /\ \A i \in Ids : Present(i)' =>
                   clusters'[i].config.updated # updates'[b].config.updated
             /\ \A k \in Callers : HasClient(k)' =>
                   calls'[k].cluster.updated # updates'[b].config.updated
             /\ \A d \in Admins \ {b} : updates'[d] # Nil =>
                   updates'[d].config.updated # updates'[b].config.updated
  <2>1. CASE b = a
    BY <1>1, <1>2, <2>1, TimesSoFar DEF Present, HasClient
  <2>2. CASE b # a
    <3>1. updates'[b] = updates[b]
      BY <1>2, <2>2
    <3>2. updates[b].config.updated \in Nat /\ updates[b].config.updated <= clock
      BY <1>6, <3>1, TimesSoFar
    <3>3. \A d \in Admins \ {b} : updates'[d] # Nil =>
              updates'[d].config.updated # updates[b].config.updated
      BY <1>1, <1>2, <1>6, <3>1, <3>2, TimesSoFar DEF ClientInv, TimesTellApart
    <3>4. QED
      BY <1>1, <1>6, <3>1, <3>2, <3>3, TimesSoFar
         DEF ClientInv, TimesTellApart, Present, HasClient
  <2>3. QED
    BY <2>1, <2>2
<1>7. TimesTellApart'
  BY <1>3, <1>4, <1>5, <1>6 DEF TimesTellApart
<1>8. QED
  BY <1>3, <1>7 DEF ClientInv

LEMMA UpdateEndsInv ==
    ASSUME RegTypeOK, RegTypeOK', ClientInv, NEW a \in Admins,
           UpdateStore(a) \/ UpdateSaveFails(a) \/ UpdateRefused(a)
    PROVE  ClientInv'
<1> DEFINE id == updates[a].id
           time == updates[a].config.updated
<1>1. /\ updates[a] # Nil /\ id \in Ids /\ updates[a].config \in Config
      /\ time \in Nat /\ time <= clock /\ clock \in Nat
  BY UpdateTyped, TimesSoFar DEF UpdateStore, UpdateSaveFails, UpdateRefused
<1>2. /\ UNCHANGED <<clock, origin, calls, closing>>
      /\ updates'[a] = Nil
      /\ \A b \in Admins \ {a} : updates'[b] = updates[b]
  BY DEF UpdateStore, UpdateSaveFails, UpdateRefused, clientVars, RegTypeOK
<1>3. /\ UpdateStored(a) \in [Ids -> Managed \cup {Nil}]
      /\ \A i \in Ids \ {id} : UpdateStored(a)[i] = clusters[i]
      /\ UpdateStored(a)[id] = [config |-> updates[a].config, client |-> Nil]
  BY <1>1, UpdateStoredTyped DEF UpdateStored, RegTypeOK
<1>4. \A i \in Ids : UpdateStored(a)[i] # Nil =>
          UpdateStored(a)[i].config.updated <= clock
  BY <1>1, <1>3, TimesSoFar DEF Present
<1>5. \/ UpdateRefused(a)
      \/ Saved(UpdateStored(a)) \/ SaveFails(UpdateStored(a))
  BY DEF UpdateStore, UpdateSaveFails
<1>6. \A i \in Ids : clusterFile'[i] # Nil => clusterFile'[i].updated <= clock'
  <2>1. CASE UpdateRefused(a)
    BY <1>2, <2>1 DEF UpdateRefused, ClientInv, TimesTellApart
  <2>2. CASE Saved(UpdateStored(a)) \/ SaveFails(UpdateStored(a))
    BY <1>1, <1>2, <1>3, <1>4, <2>2, SavedTimes
  <2>3. QED
    BY <1>5, <2>1, <2>2
<1>7. clusters' \in {clusters, UpdateStored(a)}
  BY DEF UpdateStore, UpdateSaveFails, UpdateRefused, Saved, SaveFails
<1>8. /\ StoredClientIsCurrent' /\ NoClientLeaks'
      /\ RequestKeepsClient' /\ ClientsHaveOwners'
      /\ \A j \in Callers : calls'[j].stage = "attach" /\ Unchanged(j)' =>
             clusters'[calls'[j].id].config = calls'[j].cluster
  <2>1. CASE UpdateSaveFails(a) \/ UpdateRefused(a)
    BY <1>2, <2>1, SameClientsInv
       DEF UpdateSaveFails, UpdateRefused, SaveFails, clientVars
  <2>2. CASE UpdateStore(a)
    <3>1. /\ clusters' = UpdateStored(a) /\ Present(id)
          /\ open' = open \ {clusters[id].client}
      BY <2>2 DEF UpdateStore, Saved, UpdateAllowed, CloseClient
    <3>2. \A j \in Callers : HasClient(j) => calls[j].cluster.updated # time
      BY <1>1 DEF ClientInv, TimesTellApart
    <3>3. /\ \A i \in Ids \ {id} : clusters'[i] = clusters[i]
          /\ clusters'[id].client = Nil
          /\ \A j \in Callers : HasClient(j) =>
                clusters'[id].config.updated # calls[j].cluster.updated
      BY <1>3, <3>1, <3>2
    <3>4. clusters[id].client \in Clients \cup {Nil}
      BY <1>1, <3>1, ClusterTyped
    <3> HIDE DEF id
    <3>5. QED
      BY <1>1, <1>2, <3>1, <3>3, <3>4, ReplacedInv
  <2>3. QED
    BY <2>1, <2>2
<1>9. TimesTellApart'
  <2>1. \A i \in Ids : Present(i)' => clusters'[i].config.updated <= clock'
    BY <1>2, <1>4, <1>7, TimesSoFar DEF Present
  <2>2. \A k \in Callers : HasClient(k)' => calls'[k].cluster.updated <= clock'
    BY <1>2, TimesSoFar DEF HasClient
  <2>3. ASSUME NEW b \in Admins, updates'[b] # Nil
        PROVE  /\ updates'[b].config.updated <= clock'
               /\ \A i \in Ids : Present(i)' =>
                     clusters'[i].config.updated # updates'[b].config.updated
               /\ \A k \in Callers : HasClient(k)' =>
                     calls'[k].cluster.updated # updates'[b].config.updated
               /\ \A d \in Admins \ {b} : updates'[d] # Nil =>
                     updates'[d].config.updated # updates'[b].config.updated
    <3>1. b # a /\ updates'[b] = updates[b] /\ updates[b] # Nil
      BY <1>2, <2>3
    <3>2. updates[b].config.updated # time
      BY <1>1, <3>1 DEF ClientInv, TimesTellApart
    <3>3. \A i \in Ids : Present(i)' =>
              clusters'[i].config.updated # updates[b].config.updated
      <4>1. SUFFICES ASSUME NEW i \in Ids, Present(i)'
                     PROVE  clusters'[i].config.updated # updates[b].config.updated
        OBVIOUS
      <4>2. CASE clusters'[i] = clusters[i]
        BY <3>1, <4>1, <4>2 DEF Present, ClientInv, TimesTellApart
      <4>3. CASE i = id /\ clusters'[i] = UpdateStored(a)[i]
        BY <1>3, <3>2, <4>3
      <4>4. QED
        BY <1>3, <1>7, <4>2, <4>3
    <3>4. \A d \in Admins \ {b} : updates'[d] # Nil =>
              updates'[d].config.updated # updates[b].config.updated
      BY <1>2, <3>1 DEF ClientInv, TimesTellApart
    <3>5. QED
      BY <1>2, <3>1, <3>3, <3>4 DEF ClientInv, TimesTellApart, HasClient
  <2>4. QED
    BY <1>6, <1>8, <2>1, <2>2, <2>3 DEF TimesTellApart
<1>10. QED
  BY <1>8, <1>9 DEF ClientInv

LEMMA DeleteInv ==
    ASSUME RegTypeOK, RegTypeOK', ClientInv, NEW id \in Ids,
           DeleteCluster(id) \/ DeleteSaveFails(id)
    PROVE  ClientInv'
<1> DEFINE next == [clusters EXCEPT ![id] = Nil]
<1>1. /\ UNCHANGED <<clock, origin, calls, updates, closing>> /\ Present(id)
      /\ Saved(next) \/ SaveFails(next)
  BY DEF DeleteCluster, DeleteSaveFails, clientVars
<1>2. /\ next \in [Ids -> Managed \cup {Nil}] /\ next[id] = Nil
      /\ \A i \in Ids \ {id} : next[i] = clusters[i]
  BY DEF RegTypeOK
<1>3. \A i \in Ids : clusters'[i] \in {clusters[i], Nil}
  BY <1>1, <1>2 DEF Saved, SaveFails
<1> HIDE DEF next
<1>4. \A i \in Ids : clusterFile'[i] # Nil => clusterFile'[i].updated <= clock'
  <2>1. /\ clock \in Nat /\ clock <= clock
        /\ \A i \in Ids : next[i] # Nil => next[i].config.updated <= clock
    BY <1>2, TimesSoFar DEF Present
  <2>2. \A i \in Ids : clusterFile'[i] # Nil => clusterFile'[i].updated <= clock
    BY <1>1, <1>2, <2>1, SavedTimes
  <2>3. QED
    BY <1>1, <2>2
<1>5. /\ StoredClientIsCurrent' /\ NoClientLeaks'
      /\ RequestKeepsClient' /\ ClientsHaveOwners'
      /\ \A j \in Callers : calls'[j].stage = "attach" /\ Unchanged(j)' =>
             clusters'[calls'[j].id].config = calls'[j].cluster
  <2>1. CASE DeleteSaveFails(id)
    BY <1>1, <2>1, SameClientsInv DEF DeleteSaveFails, SaveFails, clientVars
  <2>2. CASE DeleteCluster(id)
    <3>1. /\ clusters' = next /\ open' = open \ {clusters[id].client}
      BY <2>2 DEF DeleteCluster, Saved, CloseClient, next
    <3>2. clusters[id].client \in Clients \cup {Nil}
      BY <1>1, ClusterTyped
    <3>3. clusters'[id] = Nil /\ \A i \in Ids \ {id} : clusters'[i] = clusters[i]
      BY <1>2, <3>1
    <3>4. ~Present(id)'
      BY <3>3 DEF Present
    <3>5. QED
      BY <1>1, <3>1, <3>2, <3>3, <3>4, ReplacedInv
  <2>3. QED
    BY <2>1, <2>2
<1>6. TimesTellApart'
  <2>1. \A i \in Ids : Present(i)' => Present(i) /\ clusters'[i] = clusters[i]
    BY <1>3 DEF Present
  <2>2. QED
    BY <1>1, <1>4, <1>5, <2>1 DEF ClientInv, TimesTellApart, HasClient
<1>7. QED
  BY <1>5, <1>6 DEF ClientInv

LEMMA CloseInv ==
    ASSUME RegTypeOK, ClientInv, Close
    PROVE  ClientInv'
<1>1. /\ UNCHANGED <<clusters, clusterFile, clock, origin, calls, updates>>
      /\ closing' /\ open' = open \ Stored
  BY DEF Close
<1>2. Stored' = Stored /\ InUse' = InUse
  BY <1>1 DEF Stored, Present, InUse
<1>3. StoredClientIsCurrent' /\ NoClientLeaks'
  BY <1>1 DEF ClientInv, StoredClientIsCurrent, NoClientLeaks, Present
<1>4. RequestKeepsClient'
  BY <1>1 DEF ClientInv, RequestKeepsClient
<1>5. ClientsHaveOwners'
  BY <1>1, <1>2 DEF ClientInv, ClientsHaveOwners, Present
<1>6. TimesTellApart'
  BY <1>1 DEF ClientInv, TimesTellApart, Present, HasClient, Unchanged
<1>7. QED
  BY <1>3, <1>4, <1>5, <1>6 DEF ClientInv

LEMMA RestartInv ==
    ASSUME RegTypeOK, ClientInv, Restart
    PROVE  ClientInv'
<1>1. /\ \A i \in Ids : clusterFile[i] = Nil => clusters'[i] = Nil
      /\ \A i \in Ids : clusterFile[i] # Nil =>
            clusters'[i] = [config |-> clusterFile[i], client |-> Nil]
  BY DEF Restart
<1>2. \A i \in Ids : Present(i)' =>
          /\ clusters'[i].client = Nil
          /\ clusterFile[i] # Nil /\ clusters'[i].config = clusterFile[i]
  <2>1. SUFFICES ASSUME NEW i \in Ids, clusters'[i] # Nil
                 PROVE  /\ clusters'[i].client = Nil
                        /\ clusterFile[i] # Nil
                        /\ clusters'[i].config = clusterFile[i]
    BY DEF Present
  <2>2. clusters'[i] = [config |-> clusterFile[i], client |-> Nil]
    BY <1>1, <2>1
  <2>3. QED
    BY <1>1, <2>1, <2>2
<1>3. /\ open' = {} /\ UNCHANGED <<clusterFile, clock>>
      /\ \A k \in Callers : calls'[k].stage = "idle"
      /\ \A a \in Admins : updates'[a] = Nil
  BY DEF Restart, Idle
<1>4. \A c : c \notin Stored' /\ c \notin Attaching'
  BY <1>2, <1>3, Members
<1>5. StoredClientIsCurrent'
  BY <1>2 DEF StoredClientIsCurrent
<1>6. NoClientLeaks'
  BY <1>2, <1>3, <1>4 DEF NoClientLeaks
<1>7. RequestKeepsClient' /\ ClientsHaveOwners'
  BY <1>3 DEF RequestKeepsClient, ClientsHaveOwners
<1>8. TimesTellApart'
  BY <1>2, <1>3 DEF ClientInv, TimesTellApart, HasClient
<1>9. QED
  BY <1>5, <1>6, <1>7, <1>8 DEF ClientInv

LEMMA ClientsPreserved ==
    ASSUME RegTypeOK, RegTypeOK', ClientInv, IdsAreDrawnOnce,
           Edits \/ Deletes \/ Restart \/ UNCHANGED regVars
    PROVE  ClientInv'
<1>1. CASE EditNext
  BY <1>1, CreateClusterInv, UpdateBeginInv, UpdateEndsInv DEF EditNext
<1>2. CASE UNCHANGED regVars
  <2>1. UNCHANGED <<clusters, clusterFile, clock, open, origin, calls, updates,
                    closing>>
    BY <1>2 DEF regVars, clientVars
  <2>2. /\ StoredClientIsCurrent' /\ NoClientLeaks'
        /\ RequestKeepsClient' /\ ClientsHaveOwners'
    BY <2>1, SameClientsInv
  <2>3. TimesTellApart'
    BY <2>1 DEF ClientInv, TimesTellApart, Present, HasClient, Unchanged
  <2>4. QED
    BY <2>2, <2>3 DEF ClientInv
<1>3. QED
  BY <1>1, <1>2, KVInv, DeleteInv, CloseInv, RestartInv DEF Edits, Deletes

-----------------------------------------------------------------------------
(* The theorems.                                                            *)

LEMMA CAInitInv ==
    ASSUME CAInit
    PROVE  CAInv
<1>1. CATypeOK
  BY DEF CAInit, RegInit, CATypeOK, RegTypeOK, Call
<1>2. /\ \A i \in Ids : ~Present(i) /\ clusterFile[i] = Nil
      /\ \A k \in Callers : calls[k].stage = "idle"
      /\ \A a \in Admins : updates[a] = Nil
      /\ open = {}
  BY DEF CAInit, RegInit, Present, Idle
<1>3. \A c : c \notin Stored /\ c \notin Attaching
  BY <1>2, Members
<1>4. ClientInv
  BY <1>2, <1>3 DEF ClientInv, StoredClientIsCurrent, NoClientLeaks,
                    RequestKeepsClient, ClientsHaveOwners, TimesTellApart, HasClient
<1>5. NamesAreUnique
  BY <1>2 DEF NamesAreUnique, Configs, Present
<1>6. Mentions = {}
  <2>1. MentionedIn(Configs(clusters)) = {} /\ MentionedIn(clusterFile) = {}
    BY <1>2 DEF MentionedIn, Configs, Present
  <2>2. OfUpdates = {} /\ OfGrants = {} /\ OfGranting = {}
    BY <1>2 DEF OfUpdates, OfGrants, OfGranting, CAInit
  <2>3. QED
    BY <2>1, <2>2 DEF Mentions
<1>7. QED
  BY <1>1, <1>4, <1>5, <1>6 DEF CAInv, IdsAreDrawnOnce

(* The invariant holds in every reachable state: however many callers       *)
(* create clients while administrators update and delete clusters, with     *)
(* failing writes and restarts.                                             *)
THEOREM ClusterInvariance == CASpec => []CAInv
<1>1. CAInit => CAInv
  BY CAInitInv
<1>2. ASSUME CAInv, [CANext]_caVars
      PROVE  CAInv'
  <2>1. CATypeOK' /\ RegTypeOK /\ RegTypeOK'
    BY <1>2, TypesPreserved DEF CAInv, CATypeOK
  <2>2. Edits \/ Deletes \/ Restart \/ UNCHANGED regVars
    BY <1>2, RegistrySteps
  <2>3. ClientInv'
    BY <1>2, <2>1, <2>2, ClientsPreserved DEF CAInv
  <2>4. NamesAreUnique'
    BY <1>2, <2>1, <2>2, NamesPreserved DEF CAInv
  <2>5. IdsAreDrawnOnce'
    BY <1>2, IdsPreserved DEF CAInv
  <2>6. QED
    BY <2>1, <2>3, <2>4, <2>5 DEF CAInv
<1>3. QED
  BY <1>1, <1>2, PTL DEF CASpec

(* The handlers and the registry keep to their types.                       *)
THEOREM ClusterTypeCorrect == CASpec => []CATypeOK
<1>1. CAInv => CATypeOK
  BY DEF CAInv
<1>2. QED
  BY <1>1, ClusterInvariance, PTL

(* ClusterKV never stores a client of settings that have been replaced.     *)
THEOREM StoredClientsAreCurrent == CASpec => []StoredClientIsCurrent
<1>1. CAInv => StoredClientIsCurrent
  BY DEF CAInv, ClientInv
<1>2. QED
  BY <1>1, ClusterInvariance, PTL

(* Whoever creates, stores or replaces a client, none stays open unowned.   *)
THEOREM NoClientIsLeaked == CASpec => []NoClientLeaks
<1>1. CAInv => NoClientLeaks
  BY DEF CAInv, ClientInv
<1>2. QED
  BY <1>1, ClusterInvariance, PTL

(* A request's client is closed under it only by a change of its cluster or *)
(* the end of the process.                                                  *)
THEOREM RequestsKeepClients == CASpec => []RequestKeepsClient
<1>1. CAInv => RequestKeepsClient
  BY DEF CAInv, ClientInv
<1>2. QED
  BY <1>1, ClusterInvariance, PTL

(* Overlapping updates and failed writes never produce a second cluster of  *)
(* one name, in memory or in the file.                                      *)
THEOREM NamesStayUnique == CASpec => []NamesAreUnique
<1>1. CAInv => NamesAreUnique
  BY DEF CAInv
<1>2. QED
  BY <1>1, ClusterInvariance, PTL

(* No grant, however late it is stored or removed, opens another cluster.   *)
THEOREM GrantsKeepTheirMeaning == CASpec => []GrantsOpenTheChosen
<1>1. ASSUME CAInv
      PROVE  GrantsOpenTheChosen
  <2>1. SUFFICES ASSUME NEW o \in Operators, NEW g \in grants[o] \cup grantFile[o],
                        Present(g.id)
                 PROVE  clusters[g.id].config.created = g.created
    BY DEF GrantsOpenTheChosen
  <2>2. g \in Grant /\ g.id \in Ids
    BY <1>1 DEF CAInv, CATypeOK, Grant
  <2>3. g \in Mentions
    BY MentionParts DEF OfGrants
  <2>4. [id |-> g.id, created |-> clusters[g.id].config.created] \in Mentions
    BY <1>1, <2>1, <2>2, PresentMentioned DEF CAInv, CATypeOK
  <2>5. g = [id |-> g.id, created |-> clusters[g.id].config.created]
    BY <1>1, <2>3, <2>4 DEF CAInv, IdsAreDrawnOnce
  <2>6. QED
    BY <2>5
<1>2. QED
  BY <1>1, ClusterInvariance, PTL

=============================================================================
