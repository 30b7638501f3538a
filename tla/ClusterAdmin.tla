---------------------------- MODULE ClusterAdmin ----------------------------
(***************************************************************************)
(* Deleting clusters and granting them to operators: the handlers that     *)
(* change both store.Registry and auth.Manager, which share no lock.       *)
(* handleDeleteCluster deletes the cluster and then takes it away from     *)
(* every account; handleCreateUser and handleUpdateUser check that the     *)
(* clusters exist and then store them with the account.                    *)
(*                                                                         *)
(* Accounts are reduced to the clusters they grant; AuthManager models the *)
(* rest.  Next to the id, which is all the code stores, a grant remembers  *)
(* when the cluster the administrator chose was created.                   *)
(***************************************************************************)
EXTENDS Registry

CONSTANTS
    Operators,   \* accounts of operators
    GrantFaults  \* whether writing AUTH_FILE may fail

ASSUME GrantAssumption == GrantFaults \in BOOLEAN /\ Nil \notin Ids

VARIABLES
    grants,     \* ClusterIDs of each account
    grantFile,  \* the same in AUTH_FILE
    granting,   \* what an account is about to be given, already checked
    removing    \* a deleted cluster that accounts may still have

grantVars == <<grants, grantFile, granting, removing>>
caVars == <<regVars, grantVars>>

Grant == [id : Ids, created : Nat]

ASSUME GrantNil ==
    Nil \notin [operator : Operators, chosen : SUBSET Grant]

CATypeOK ==
    /\ RegTypeOK
    /\ grants \in [Operators -> SUBSET Grant]
    /\ grantFile \in [Operators -> SUBSET Grant]
    /\ granting \in [Admins -> [operator : Operators, chosen : SUBSET Grant]
                                 \cup {Nil}]
    /\ removing \in [Admins -> Ids \cup {Nil}]

CAInit ==
    /\ RegInit
    /\ grants = [o \in Operators |-> {}]
    /\ grantFile = [o \in Operators |-> {}]
    /\ granting = [a \in Admins |-> Nil]
    /\ removing = [a \in Admins |-> Nil]

-----------------------------------------------------------------------------
(* Manager.saveLocked: as in AuthManager, either everywhere, or the memory  *)
(* is put back and the file holds the one or the other.                     *)
SaveGrants(next) ==
    \/ grants' = next /\ grantFile' = next
    \/ /\ GrantFaults
       /\ grantFile' \in {grantFile, next}
       /\ UNCHANGED grants

(* validateUserClusterPermissions: every chosen cluster is in ListClusters. *)
Chosen(ids) == {[id |-> i, created |-> clusters[i].config.created] : i \in ids}

ValidateGrants(a, o, ids) ==
    /\ granting[a] = Nil
    /\ \A i \in ids : Present(i)
    /\ granting' = [granting EXCEPT ![a] =
          [operator |-> o, chosen |-> Chosen(ids)]]
    /\ UNCHANGED <<regVars, grants, grantFile, removing>>

(* CreateUser or UpdateUser, which do not look at the clusters again.       *)
StoreGrants(a) ==
    /\ granting[a] # Nil
    /\ SaveGrants([grants EXCEPT ![granting[a].operator] = granting[a].chosen])
    /\ granting' = [granting EXCEPT ![a] = Nil]
    /\ UNCHANGED <<regVars, removing>>

-----------------------------------------------------------------------------
(* handleDeleteCluster, as far as DeleteCluster.  An error ends it: one of  *)
(* writing the file, and also one of closing the client of a cluster that   *)
(* is already deleted.                                                      *)
HandleDelete(a, id) ==
    /\ removing[a] = Nil
    /\ \/ /\ DeleteCluster(id)
          /\ removing' = [removing EXCEPT ![a] = id]
       \/ /\ DeleteCluster(id) /\ clusters[id].client # Nil
          /\ UNCHANGED removing
       \/ /\ DeleteSaveFails(id)
          /\ UNCHANGED removing
    /\ UNCHANGED <<grants, grantFile, granting>>

WithoutCluster(id) ==
    [o \in Operators |-> {g \in grants[o] : g.id # id}]

(* RemoveClusterPermissions.  An error is logged and nothing else.          *)
RemoveClusterPermissions(a) ==
    /\ removing[a] # Nil
    /\ LET next == WithoutCluster(removing[a]) IN
       \/ next = grants /\ UNCHANGED <<grants, grantFile>>
       \/ next # grants /\ SaveGrants(next)
    /\ removing' = [removing EXCEPT ![a] = Nil]
    /\ UNCHANGED <<regVars, granting>>

(* Both files are loaded again.                                             *)
RestartAll ==
    /\ Restart
    /\ grants' = grantFile
    /\ granting' = [a \in Admins |-> Nil]
    /\ removing' = [a \in Admins |-> Nil]
    /\ UNCHANGED grantFile

-----------------------------------------------------------------------------
CANext ==
    \/ (KVNext \/ EditNext \/ Close) /\ UNCHANGED grantVars
    \/ \E a \in Admins :
          \/ \E o \in Operators, ids \in SUBSET Ids : ValidateGrants(a, o, ids)
          \/ StoreGrants(a)
          \/ \E id \in Ids : HandleDelete(a, id)
          \/ RemoveClusterPermissions(a)
    \/ RestartAll

CASpec == CAInit /\ [][CANext]_caVars

-----------------------------------------------------------------------------
(* A grant opens only the cluster the administrator chose.  Grants to       *)
(* deleted clusters do remain: when removing them fails, when the process   *)
(* ends first, when the grant was checked before the deletion and stored    *)
(* after it.  But the id they name never becomes that of another cluster.   *)
GrantsOpenTheChosen ==
    \A o \in Operators : \A g \in grants[o] \cup grantFile[o] :
        Present(g.id) => clusters[g.id].config.created = g.created

-----------------------------------------------------------------------------
(* Why a grant cannot change its meaning: every id that is stored anywhere  *)
(* was drawn once, so that all who mention it mean the same creation.       *)
MentionedIn(map) ==
    {[id |-> i, created |-> map[i].created] : i \in {j \in Ids : map[j] # Nil}}

OfUpdates ==
    {[id |-> updates[a].id, created |-> updates[a].config.created] :
        a \in {b \in Admins : updates[b] # Nil}}

OfGrants == UNION {grants[o] \cup grantFile[o] : o \in Operators}

OfGranting ==
    UNION {granting[a].chosen : a \in {b \in Admins : granting[b] # Nil}}

Mentions ==
    MentionedIn(Configs(clusters)) \cup MentionedIn(clusterFile)
        \cup OfUpdates \cup OfGrants \cup OfGranting

IdsAreDrawnOnce ==
    /\ \A m \in Mentions : m.id \in used
    /\ \A m, n \in Mentions : m.id = n.id => m = n

CAInv ==
    /\ CATypeOK
    /\ ClientInv
    /\ NamesAreUnique
    /\ IdsAreDrawnOnce
=============================================================================
