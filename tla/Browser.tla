------------------------------ MODULE Browser ------------------------------
(***************************************************************************)
(* The key editor of the page, internal/app/web/app.js: which cluster,     *)
(* which key list and which key it shows, the requests that are under way, *)
(* and what the user's actions send when answers come late.                *)
(*                                                                         *)
(* JavaScript runs one task at a time: a handler runs to its next `await`, *)
(* so an action is a click, or the answer of one request together with the *)
(* code that awaited it.  The script's functions are operators from page   *)
(* to page.  `page` is `state` with the parts of the document that decide  *)
(* what can be clicked; request ids and the identity of rollbackContext    *)
(* are the flag `latest` of a request: what was compared with the current  *)
(* id or context still equals it.                                          *)
(*                                                                         *)
(* A detail record keeps the cluster it was read from, a field the answer  *)
(* has not: it serves the properties.  Server, clusters and keys are left  *)
(* open: any answer may come.  Keys are UTF-8, so that the key a new       *)
(* entry's field shows and the key encoded from it are the same.           *)
(***************************************************************************)
EXTENDS Naturals

CONSTANTS
    Clusters,       \* cluster ids
    Keys,           \* keys, in Base64 or not
    Nil,            \* null, "" and absent
    MaxRevision,    \* bound on mod revisions
    Slots           \* bound: a place for each request under way

ASSUME BrowserAssumption ==
    /\ Nil \notin Clusters \cup Keys \cup Nat
    /\ MaxRevision \in Nat \ {0}

VARIABLE page

Revisions == 1..MaxRevision
Detail == [cluster : Clusters, key : Keys, mod : Revisions]

(***************************************************************************)
(* Requests under way.  `then` names the function that awaits a list or a  *)
(* key, `by` the one that awaits versions or a preview: previewRollback    *)
(* ("open") or a click in its dialog ("user").  The fields from, named,    *)
(* confirmed and preview record what the user saw, for the properties.     *)
(***************************************************************************)
Call ==
    [fn : {"list"}, cluster : Clusters, latest : BOOLEAN, arg : Keys \cup {Nil},
     then : {"", "save", "rollback", "delete", "refresh"}]
      \cup
    [fn : {"load"}, cluster : Clusters, key : Keys, latest : BOOLEAN,
     then : {"", "save", "rollback"}]
      \cup
    [fn : {"put"}, cluster : Clusters, key : Keys, mod : 0..MaxRevision,
     from : Detail \cup {Nil}]
      \cup
    [fn : {"delete"}, cluster : Clusters, key : Keys, mod : Revisions, from : Detail,
     named : Detail, confirmed : BOOLEAN]
      \cup
    [fn : {"versions"}, key : Keys, mod : Revisions, latest : BOOLEAN, by : {"open", "user"}]
      \cup
    [fn : {"preview"}, target : Revisions, latest : BOOLEAN, by : {"open", "user"}]
      \cup
    [fn : {"rollback"}, cluster : Clusters, key : Keys, mod : Revisions,
     target : Revisions, from : Detail, preview : Revisions \cup {Nil}]

Context ==
    [cluster : Clusters, key : Keys, mod : Revisions, from : Detail,
     target : Revisions \cup {Nil}, listed : BOOLEAN]

Page ==
    [cluster : Clusters \cup {Nil},       \* selectedClusterId
     items : Clusters \cup {Nil},         \* the cluster the listed items came from
     covered : BOOLEAN,                   \* listState lies over the list
     selected : Detail \cup {Nil},
     creating : BOOLEAN,
     filled : Detail \cup {Nil},          \* the detail the editor's fields show
     saving : BOOLEAN,
     dialog : {"none", "delete", "rollback"},
     named : Detail \cup {Nil},           \* the key deleteKeyName shows
     deleteReturn : {"", "cancel", "confirm"},   \* deleteDialog.returnValue
     deleting : BOOLEAN,                  \* confirmDeleteButton.disabled
     context : Context \cup {Nil},        \* rollbackContext
     preview : Revisions \cup {Nil},      \* the version whose value the dialog shows
     unconfirmed : BOOLEAN,               \* confirmRollbackButton.disabled
     opening : BOOLEAN,                   \* rollbackButton.disabled
     calls : [Slots -> Call \cup {Nil}]]

ASSUME BrowserNil == Nil \notin Detail \cup Context \cup Call

BInit ==
    page = [cluster |-> Nil, items |-> Nil, covered |-> TRUE,
            selected |-> Nil, creating |-> FALSE, filled |-> Nil, saving |-> FALSE,
            dialog |-> "none", named |-> Nil, deleteReturn |-> "", deleting |-> FALSE,
            context |-> Nil, preview |-> Nil, unconfirmed |-> FALSE, opening |-> FALSE,
            calls |-> [i \in Slots |-> Nil]]

-----------------------------------------------------------------------------
(* The functions of the script. *)

UnderWay(p) == {p.calls[i] : i \in Slots} \ {Nil}

Free(p) == {i \in Slots : p.calls[i] = Nil}

Send(p, c) == [p EXCEPT !.calls[CHOOSE i \in Free(p) : TRUE] = c]

Answered(p, c) == [p EXCEPT !.calls[CHOOSE i \in Slots : p.calls[i] = c] = Nil]

\* ++listRequestID, ++keyRequestID, or another rollbackContext.
Outdate(p, fns) ==
    LET Old(c) == IF c # Nil /\ c.fn \in fns THEN [c EXCEPT !.latest = FALSE] ELSE c
    IN  [p EXCEPT !.calls = [i \in Slots |-> Old(p.calls[i])]]

SetContext(p, context) ==
    [Outdate(p, {"versions", "preview"}) EXCEPT !.context = context, !.preview = Nil]

showEditor(p, detail) == [p EXCEPT !.filled = detail, !.opening = FALSE]

\* The hidden fields keep their text; showEditor fills them again.
closeEditor(p) == [p EXCEPT !.selected = Nil, !.creating = FALSE, !.filled = Nil]

EditorIsOpen(p) == p.selected # Nil \/ p.creating

\* The finally block of the function that awaited the last request.
Finally(p, fn) ==
    CASE fn = "save"     -> [p EXCEPT !.saving = FALSE]
      [] fn = "delete"   -> [p EXCEPT !.deleting = FALSE]
      [] fn = "rollback" -> [SetContext(p, Nil) EXCEPT !.unconfirmed = FALSE]
      [] OTHER           -> p

loadKeyUnchecked(p, k, then) ==  \* mutant: without a look at the cluster
    Send(Outdate(p, {"load"}),
         [fn |-> "load", cluster |-> p.cluster, key |-> k, latest |-> TRUE, then |-> then])

loadKey(p, k, then) ==
    IF p.cluster = Nil
    THEN Finally(p, then)
    ELSE Send(Outdate(p, {"load"}),
              [fn |-> "load", cluster |-> p.cluster, key |-> k, latest |-> TRUE, then |-> then])

\* What follows `await loadKeys()` in saveKey, rollbackSelected, deleteSelected
\* and the refresh button's handler.
AfterList(p, then, k) ==
    CASE then \in {"save", "rollback"} -> loadKey(p, k, then)
      [] then = "refresh" /\ p.selected # Nil /\ ~p.creating -> loadKey(p, p.selected.key, "")
      [] OTHER -> Finally(p, then)

loadKeys(p, then, k) ==
    LET q == [Outdate(p, {"list"}) EXCEPT !.covered = TRUE]
    IN  IF p.cluster = Nil
        THEN AfterList([q EXCEPT !.items = Nil], then, k)
        ELSE Send(q, [fn |-> "list", cluster |-> p.cluster, latest |-> TRUE,
                      arg |-> k, then |-> then])

selectRollbackVersion(p, t, by) ==
    Send([Outdate(p, {"preview"}) EXCEPT
              !.context.target = t, !.unconfirmed = TRUE, !.preview = Nil],
         [fn |-> "preview", target |-> t, latest |-> TRUE, by |-> by])

\* The finally block of previewRollback.
PreviewOpened(p, by) == IF by = "open" THEN [p EXCEPT !.opening = FALSE] ELSE p

\* deleteDialog's close handler found returnValue "confirm".
deleteSelected(p, named, how) ==
    IF p.selected = Nil \/ p.creating
    THEN p
    ELSE Send([p EXCEPT !.deleting = TRUE],
              [fn |-> "delete", cluster |-> p.cluster, key |-> p.selected.key,
               mod |-> p.selected.mod, from |-> p.selected, named |-> named,
               confirmed |-> how = "confirm"])

rollbackSelected(p) ==
    IF p.context = Nil \/ p.context.target = Nil
    THEN p
    ELSE Send([p EXCEPT !.unconfirmed = TRUE, !.preview = Nil],
              [fn |-> "rollback", cluster |-> p.context.cluster, key |-> p.context.key,
               mod |-> p.context.mod, target |-> p.context.target,
               from |-> p.context.from, preview |-> p.preview])

-----------------------------------------------------------------------------
(* The user.  An open dialog is modal: nothing behind it can be clicked.   *)
(* Clicks that send a request wait for room under the bound.               *)

Room == Free(page) # {}

User(dialog) == page.dialog = dialog /\ Room

activateCluster(c) ==
    /\ User("none") /\ page.cluster # Nil /\ c # page.cluster
    /\ page' = loadKeys(closeEditor([page EXCEPT !.cluster = c, !.items = Nil]), "", Nil)

\* The prefix form and the page buttons.
Search ==
    /\ User("none") /\ page.cluster # Nil
    /\ page' = loadKeys(page, "", Nil)

Refresh ==
    /\ User("none") /\ page.cluster # Nil
    /\ page' = loadKeys(page, "refresh", Nil)

OpenItem(k) ==
    /\ User("none") /\ page.items # Nil
    /\ page' = loadKey(page, k, "")

beginCreate ==
    /\ page.dialog = "none" /\ page.cluster # Nil
    /\ page' = showEditor([page EXCEPT !.creating = TRUE, !.selected = Nil], Nil)

CancelEditor ==
    /\ page.dialog = "none" /\ EditorIsOpen(page)
    /\ page' = closeEditor(page)

\* A new entry is saved under the key k of its field; expecting 0 means absent.
saveKey(k) ==
    /\ User("none") /\ EditorIsOpen(page) /\ ~page.saving
    /\ ~page.creating => k = page.selected.key
    /\ page' = Send([page EXCEPT !.saving = TRUE],
                    [fn |-> "put", cluster |-> page.cluster, key |-> k,
                     mod |-> IF page.creating THEN 0 ELSE page.selected.mod,
                     from |-> page.filled])

OpenDelete ==
    /\ page.dialog = "none" /\ page.selected # Nil /\ ~page.creating
    /\ page' = [page EXCEPT !.dialog = "delete", !.named = page.selected]

\* The dialog's two buttons, or Esc, which closes it and leaves returnValue as
\* the last opening left it.
CloseDelete(how) ==
    /\ User("delete")
    /\ how = "confirm" => ~page.deleting
    /\ LET p == [page EXCEPT !.dialog = "none", !.named = Nil,
                             !.deleteReturn = IF how = "esc" THEN @ ELSE how]
       IN  page' = IF p.deleteReturn = "confirm"
                   THEN deleteSelected(p, page.named, how)
                   ELSE p

previewRollback ==
    /\ User("none") /\ page.selected # Nil /\ ~page.creating /\ ~page.opening
    /\ LET s == page.selected
           p == SetContext(page, [cluster |-> page.cluster, key |-> s.key, mod |-> s.mod,
                                  from |-> s, target |-> Nil, listed |-> FALSE])
       IN  page' = Send([p EXCEPT !.opening = TRUE, !.unconfirmed = TRUE,
                                  !.preview = Nil, !.dialog = "rollback"],
                        [fn |-> "versions", key |-> s.key, mod |-> s.mod,
                         latest |-> TRUE, by |-> "open"])

\* How many versions are left to load is left open.
LoadMore ==
    /\ User("rollback") /\ page.context # Nil /\ page.context.listed
    /\ page' = Send(page, [fn |-> "versions", key |-> page.context.key,
                           mod |-> page.context.mod, latest |-> TRUE, by |-> "user"])

ChooseVersion(t) ==
    /\ User("rollback") /\ page.context # Nil /\ page.context.listed
    /\ t < page.context.mod
    /\ page' = selectRollbackVersion(page, t, "user")

ConfirmRollback ==
    /\ User("rollback") /\ ~page.unconfirmed
    /\ page' = rollbackSelected([page EXCEPT !.dialog = "none"])

\* The cancel button, Esc, or close(): returnValue was emptied on opening.
DismissedRollback(p) == SetContext([p EXCEPT !.dialog = "none"], Nil)

DismissRollback ==
    /\ page.dialog = "rollback"
    /\ page' = DismissedRollback(page)

-----------------------------------------------------------------------------
(* The answers. *)

CurrentAnyCluster(c) ==  \* mutant: does not compare the cluster
    c.latest

Current(c) == c.latest /\ c.cluster = page.cluster

AnswerList(c) == \E result \in {"items", "empty", "error"} :
    LET p == Answered(page, c)
        q == IF Current(c)
             THEN [p EXCEPT !.items = IF result = "items" THEN c.cluster ELSE Nil,
                            !.covered = result # "items"]
             ELSE p
    IN  page' = AfterList(q, c.then, c.arg)

KeyRead(c) == \E m \in Revisions :
    LET p == Answered(page, c)
        d == [cluster |-> c.cluster, key |-> c.key, mod |-> m]
        q == IF Current(c)
             THEN showEditor([p EXCEPT !.selected = d, !.creating = FALSE], d)
             ELSE p
    IN  page' = Finally(q, c.then)

KeyNotRead(c) == \E status \in {404, 500} :
    LET p == Answered(page, c)
    IN  page' = Finally(IF Current(c) /\ status = 404 THEN loadKeys(p, "", Nil) ELSE p, c.then)

SavedUnlessClosed(c) ==  \* mutant: returns early, past the finally block
    LET p == Answered(page, c)
    IN  page' = IF EditorIsOpen(p)
                THEN loadKeys(p, "save", IF p.creating THEN c.key ELSE p.selected.key)
                ELSE p

\* state.creating and state.selected are those of now, not of the request: the
\* key that is loaded again may be another one, and a TypeError with the editor
\* closed goes to the catch block.
Saved(c) ==
    LET p == Answered(page, c)
    IN  page' = IF EditorIsOpen(p)
                THEN loadKeys(p, "save", IF p.creating THEN c.key ELSE p.selected.key)
                ELSE Finally(p, "save")

NotSaved(c) == page' = Finally(Answered(page, c), "save")

DeletedKey(c) == page' = loadKeys(closeEditor(Answered(page, c)), "delete", Nil)

NotDeleted(c) == page' = Finally(Answered(page, c), "delete")

\* loadRollbackVersions: the newest version listed is selected at first.
VersionsRead(c) ==
    LET p == Answered(page, c)
        q == [p EXCEPT !.context.listed = TRUE]
    IN  \/ /\ c.latest /\ page.context.target = Nil
           /\ \E t \in Revisions : t < c.mod /\ page' = selectRollbackVersion(q, t, c.by)
        \/ /\ c.latest /\ page.context.target # Nil
           /\ page' = PreviewOpened(q, c.by)
        \/ page' = PreviewOpened(p, c.by)      \* no versions, or another context

\* The catch block of previewRollback closes whichever rollback dialog is open.
VersionsNotRead(c) == \E conflict \in BOOLEAN :
    LET p == Answered(page, c)
        q == IF p.dialog = "rollback" THEN DismissedRollback(p) ELSE p
        r == IF conflict THEN loadKey(q, c.key, "") ELSE q
    IN  page' = IF c.by = "open" THEN PreviewOpened(r, c.by) ELSE p

PreviewReadLate(c) ==  \* mutant: does not compare previewRequestID
    page' = PreviewOpened([Answered(page, c) EXCEPT !.preview = c.target, !.unconfirmed = FALSE],
                          c.by)

PreviewRead(c) ==
    LET p == Answered(page, c)
        q == IF c.latest THEN [p EXCEPT !.preview = c.target, !.unconfirmed = FALSE] ELSE p
    IN  page' = PreviewOpened(q, c.by)

PreviewNotRead(c) == page' = PreviewOpened(Answered(page, c), c.by)

RolledBack(c) == page' = loadKeys(Answered(page, c), "rollback", c.key)

NotRolledBack(c) == \E conflict \in BOOLEAN :
    LET p == Answered(page, c)
        q == IF conflict /\ p.selected # Nil THEN loadKey(p, p.selected.key, "") ELSE p
    IN  page' = Finally(q, "rollback")

Answer(c) ==
    \/ c.fn = "list" /\ AnswerList(c)
    \/ c.fn = "load" /\ (KeyRead(c) \/ KeyNotRead(c))
    \/ c.fn = "put" /\ (Saved(c) \/ NotSaved(c))
    \/ c.fn = "delete" /\ (DeletedKey(c) \/ NotDeleted(c))
    \/ c.fn = "versions" /\ (VersionsRead(c) \/ VersionsNotRead(c))
    \/ c.fn = "preview" /\ (PreviewRead(c) \/ PreviewNotRead(c))
    \/ c.fn = "rollback" /\ (RolledBack(c) \/ NotRolledBack(c))

\* loadClusters answers, at the start or after an administrator's change: the
\* preferred cluster, the first one, or none.  Without one nothing is loaded.
loadClusters(c) ==
    /\ Room
    /\ LET p == closeEditor([page EXCEPT !.cluster = c])
       IN  page' = IF c = Nil
                   THEN [p EXCEPT !.items = Nil, !.covered = TRUE]
                   ELSE loadKeys(p, "", Nil)

-----------------------------------------------------------------------------
BNext ==
    \/ \E c \in Clusters : activateCluster(c)
    \/ \E c \in Clusters \cup {Nil} : loadClusters(c)
    \/ Search \/ Refresh
    \/ \E k \in Keys : OpenItem(k) \/ saveKey(k)
    \/ beginCreate \/ CancelEditor
    \/ OpenDelete \/ \E how \in {"cancel", "confirm", "esc"} : CloseDelete(how)
    \/ previewRollback \/ LoadMore \/ ConfirmRollback \/ DismissRollback
    \/ \E t \in Revisions : ChooseVersion(t)
    \/ \E c \in UnderWay(page) : Answer(c)

BSpec == BInit /\ [][BNext]_page

-----------------------------------------------------------------------------
BTypeOK == page \in Page

\* Every write of the page names the cluster and key that its revision was read
\* from, and a save sends fields that were filled from that revision, whatever
\* answers came in between (expected_mod_revision of saveKey, deleteSelected
\* and rollbackSelected).  The server compares revisions, not clusters.
WritesGoWhereLoaded == \A c \in UnderWay(page) :
    c.fn \in {"put", "delete", "rollback"} =>
        IF c.fn = "put" /\ c.mod = 0
        THEN c.from = Nil
        ELSE c.from = [cluster |-> c.cluster, key |-> c.key, mod |-> c.mod]

\* A rollback restores the version whose value the dialog shows, although
\* previews of versions chosen earlier may be answered later (previewRequestID
\* and the identity of rollbackContext).
RollsBackThePreviewed == \A c \in UnderWay(page) :
    c.fn = "rollback" => c.preview = c.target

\* A key list that is not covered lists the selected cluster's keys: loadKey
\* reads a clicked key from the selected cluster (the guards of loadKeys).
ListIsOfSelectedCluster == ~page.covered => page.items = page.cluster

\* A dialog never names a key for deletion and sends the deletion of another
\* one, or sends one that was not confirmed ("...deletes <key> at once" beside
\* the confirm button, index.html).
OnlyConfirmedIsDeleted == \A c \in UnderWay(page) :
    c.fn = "delete" => c.confirmed /\ c.named.key = c.key

\* A button that a request locked (save, confirm deletion, choose a version) is
\* locked only while that request, or one its function awaits after it, is under
\* way: every path, the TypeError of a closed editor and the loads that end at
\* once for want of a cluster included, reaches the finally block.
LockedOnlyWhileWaiting ==
    LET Waiting(fns, then) == \E c \in UnderWay(page) :
            c.fn \in fns \/ (c.fn \in {"list", "load"} /\ c.then = then)
    IN  /\ page.saving => Waiting({"put"}, "save")
        /\ page.deleting => Waiting({"delete"}, "delete")
        /\ page.opening => \E c \in UnderWay(page) :
                              c.fn \in {"versions", "preview"} /\ c.by = "open"
=============================================================================
