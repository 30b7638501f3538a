--------------------------- MODULE BrowserProofs ---------------------------
(***************************************************************************)
(* Theorems about the key editor of the page, for any clusters, keys and   *)
(* revisions and any number of requests under way.                         *)
(*                                                                         *)
(* The script's functions are operators from page to page, so each has its *)
(* lemmas: what it does to the requests under way, and that it preserves   *)
(* what the editor, the rollback dialog and those requests have to do with *)
(* each other (Coherent).                                                  *)
(***************************************************************************)
EXTENDS Browser, TLAPS

USE BrowserAssumption, BrowserNil

-----------------------------------------------------------------------------
(* A detail that is shown was read from the selected cluster and fills the  *)
(* editor; a new entry has empty fields.                                    *)
EditorCoherent(p) ==
    /\ p.selected # Nil => /\ p.selected.cluster = p.cluster
                           /\ p.filled = p.selected /\ ~p.creating
    /\ p.creating => p.filled = Nil /\ p.cluster # Nil

(* The delete dialog names a key; a rollback that can be confirmed is to    *)
(* the version that is shown.                                               *)
DialogCoherent(p) ==
    /\ p.dialog = "delete" => p.named # Nil
    /\ p.context # Nil =>
          /\ p.context.from = [cluster |-> p.context.cluster, key |-> p.context.key,
                               mod |-> p.context.mod]
          /\ ~p.unconfirmed /\ p.context.target # Nil => p.preview = p.context.target

(* What a request under way was sent with, and what the page it will be     *)
(* answered to must be if the answer counts.                                *)
CallCoherent(c, context) ==
    /\ c.fn \in {"put", "delete", "rollback"} =>
          IF c.fn = "put" /\ c.mod = 0
          THEN c.from = Nil
          ELSE c.from = [cluster |-> c.cluster, key |-> c.key, mod |-> c.mod]
    /\ c.fn = "rollback" => c.preview = c.target
    /\ c.fn = "list" /\ c.then \in {"save", "rollback"} => c.arg \in Keys
    /\ c.fn = "versions" /\ c.latest => context # Nil
    /\ c.fn = "preview" /\ c.latest => context # Nil /\ context.target = c.target

Coherent(p) ==
    /\ p \in Page
    /\ EditorCoherent(p) /\ DialogCoherent(p)
    /\ \A c \in UnderWay(p) : CallCoherent(c, p.context)

(* The list that can be seen is that of the selected cluster.               *)
Listed(p) == ~p.covered => p.items = p.cluster

PageInv == Coherent(page) /\ Listed(page)

-----------------------------------------------------------------------------
(* Requests.                                                                *)

LEMMA CallTyped ==
    ASSUME NEW c \in Call
    PROVE  /\ c # Nil
           /\ c.fn \in {"list", "load", "put", "delete", "versions", "preview", "rollback"}
           /\ c.fn = "list" =>
                 c \in [fn : {"list"}, cluster : Clusters, latest : BOOLEAN,
                        arg : Keys \cup {Nil},
                        then : {"", "save", "rollback", "delete", "refresh"}]
           /\ c.fn = "load" =>
                 c \in [fn : {"load"}, cluster : Clusters, key : Keys, latest : BOOLEAN,
                        then : {"", "save", "rollback"}]
           /\ c.fn = "put" =>
                 c \in [fn : {"put"}, cluster : Clusters, key : Keys, mod : 0..MaxRevision,
                        from : Detail \cup {Nil}]
           /\ c.fn = "delete" =>
                 c \in [fn : {"delete"}, cluster : Clusters, key : Keys, mod : Revisions,
                        from : Detail, named : Detail, confirmed : BOOLEAN]
           /\ c.fn = "versions" =>
                 c \in [fn : {"versions"}, key : Keys, mod : Revisions, latest : BOOLEAN,
                        by : {"open", "user"}]
           /\ c.fn = "preview" =>
                 c \in [fn : {"preview"}, target : Revisions, latest : BOOLEAN,
                        by : {"open", "user"}]
           /\ c.fn = "rollback" =>
                 c \in [fn : {"rollback"}, cluster : Clusters, key : Keys, mod : Revisions,
                        target : Revisions, from : Detail, preview : Revisions \cup {Nil}]
  BY DEF Call

LEMMA UnderWayTyped ==
    ASSUME NEW p \in Page, NEW c \in UnderWay(p)
    PROVE  c \in Call
<1>1. p.calls \in [Slots -> Call \cup {Nil}]
  BY DEF Page
<1>2. QED
  BY <1>1 DEF UnderWay

(* The same page, but for the requests under way.                           *)
Same(p, q) ==
    /\ q.cluster = p.cluster /\ q.items = p.items /\ q.covered = p.covered
    /\ q.selected = p.selected /\ q.creating = p.creating /\ q.filled = p.filled
    /\ q.saving = p.saving /\ q.dialog = p.dialog /\ q.named = p.named
    /\ q.deleteReturn = p.deleteReturn /\ q.deleting = p.deleting
    /\ q.context = p.context /\ q.preview = p.preview
    /\ q.unconfirmed = p.unconfirmed /\ q.opening = p.opening

(* The same page, but for the requests under way and the rollback dialog.   *)
SameButDialog(p, q) ==
    /\ q.cluster = p.cluster /\ q.items = p.items /\ q.covered = p.covered
    /\ q.selected = p.selected /\ q.creating = p.creating /\ q.filled = p.filled
    /\ q.saving = p.saving /\ q.dialog = p.dialog /\ q.named = p.named
    /\ q.deleteReturn = p.deleteReturn /\ q.deleting = p.deleting
    /\ q.opening = p.opening

LEMMA SamePage ==
    ASSUME NEW p \in Page, NEW calls \in [Slots -> Call \cup {Nil}]
    PROVE  LET q == [p EXCEPT !.calls = calls]
           IN  q \in Page /\ q.calls = calls /\ Same(p, q)
  BY DEF Page, Same

LEMMA SendKeeps ==
    ASSUME NEW p \in Page, NEW c \in Call, Free(p) # {}
    PROVE  /\ Send(p, c) \in Page /\ Same(p, Send(p, c))
           /\ UnderWay(Send(p, c)) = UnderWay(p) \cup {c}
<1> DEFINE i == CHOOSE j \in Free(p) : TRUE
           calls == [p.calls EXCEPT ![i] = c]
<1>1. i \in Slots /\ p.calls[i] = Nil
  BY DEF Free
<1>2. p.calls \in [Slots -> Call \cup {Nil}]
  BY DEF Page
<1>3. calls \in [Slots -> Call \cup {Nil}]
  BY <1>1, <1>2
<1>4. Send(p, c) = [p EXCEPT !.calls = calls]
  BY DEF Send
<1> HIDE DEF i
<1>5. /\ Send(p, c) \in Page /\ Same(p, Send(p, c)) /\ Send(p, c).calls = calls
  BY <1>3, <1>4, SamePage
<1>6. \A j \in Slots : calls[j] = IF j = i THEN c ELSE p.calls[j]
  BY <1>1, <1>2
<1>7. c # Nil
  BY CallTyped
<1> HIDE DEF calls
<1>8. UnderWay(Send(p, c)) = UnderWay(p) \cup {c}
  BY <1>1, <1>5, <1>6, <1>7 DEF UnderWay
<1>9. QED
  BY <1>5, <1>8

LEMMA AnsweredKeeps ==
    ASSUME NEW p \in Page, NEW c \in UnderWay(p)
    PROVE  /\ Answered(p, c) \in Page /\ Same(p, Answered(p, c))
           /\ UnderWay(Answered(p, c)) \subseteq UnderWay(p)
           /\ UnderWay(p) \ {c} \subseteq UnderWay(Answered(p, c))
           /\ Free(Answered(p, c)) # {}
<1> DEFINE i == CHOOSE j \in Slots : p.calls[j] = c
           calls == [p.calls EXCEPT ![i] = Nil]
<1>1. i \in Slots /\ p.calls[i] = c
  BY DEF UnderWay
<1>2. p.calls \in [Slots -> Call \cup {Nil}]
  BY DEF Page
<1>3. calls \in [Slots -> Call \cup {Nil}]
  BY <1>1, <1>2
<1>4. Answered(p, c) = [p EXCEPT !.calls = calls]
  BY DEF Answered
<1> HIDE DEF i
<1>5. /\ Answered(p, c) \in Page /\ Same(p, Answered(p, c)) /\ Answered(p, c).calls = calls
  BY <1>3, <1>4, SamePage
<1>6. \A j \in Slots : calls[j] = IF j = i THEN Nil ELSE p.calls[j]
  BY <1>1, <1>2
<1> HIDE DEF calls
<1>7. UnderWay(Answered(p, c)) \subseteq UnderWay(p)
  BY <1>5, <1>6 DEF UnderWay
<1>8. UnderWay(p) \ {c} \subseteq UnderWay(Answered(p, c))
  BY <1>1, <1>5, <1>6 DEF UnderWay
<1>9. i \in Free(Answered(p, c))
  BY <1>1, <1>5, <1>6 DEF Free
<1>10. QED
  BY <1>5, <1>7, <1>8, <1>9

(* A request whose number or context is no longer the current one.          *)
Older(c, fns) == IF c.fn \in fns THEN [c EXCEPT !.latest = FALSE] ELSE c

LEMMA OlderTyped ==
    ASSUME NEW c \in Call, NEW fns \in SUBSET {"list", "load", "versions", "preview"}
    PROVE  /\ Older(c, fns) \in Call /\ Older(c, fns).fn = c.fn
           /\ c.fn \in fns => Older(c, fns).latest = FALSE
           /\ c.fn \in {"list", "load"} => Older(c, fns).then = c.then
           /\ c.fn = "list" => Older(c, fns).arg = c.arg
           /\ c.fn \in {"versions", "preview"} => Older(c, fns).by = c.by
           /\ c.fn = "preview" => Older(c, fns).target = c.target
           /\ c.fn \notin fns => Older(c, fns) = c
<1>1. CASE c.fn \notin fns
  BY <1>1 DEF Older
<1>2. CASE c.fn \in fns
  <2>1. Older(c, fns) = [c EXCEPT !.latest = FALSE] /\ FALSE \in BOOLEAN
    BY <1>2 DEF Older
  <2>2. CASE c.fn = "list"
    BY <2>1, <2>2, <1>2, CallTyped DEF Call
  <2>3. CASE c.fn = "load"
    BY <2>1, <2>3, <1>2, CallTyped DEF Call
  <2>4. CASE c.fn = "versions"
    BY <2>1, <2>4, <1>2, CallTyped DEF Call
  <2>5. CASE c.fn = "preview"
    BY <2>1, <2>5, <1>2, CallTyped DEF Call
  <2>6. QED
    BY <1>2, <2>2, <2>3, <2>4, <2>5
<1>3. QED
  BY <1>1, <1>2

LEMMA OutdateKeeps ==
    ASSUME NEW p \in Page, NEW fns \in SUBSET {"list", "load", "versions", "preview"}
    PROVE  /\ Outdate(p, fns) \in Page /\ Same(p, Outdate(p, fns))
           /\ Free(Outdate(p, fns)) = Free(p)
           /\ \A d \in UnderWay(Outdate(p, fns)) :
                 \E c \in UnderWay(p) : d = Older(c, fns)
           /\ \A c \in UnderWay(p) : Older(c, fns) \in UnderWay(Outdate(p, fns))
<1> DEFINE calls == [i \in Slots |-> IF p.calls[i] # Nil /\ p.calls[i].fn \in fns
                                     THEN [p.calls[i] EXCEPT !.latest = FALSE]
                                     ELSE p.calls[i]]
<1>1. p.calls \in [Slots -> Call \cup {Nil}]
  BY DEF Page
<1>2. \A i \in Slots : /\ p.calls[i] = Nil => calls[i] = Nil
                       /\ p.calls[i] # Nil => /\ p.calls[i] \in Call
                                              /\ calls[i] = Older(p.calls[i], fns)
                                              /\ calls[i] \in Call /\ calls[i] # Nil
  <2>1. ASSUME NEW i \in Slots, p.calls[i] = Nil
        PROVE  calls[i] = Nil
    BY <2>1
  <2>2. ASSUME NEW i \in Slots, p.calls[i] # Nil
        PROVE  /\ p.calls[i] \in Call /\ calls[i] = Older(p.calls[i], fns)
               /\ calls[i] \in Call /\ calls[i] # Nil
    <3>1. p.calls[i] \in Call
      BY <2>2, <1>1
    <3>2. calls[i] = Older(p.calls[i], fns)
      BY <2>2 DEF Older
    <3>3. Older(p.calls[i], fns) \in Call
      BY <3>1, OlderTyped
    <3>4. Older(p.calls[i], fns) # Nil
      BY <3>3, CallTyped
    <3>5. QED
      BY <3>1, <3>2, <3>3, <3>4, Zenon
  <2>3. QED
    BY <2>1, <2>2
<1>3. Outdate(p, fns) = [p EXCEPT !.calls = calls]
  BY DEF Outdate
<1>4. DOMAIN calls = Slots
  OBVIOUS
<1>5. calls = [i \in Slots |-> calls[i]]
  OBVIOUS
<1> HIDE DEF calls
<1>6. calls \in [Slots -> Call \cup {Nil}]
  BY <1>2, <1>5
<1>7. /\ Outdate(p, fns) \in Page /\ Same(p, Outdate(p, fns))
      /\ Outdate(p, fns).calls = calls
  BY <1>3, <1>6, SamePage
<1>8. Free(Outdate(p, fns)) = Free(p)
  BY <1>2, <1>7 DEF Free
<1>9. \A d \in UnderWay(Outdate(p, fns)) : \E c \in UnderWay(p) : d = Older(c, fns)
  BY <1>2, <1>7 DEF UnderWay
<1>10. \A c \in UnderWay(p) : Older(c, fns) \in UnderWay(Outdate(p, fns))
  BY <1>2, <1>7 DEF UnderWay
<1>11. QED
  BY <1>7, <1>8, <1>9, <1>10

-----------------------------------------------------------------------------
(* The functions of the script.                                             *)

LEMMA CoherentFrame ==
    ASSUME NEW p, Coherent(p), NEW q \in Page, UnderWay(q) = UnderWay(p),
           q.cluster = p.cluster, q.selected = p.selected, q.creating = p.creating,
           q.filled = p.filled, q.context = p.context, q.preview = p.preview,
           q.unconfirmed = p.unconfirmed, q.dialog = "delete" => q.named # Nil
    PROVE  Coherent(q)
  BY DEF Coherent, EditorCoherent, DialogCoherent

LEMMA SendCoherent ==
    ASSUME NEW p, Coherent(p), NEW c \in Call, Free(p) # {}, CallCoherent(c, p.context)
    PROVE  Coherent(Send(p, c)) /\ Same(p, Send(p, c))
<1> DEFINE q == Send(p, c)
<1>1. p \in Page /\ q \in Page /\ Same(p, q) /\ UnderWay(q) = UnderWay(p) \cup {c}
  BY SendKeeps DEF Coherent
<1> HIDE DEF q
<1>2. Coherent(q)
  BY <1>1 DEF Same, Coherent, EditorCoherent, DialogCoherent
<1>3. QED
  BY <1>1, <1>2 DEF q

LEMMA AnsweredCoherent ==
    ASSUME NEW p, Coherent(p), NEW c \in UnderWay(p)
    PROVE  /\ Coherent(Answered(p, c)) /\ Same(p, Answered(p, c))
           /\ Free(Answered(p, c)) # {} /\ CallCoherent(c, p.context) /\ c \in Call
<1> DEFINE q == Answered(p, c)
<1>1. /\ p \in Page /\ q \in Page /\ Same(p, q) /\ UnderWay(q) \subseteq UnderWay(p)
      /\ Free(q) # {}
  BY AnsweredKeeps DEF Coherent
<1> HIDE DEF q
<1>2. Coherent(q)
  BY <1>1 DEF Same, Coherent, EditorCoherent, DialogCoherent
<1>3. c \in Call /\ CallCoherent(c, p.context)
  BY <1>1, UnderWayTyped DEF Coherent
<1>4. QED
  BY <1>1, <1>2, <1>3 DEF q

(* An older request keeps what it was sent with; its answer does not count. *)
LEMMA OlderCoherent ==
    ASSUME NEW c \in Call, NEW fns \in SUBSET {"list", "load", "versions", "preview"},
           NEW old, NEW new, CallCoherent(c, old),
           "versions" \in fns \/ (old # Nil => new # Nil),
           "preview" \in fns \/ new = old
    PROVE  CallCoherent(Older(c, fns), new)
<1>1. CASE c.fn \in fns
  <2>1. c.fn \in {"list", "load", "versions", "preview"}
    BY <1>1
  <2>2. QED
    BY <1>1, <2>1, OlderTyped DEF CallCoherent
<1>2. CASE c.fn \notin fns
  <2>1. Older(c, fns) = c
    BY <1>2, OlderTyped
  <2>2. QED
    BY <2>1, <1>2 DEF CallCoherent
<1>3. QED
  BY <1>1, <1>2

LEMMA OutdateCoherent ==
    ASSUME NEW p, Coherent(p), NEW fns \in SUBSET {"list", "load", "versions", "preview"}
    PROVE  /\ Coherent(Outdate(p, fns)) /\ Same(p, Outdate(p, fns))
           /\ Free(Outdate(p, fns)) = Free(p)
<1> DEFINE q == Outdate(p, fns)
<1>1. /\ p \in Page /\ q \in Page /\ Same(p, q) /\ Free(q) = Free(p)
      /\ \A d \in UnderWay(q) : \E c \in UnderWay(p) : d = Older(c, fns)
  BY OutdateKeeps DEF Coherent
<1> HIDE DEF q
<1>2. ASSUME NEW d \in UnderWay(q)
      PROVE  CallCoherent(d, p.context)
  <2>1. PICK c \in UnderWay(p) : d = Older(c, fns)
    BY <1>1
  <2>2. c \in Call /\ CallCoherent(c, p.context)
    BY <1>1, UnderWayTyped DEF Coherent
  <2>3. QED
    BY <2>1, <2>2, OlderCoherent
<1>3. Coherent(q)
  BY <1>1, <1>2 DEF Same, Coherent, EditorCoherent, DialogCoherent
<1>4. QED
  BY <1>1, <1>3 DEF q

LEMMA SetContextCoherent ==
    ASSUME NEW p, Coherent(p), NEW context \in Context \cup {Nil},
           context # Nil =>
              /\ context.from = [cluster |-> context.cluster, key |-> context.key,
                                 mod |-> context.mod]
              /\ context.target = Nil
    PROVE  LET q == SetContext(p, context)
           IN  /\ Coherent(q) /\ Free(q) = Free(p) /\ q.context = context
               /\ q.preview = Nil /\ q.unconfirmed = p.unconfirmed
               /\ SameButDialog(p, q)
<1> DEFINE o == Outdate(p, {"versions", "preview"})
           q == [o EXCEPT !.context = context, !.preview = Nil]
<1>1. /\ p \in Page /\ o \in Page /\ Same(p, o) /\ Free(o) = Free(p)
      /\ \A d \in UnderWay(o) : \E c \in UnderWay(p) : d = Older(c, {"versions", "preview"})
  BY OutdateKeeps DEF Coherent
<1>2. SetContext(p, context) = q
  BY DEF SetContext
<1> HIDE DEF o
<1>3. /\ q.calls = o.calls /\ q.context = context /\ q.preview = Nil
      /\ q.unconfirmed = o.unconfirmed /\ SameButDialog(o, q)
  <2>1. o \in Page
    BY <1>1
  <2>2. QED
    BY <2>1 DEF Page, SameButDialog
<1>4. q \in Page
  <2>1. o \in Page
    BY <1>1
  <2>2. QED
    BY <2>1 DEF Page
<1> HIDE DEF q
<1>5. /\ q \in Page /\ q.calls = o.calls /\ q.context = context /\ q.preview = Nil
      /\ q.unconfirmed = p.unconfirmed /\ SameButDialog(p, q)
  BY <1>1, <1>3, <1>4 DEF Same, SameButDialog
<1>6. UnderWay(q) = UnderWay(o) /\ Free(q) = Free(o)
  BY <1>5 DEF UnderWay, Free
<1>7. ASSUME NEW d \in UnderWay(q)
      PROVE  CallCoherent(d, context)
  <2>1. PICK c \in UnderWay(p) : d = Older(c, {"versions", "preview"})
    BY <1>1, <1>6
  <2>2. c \in Call /\ CallCoherent(c, p.context)
    BY <1>1, UnderWayTyped DEF Coherent
  <2>3. QED
    BY <2>1, <2>2, OlderCoherent
<1>8. /\ q.cluster = p.cluster /\ q.selected = p.selected /\ q.creating = p.creating
      /\ q.filled = p.filled /\ q.dialog = p.dialog /\ q.named = p.named
  BY <1>5 DEF SameButDialog
<1>9. Coherent(q)
  BY <1>5, <1>7, <1>8 DEF Coherent, EditorCoherent, DialogCoherent
<1>10. QED
  BY <1>1, <1>2, <1>5, <1>6, <1>9

(* Finally unlocks a button, and forgets the context of a rollback.         *)
LEMMA FinallyCoherent ==
    ASSUME NEW p, Coherent(p), NEW fn
    PROVE  /\ Coherent(Finally(p, fn)) /\ Free(Finally(p, fn)) = Free(p)
           /\ Listed(p) => Listed(Finally(p, fn))
           /\ Finally(p, fn).cluster = p.cluster
<1>0. p \in Page
  BY DEF Coherent
<1>1. CASE fn = "save"
  <2> DEFINE q == [p EXCEPT !.saving = FALSE]
  <2>1. Finally(p, fn) = q
    BY <1>1 DEF Finally
  <2>2. q \in Page /\ q.calls = p.calls
    BY <1>0 DEF Page
  <2>3. UnderWay(q) = UnderWay(p) /\ Free(q) = Free(p)
    BY <2>2 DEF UnderWay, Free
  <2>4. /\ q.cluster = p.cluster /\ q.selected = p.selected /\ q.creating = p.creating
        /\ q.filled = p.filled /\ q.context = p.context /\ q.preview = p.preview
        /\ q.unconfirmed = p.unconfirmed /\ q.covered = p.covered /\ q.items = p.items
        /\ q.dialog = p.dialog /\ q.named = p.named
    BY <1>0 DEF Page
  <2> HIDE DEF q
  <2>5. QED
    BY <2>1, <2>2, <2>3, <2>4, CoherentFrame DEF Listed, Coherent, DialogCoherent
<1>2. CASE fn = "delete"
  <2> DEFINE q == [p EXCEPT !.deleting = FALSE]
  <2>1. Finally(p, fn) = q
    BY <1>2 DEF Finally
  <2>2. q \in Page /\ q.calls = p.calls
    BY <1>0 DEF Page
  <2>3. UnderWay(q) = UnderWay(p) /\ Free(q) = Free(p)
    BY <2>2 DEF UnderWay, Free
  <2>4. /\ q.cluster = p.cluster /\ q.selected = p.selected /\ q.creating = p.creating
        /\ q.filled = p.filled /\ q.context = p.context /\ q.preview = p.preview
        /\ q.unconfirmed = p.unconfirmed /\ q.covered = p.covered /\ q.items = p.items
        /\ q.dialog = p.dialog /\ q.named = p.named
    BY <1>0 DEF Page
  <2> HIDE DEF q
  <2>5. QED
    BY <2>1, <2>2, <2>3, <2>4, CoherentFrame DEF Listed, Coherent, DialogCoherent
<1>3. CASE fn = "rollback"
  <2> DEFINE o == SetContext(p, Nil)
             q == [o EXCEPT !.unconfirmed = FALSE]
  <2>1. Finally(p, fn) = q
    BY <1>3 DEF Finally
  <2>2. /\ Coherent(o) /\ Free(o) = Free(p) /\ o.context = Nil /\ SameButDialog(p, o)
    BY SetContextCoherent
  <2>3. o \in Page /\ o.cluster = p.cluster /\ o.covered = p.covered /\ o.items = p.items
    BY <2>2 DEF SameButDialog, Coherent
  <2> HIDE DEF o
  <2>4. /\ q \in Page /\ q.calls = o.calls /\ q.cluster = o.cluster /\ q.selected = o.selected
        /\ q.creating = o.creating /\ q.filled = o.filled /\ q.context = o.context
        /\ q.covered = o.covered /\ q.items = o.items
        /\ q.dialog = o.dialog /\ q.named = o.named
    BY <2>3 DEF Page
  <2> HIDE DEF q
  <2>5. UnderWay(q) = UnderWay(o) /\ Free(q) = Free(o)
    BY <2>4 DEF UnderWay, Free
  <2>6. Coherent(q)
    BY <2>2, <2>4, <2>5 DEF Coherent, EditorCoherent, DialogCoherent
  <2>7. QED
    BY <2>1, <2>2, <2>3, <2>4, <2>5, <2>6 DEF Listed
<1>4. CASE fn \notin {"save", "delete", "rollback"}
  <2>1. Finally(p, fn) = p
    BY <1>4 DEF Finally
  <2>2. QED
    BY <2>1
<1>5. QED
  BY <1>1, <1>2, <1>3, <1>4

Thens == {"", "save", "rollback", "delete", "refresh"}

LEMMA LoadKeyCoherent ==
    ASSUME NEW p, Coherent(p), NEW k \in Keys, NEW then \in {"", "save", "rollback"},
           Free(p) # {}
    PROVE  /\ Coherent(loadKey(p, k, then))
           /\ Listed(p) => Listed(loadKey(p, k, then))
<1>1. CASE p.cluster = Nil
  <2>1. loadKey(p, k, then) = Finally(p, then)
    BY <1>1 DEF loadKey
  <2>2. QED
    BY <2>1, FinallyCoherent
<1>2. CASE p.cluster # Nil
  <2> DEFINE o == Outdate(p, {"load"})
             c == [fn |-> "load", cluster |-> p.cluster, key |-> k, latest |-> TRUE,
                   then |-> then]
  <2>1. loadKey(p, k, then) = Send(o, c)
    BY <1>2 DEF loadKey
  <2>2. p.cluster \in Clusters
    BY <1>2 DEF Coherent, Page
  <2>3. c \in Call
    BY <2>2 DEF Call
  <2>4. Coherent(o) /\ Same(p, o) /\ Free(o) # {}
    BY OutdateCoherent
  <2>5. CallCoherent(c, o.context)
    BY DEF CallCoherent
  <2> HIDE DEF o, c
  <2>6. Coherent(Send(o, c)) /\ Same(o, Send(o, c))
    BY <2>3, <2>4, <2>5, SendCoherent
  <2>7. QED
    BY <2>1, <2>4, <2>6 DEF Listed, Same
<1>3. QED
  BY <1>1, <1>2

LEMMA AfterListCoherent ==
    ASSUME NEW p, Coherent(p), NEW then \in Thens, NEW k \in Keys \cup {Nil},
           then \in {"save", "rollback"} => k \in Keys, Free(p) # {}
    PROVE  /\ Coherent(AfterList(p, then, k))
           /\ Listed(p) => Listed(AfterList(p, then, k))
<1>1. CASE then \in {"save", "rollback"}
  <2>1. AfterList(p, then, k) = loadKey(p, k, then)
    BY <1>1 DEF AfterList
  <2>2. QED
    BY <2>1, <1>1, LoadKeyCoherent
<1>2. CASE then = "refresh" /\ p.selected # Nil /\ ~p.creating
  <2>1. AfterList(p, then, k) = loadKey(p, p.selected.key, "")
    BY <1>2 DEF AfterList
  <2>2. p.selected \in Detail
    BY <1>2 DEF Coherent, Page
  <2>3. p.selected.key \in Keys
    BY <2>2 DEF Detail
  <2>4. QED
    BY <2>1, <2>3, LoadKeyCoherent
<1>3. CASE then \notin {"save", "rollback"}
           /\ ~(then = "refresh" /\ p.selected # Nil /\ ~p.creating)
  <2>1. AfterList(p, then, k) = Finally(p, then)
    BY <1>3 DEF AfterList
  <2>2. QED
    BY <2>1, FinallyCoherent
<1>4. QED
  BY <1>1, <1>2, <1>3

(* While the list is loaded it is covered.                                  *)
LEMMA CoverCoherent ==
    ASSUME NEW p, Coherent(p), NEW items \in Clusters \cup {Nil}, NEW covered \in BOOLEAN
    PROVE  LET q == [p EXCEPT !.items = items, !.covered = covered]
           IN  /\ Coherent(q) /\ Free(q) = Free(p) /\ UnderWay(q) = UnderWay(p)
               /\ q.items = items /\ q.covered = covered
               /\ q.cluster = p.cluster /\ q.context = p.context
<1> DEFINE q == [p EXCEPT !.items = items, !.covered = covered]
<1>1. p \in Page
  BY DEF Coherent
<1>2. q \in Page
  BY <1>1 DEF Page
<1>3. /\ q.calls = p.calls /\ q.items = items /\ q.covered = covered
      /\ q.cluster = p.cluster /\ q.selected = p.selected /\ q.creating = p.creating
      /\ q.filled = p.filled /\ q.context = p.context /\ q.preview = p.preview
      /\ q.unconfirmed = p.unconfirmed /\ q.dialog = p.dialog /\ q.named = p.named
  BY <1>1 DEF Page
<1> HIDE DEF q
<1>4. UnderWay(q) = UnderWay(p) /\ Free(q) = Free(p)
  BY <1>3 DEF UnderWay, Free
<1>5. Coherent(q)
  BY <1>2, <1>3, <1>4, CoherentFrame DEF Coherent, DialogCoherent
<1>6. QED
  BY <1>3, <1>4, <1>5 DEF q

LEMMA LoadKeysCoherent ==
    ASSUME NEW p, Coherent(p), NEW then \in Thens, NEW k \in Keys \cup {Nil},
           then \in {"save", "rollback"} => k \in Keys, Free(p) # {}
    PROVE  Coherent(loadKeys(p, then, k)) /\ Listed(loadKeys(p, then, k))
<1> DEFINE o == Outdate(p, {"list"})
           q == [o EXCEPT !.covered = TRUE]
<1>1. Coherent(o) /\ Same(p, o) /\ Free(o) = Free(p)
  BY OutdateCoherent
<1> HIDE DEF o
<1>2. o \in Page
  BY <1>1 DEF Coherent
<1>3. q = [o EXCEPT !.items = o.items, !.covered = TRUE] /\ o.items \in Clusters \cup {Nil}
  BY <1>2 DEF Page
<1>4. /\ Coherent(q) /\ Free(q) = Free(o) /\ q.covered = TRUE /\ q.cluster = o.cluster
      /\ q.items = o.items
  <2> DEFINE e == [o EXCEPT !.items = o.items, !.covered = TRUE]
  <2>1. /\ Coherent(e) /\ Free(e) = Free(o) /\ e.covered = TRUE /\ e.cluster = o.cluster
        /\ e.items = o.items
    BY <1>1, <1>3, CoverCoherent, TRUE \in BOOLEAN
  <2> HIDE DEF e
  <2>2. QED
    BY <2>1, <1>3 DEF e
<1>5. loadKeys(p, then, k) =
         IF p.cluster = Nil
         THEN AfterList([q EXCEPT !.items = Nil], then, k)
         ELSE Send(q, [fn |-> "list", cluster |-> p.cluster, latest |-> TRUE,
                       arg |-> k, then |-> then])
  BY DEF loadKeys, o
<1> HIDE DEF q
<1>6. CASE p.cluster = Nil
  <2> DEFINE e == [q EXCEPT !.items = Nil]
  <2>1. q \in Page
    BY <1>4 DEF Coherent
  <2>2. e = [q EXCEPT !.items = Nil, !.covered = TRUE]
    BY <2>1, <1>4 DEF Page
  <2>3. Coherent(e) /\ Free(e) = Free(q) /\ e.covered = TRUE
    <3> DEFINE f == [q EXCEPT !.items = Nil, !.covered = TRUE]
    <3>1. Coherent(f) /\ Free(f) = Free(q) /\ f.covered = TRUE
      BY <1>4, CoverCoherent, TRUE \in BOOLEAN
    <3> HIDE DEF f
    <3>2. QED
      BY <3>1, <2>2 DEF f
  <2>4. Listed(e)
    BY <2>3 DEF Listed
  <2> HIDE DEF e
  <2>5. QED
    BY <2>3, <2>4, <1>1, <1>4, <1>5, <1>6, AfterListCoherent DEF e
<1>7. CASE p.cluster # Nil
  <2> DEFINE c == [fn |-> "list", cluster |-> p.cluster, latest |-> TRUE,
                   arg |-> k, then |-> then]
  <2>1. p.cluster \in Clusters
    BY <1>7 DEF Coherent, Page
  <2>2. c \in Call
    BY <2>1 DEF Call, Thens
  <2>3. CallCoherent(c, q.context)
    BY DEF CallCoherent
  <2> HIDE DEF c
  <2>4. Coherent(Send(q, c)) /\ Same(q, Send(q, c))
    BY <2>2, <2>3, <1>1, <1>4, SendCoherent
  <2>5. QED
    BY <2>4, <1>4, <1>5, <1>7 DEF Listed, Same, c
<1>8. QED
  BY <1>6, <1>7

(* closeEditor, also together with a change of the cluster.                 *)
LEMMA ClosedCoherent ==
    ASSUME NEW p, Coherent(p), NEW cluster \in Clusters \cup {Nil},
           NEW items \in Clusters \cup {Nil}
    PROVE  LET q == closeEditor([p EXCEPT !.cluster = cluster, !.items = items])
           IN  /\ Coherent(q) /\ Free(q) = Free(p)
               /\ q.cluster = cluster /\ q.items = items /\ q.covered = p.covered
<1> DEFINE o == [p EXCEPT !.cluster = cluster, !.items = items]
           q == [o EXCEPT !.selected = Nil, !.creating = FALSE, !.filled = Nil]
<1>1. p \in Page
  BY DEF Coherent
<1>2. o \in Page
  BY <1>1 DEF Page
<1>3. /\ o.calls = p.calls /\ o.context = p.context /\ o.preview = p.preview
      /\ o.unconfirmed = p.unconfirmed /\ o.cluster = cluster /\ o.items = items
      /\ o.covered = p.covered /\ o.dialog = p.dialog /\ o.named = p.named
  BY <1>1 DEF Page
<1>4. closeEditor(o) = q
  BY DEF closeEditor
<1> HIDE DEF o
<1>5. q \in Page
  BY <1>2 DEF Page
<1>6. /\ q.calls = o.calls /\ q.context = o.context /\ q.preview = o.preview
      /\ q.unconfirmed = o.unconfirmed /\ q.cluster = o.cluster /\ q.items = o.items
      /\ q.covered = o.covered /\ q.selected = Nil /\ q.creating = FALSE
      /\ q.dialog = o.dialog /\ q.named = o.named
  BY <1>2 DEF Page
<1> HIDE DEF q
<1>7. UnderWay(q) = UnderWay(p) /\ Free(q) = Free(p)
  BY <1>3, <1>6 DEF UnderWay, Free
<1>8. Coherent(q)
  BY <1>3, <1>5, <1>6, <1>7 DEF Coherent, EditorCoherent, DialogCoherent
<1>9. QED
  BY <1>3, <1>4, <1>6, <1>7, <1>8 DEF o

LEMMA CloseEditorCoherent ==
    ASSUME NEW p, Coherent(p)
    PROVE  LET q == closeEditor(p)
           IN  Coherent(q) /\ Free(q) = Free(p) /\ (Listed(p) => Listed(q))
<1> DEFINE q == [p EXCEPT !.selected = Nil, !.creating = FALSE, !.filled = Nil]
<1>1. p \in Page
  BY DEF Coherent
<1>2. closeEditor(p) = q
  BY DEF closeEditor
<1>3. q \in Page
  BY <1>1 DEF Page
<1>4. /\ q.calls = p.calls /\ q.context = p.context /\ q.preview = p.preview
      /\ q.unconfirmed = p.unconfirmed /\ q.cluster = p.cluster /\ q.items = p.items
      /\ q.covered = p.covered /\ q.selected = Nil /\ q.creating = FALSE
      /\ q.dialog = p.dialog /\ q.named = p.named
  BY <1>1 DEF Page
<1> HIDE DEF q
<1>5. UnderWay(q) = UnderWay(p) /\ Free(q) = Free(p)
  BY <1>4 DEF UnderWay, Free
<1>6. Coherent(q)
  BY <1>3, <1>4, <1>5 DEF Coherent, EditorCoherent, DialogCoherent
<1>7. QED
  BY <1>2, <1>4, <1>5, <1>6 DEF Listed

LEMMA ContextTyped ==
    ASSUME NEW p, Coherent(p), p.context # Nil
    PROVE  /\ p.context \in Context /\ p.context.cluster \in Clusters
           /\ p.context.key \in Keys /\ p.context.mod \in Revisions
           /\ p.context.from \in Detail /\ p.context.target \in Revisions \cup {Nil}
           /\ p.context.from = [cluster |-> p.context.cluster, key |-> p.context.key,
                                mod |-> p.context.mod]
<1>1. p.context \in Context
  BY DEF Coherent, Page
<1>2. QED
  BY <1>1 DEF Context, Coherent, DialogCoherent

LEMMA SelectedTyped ==
    ASSUME NEW p, Coherent(p), p.selected # Nil
    PROVE  /\ p.selected \in Detail /\ p.cluster \in Clusters
           /\ p.selected.key \in Keys /\ p.selected.mod \in Revisions
           /\ p.selected = [cluster |-> p.cluster, key |-> p.selected.key,
                            mod |-> p.selected.mod]
           /\ p.filled = p.selected /\ ~p.creating
<1>1. p.selected \in Detail
  BY DEF Coherent, Page
<1>2. p.selected.cluster = p.cluster /\ p.filled = p.selected /\ ~p.creating
  BY DEF Coherent, EditorCoherent
<1>3. QED
  BY <1>1, <1>2 DEF Detail

(* A page with another context, whose older requests are outdated already.  *)
LEMMA SelectVersionCoherent ==
    ASSUME NEW p, Coherent(p), p.context # Nil, NEW t \in Revisions,
           NEW by \in {"open", "user"}, Free(p) # {}
    PROVE  LET q == selectRollbackVersion(p, t, by)
           IN  Coherent(q) /\ (Listed(p) => Listed(q))
<1> DEFINE o == Outdate(p, {"preview"})
           context == [p.context EXCEPT !.target = t]
           q == [o EXCEPT !.context = context, !.unconfirmed = TRUE, !.preview = Nil]
           c == [fn |-> "preview", target |-> t, latest |-> TRUE, by |-> by]
<1>1. /\ p \in Page /\ o \in Page /\ Same(p, o) /\ Free(o) = Free(p)
      /\ \A d \in UnderWay(o) : \E e \in UnderWay(p) : d = Older(e, {"preview"})
  BY OutdateKeeps DEF Coherent
<1>2. /\ context \in Context /\ context.target = t /\ context.from = p.context.from
      /\ context.cluster = p.context.cluster /\ context.key = p.context.key
      /\ context.mod = p.context.mod /\ context # Nil
  BY ContextTyped DEF Context
<1>3. selectRollbackVersion(p, t, by) = Send(q, c)
  <2>1. o.context = p.context /\ o \in Page
    BY <1>1 DEF Same
  <2>2. [o EXCEPT !.context.target = t, !.unconfirmed = TRUE, !.preview = Nil] = q
    BY <2>1 DEF Page
  <2>3. QED
    BY <2>2 DEF selectRollbackVersion
<1>4. c \in Call
  BY DEF Call
<1> HIDE DEF o, context
<1>5. q \in Page
  <2>1. o \in Page
    BY <1>1
  <2>2. QED
    BY <2>1, <1>2 DEF Page
<1>6. /\ q.calls = o.calls /\ q.context = context /\ q.unconfirmed = TRUE
      /\ SameButDialog(o, q)
  <2>1. o \in Page
    BY <1>1
  <2>2. QED
    BY <2>1 DEF Page, SameButDialog
<1> HIDE DEF q
<1>7. UnderWay(q) = UnderWay(o) /\ Free(q) = Free(p)
  BY <1>1, <1>6 DEF UnderWay, Free
<1>8. ASSUME NEW d \in UnderWay(q)
      PROVE  CallCoherent(d, context)
  <2>1. PICK e \in UnderWay(p) : d = Older(e, {"preview"})
    BY <1>1, <1>7
  <2>2. e \in Call /\ CallCoherent(e, p.context)
    BY <1>1, UnderWayTyped DEF Coherent
  <2>3. QED
    BY <2>1, <2>2, <1>2, OlderCoherent
<1>9. SameButDialog(p, q)
  BY <1>1, <1>6 DEF Same, SameButDialog
<1>10. Coherent(q)
  <2>1. EditorCoherent(q)
    BY <1>9 DEF SameButDialog, Coherent, EditorCoherent
  <2>2. DialogCoherent(q)
    BY <1>2, <1>6, <1>9, ContextTyped DEF SameButDialog, Coherent, DialogCoherent
  <2>3. QED
    BY <2>1, <2>2, <1>5, <1>6, <1>8 DEF Coherent
<1>11. CallCoherent(c, q.context)
  BY <1>2, <1>6 DEF CallCoherent
<1> HIDE DEF c
<1>12. Coherent(Send(q, c)) /\ Same(q, Send(q, c))
  BY <1>4, <1>7, <1>10, <1>11, SendCoherent
<1>13. QED
  BY <1>3, <1>9, <1>12 DEF Listed, Same, SameButDialog

LEMMA PreviewOpenedCoherent ==
    ASSUME NEW p, Coherent(p), NEW by
    PROVE  LET q == PreviewOpened(p, by)
           IN  Coherent(q) /\ (Listed(p) => Listed(q))
<1>1. CASE by = "open"
  <2> DEFINE q == [p EXCEPT !.opening = FALSE]
  <2>1. PreviewOpened(p, by) = q
    BY <1>1 DEF PreviewOpened
  <2>2. p \in Page
    BY DEF Coherent
  <2>3. q \in Page /\ q.calls = p.calls
    BY <2>2 DEF Page
  <2>4. /\ q.cluster = p.cluster /\ q.selected = p.selected /\ q.creating = p.creating
        /\ q.filled = p.filled /\ q.context = p.context /\ q.preview = p.preview
        /\ q.unconfirmed = p.unconfirmed /\ q.covered = p.covered /\ q.items = p.items
        /\ q.dialog = p.dialog /\ q.named = p.named
    BY <2>2 DEF Page
  <2> HIDE DEF q
  <2>5. UnderWay(q) = UnderWay(p)
    BY <2>3 DEF UnderWay
  <2>6. QED
    BY <2>1, <2>3, <2>4, <2>5, CoherentFrame DEF Listed, Coherent, DialogCoherent
<1>2. CASE by # "open"
  BY <1>2 DEF PreviewOpened
<1>3. QED
  BY <1>1, <1>2

LEMMA DismissedCoherent ==
    ASSUME NEW p, Coherent(p)
    PROVE  LET q == DismissedRollback(p)
           IN  Coherent(q) /\ (Listed(p) => Listed(q)) /\ Free(q) = Free(p)
<1> DEFINE o == [p EXCEPT !.dialog = "none"]
           q == SetContext(o, Nil)
<1>1. p \in Page
  BY DEF Coherent
<1>2. o \in Page /\ o.calls = p.calls
  BY <1>1 DEF Page
<1>3. /\ o.cluster = p.cluster /\ o.selected = p.selected /\ o.creating = p.creating
      /\ o.filled = p.filled /\ o.context = p.context /\ o.preview = p.preview
      /\ o.unconfirmed = p.unconfirmed /\ o.covered = p.covered /\ o.items = p.items
      /\ o.dialog = "none"
  BY <1>1 DEF Page
<1>4. DismissedRollback(p) = q
  BY DEF DismissedRollback
<1> HIDE DEF o
<1>5. UnderWay(o) = UnderWay(p) /\ Free(o) = Free(p)
  BY <1>2 DEF UnderWay, Free
<1>6. Coherent(o)
  BY <1>2, <1>3, <1>5, CoherentFrame
<1>7. Coherent(q) /\ SameButDialog(o, q) /\ Free(q) = Free(o)
  BY <1>6, SetContextCoherent
<1> HIDE DEF q
<1>8. QED
  BY <1>3, <1>4, <1>5, <1>7 DEF Listed, SameButDialog

-----------------------------------------------------------------------------
(* The user's actions.                                                      *)

LEMMA LoadListKeeps ==
    ASSUME PageInv, Search \/ Refresh
    PROVE  PageInv'
<1>1. Free(page) # {} /\ "" \in Thens /\ "refresh" \in Thens /\ Nil \in Keys \cup {Nil}
  BY DEF Search, Refresh, User, Room, Thens
<1>2. page' = loadKeys(page, "", Nil) \/ page' = loadKeys(page, "refresh", Nil)
  BY DEF Search, Refresh
<1>3. Coherent(loadKeys(page, "", Nil)) /\ Listed(loadKeys(page, "", Nil))
  BY <1>1, LoadKeysCoherent DEF PageInv
<1>4. Coherent(loadKeys(page, "refresh", Nil)) /\ Listed(loadKeys(page, "refresh", Nil))
  BY <1>1, LoadKeysCoherent DEF PageInv
<1>5. QED
  BY <1>2, <1>3, <1>4, Zenon DEF PageInv

LEMMA ChangeClusterKeeps ==
    ASSUME PageInv, NEW c \in Clusters, activateCluster(c)
    PROVE  PageInv'
<1> DEFINE q == closeEditor([page EXCEPT !.cluster = c, !.items = Nil])
<1>1. Free(page) # {} /\ "" \in Thens /\ page' = loadKeys(q, "", Nil)
  BY DEF activateCluster, User, Room, Thens
<1>2. Coherent(q) /\ Free(q) = Free(page)
  BY ClosedCoherent DEF PageInv
<1> HIDE DEF q
<1>3. Coherent(loadKeys(q, "", Nil)) /\ Listed(loadKeys(q, "", Nil))
  BY <1>1, <1>2, LoadKeysCoherent
<1>4. QED
  BY <1>1, <1>3 DEF PageInv

LEMMA LoadClustersKeeps ==
    ASSUME PageInv, NEW c \in Clusters \cup {Nil}, loadClusters(c)
    PROVE  PageInv'
<1> DEFINE o == [page EXCEPT !.cluster = c]
           q == closeEditor(o)
<1>1. /\ Free(page) # {} /\ "" \in Thens
      /\ page' = IF c = Nil THEN [q EXCEPT !.items = Nil, !.covered = TRUE]
                            ELSE loadKeys(q, "", Nil)
  BY DEF loadClusters, Room, Thens
<1>2. page \in Page
  BY DEF PageInv, Coherent
<1>3. o = [page EXCEPT !.cluster = c, !.items = page.items] /\ page.items \in Clusters \cup {Nil}
  BY <1>2 DEF Page
<1>4. Coherent(q) /\ Free(q) = Free(page)
  <2>1. PICK items \in Clusters \cup {Nil} : items = page.items
    BY <1>3
  <2> DEFINE e == [page EXCEPT !.cluster = c, !.items = items]
  <2>2. Coherent(closeEditor(e)) /\ Free(closeEditor(e)) = Free(page)
    BY ClosedCoherent DEF PageInv
  <2>3. o = e
    BY <1>3, <2>1
  <2> HIDE DEF e, o
  <2>4. QED
    BY <2>2, <2>3
<1> HIDE DEF q
<1>5. CASE c = Nil
  <2> DEFINE e == [q EXCEPT !.items = Nil, !.covered = TRUE]
  <2>1. Coherent(e) /\ e.covered = TRUE
    BY <1>4, CoverCoherent, TRUE \in BOOLEAN
  <2> HIDE DEF e
  <2>2. page' = e
    BY <1>1, <1>5 DEF e
  <2>3. QED
    BY <2>1, <2>2 DEF PageInv, Listed
<1>6. CASE c # Nil
  <2>1. Coherent(loadKeys(q, "", Nil)) /\ Listed(loadKeys(q, "", Nil))
    BY <1>1, <1>4, LoadKeysCoherent
  <2>2. QED
    BY <2>1, <1>1, <1>6 DEF PageInv
<1>7. QED
  BY <1>5, <1>6

LEMMA OpenItemKeeps ==
    ASSUME PageInv, NEW k \in Keys, OpenItem(k)
    PROVE  PageInv'
<1>1. Free(page) # {} /\ page' = loadKey(page, k, "") /\ "" \in {"", "save", "rollback"}
  BY DEF OpenItem, User, Room
<1>2. QED
  BY <1>1, LoadKeyCoherent DEF PageInv

LEMMA BeginCreateKeeps ==
    ASSUME PageInv, beginCreate
    PROVE  PageInv'
<1> DEFINE o == [page EXCEPT !.creating = TRUE, !.selected = Nil]
<1>1. page \in Page /\ page.cluster # Nil
  BY DEF PageInv, Coherent, beginCreate
<1>2. o \in Page
  BY <1>1 DEF Page
<1>3. /\ o.calls = page.calls /\ o.context = page.context
      /\ o.preview = page.preview /\ o.unconfirmed = page.unconfirmed
      /\ o.cluster = page.cluster /\ o.items = page.items
      /\ o.covered = page.covered /\ o.dialog = page.dialog
      /\ o.named = page.named /\ o.selected = Nil /\ o.creating = TRUE
  BY <1>1 DEF Page
<1>4. page' = [o EXCEPT !.filled = Nil, !.opening = FALSE]
  BY DEF beginCreate, showEditor
<1> HIDE DEF o
<1>5. page' \in Page
  BY <1>2, <1>4 DEF Page
<1>6. /\ page'.calls = o.calls /\ page'.context = o.context
      /\ page'.preview = o.preview /\ page'.unconfirmed = o.unconfirmed
      /\ page'.cluster = o.cluster /\ page'.items = o.items
      /\ page'.covered = o.covered /\ page'.dialog = o.dialog
      /\ page'.named = o.named /\ page'.selected = Nil /\ page'.filled = Nil
  BY <1>2, <1>3, <1>4 DEF Page
<1>7. UnderWay(page') = UnderWay(page)
  BY <1>3, <1>6 DEF UnderWay
<1>8. EditorCoherent(page') /\ DialogCoherent(page') /\ Listed(page')
  BY <1>1, <1>3, <1>6 DEF PageInv, Coherent, EditorCoherent, DialogCoherent, Listed
<1>9. \A c \in UnderWay(page') : CallCoherent(c, page'.context)
  BY <1>3, <1>6, <1>7 DEF PageInv, Coherent
<1>10. QED
  BY <1>5, <1>8, <1>9, Zenon DEF PageInv, Coherent

LEMMA CancelEditorKeeps ==
    ASSUME PageInv, CancelEditor
    PROVE  PageInv'
<1>1. page' = closeEditor(page)
  BY DEF CancelEditor
<1>2. Coherent(closeEditor(page)) /\ Listed(closeEditor(page))
  BY CloseEditorCoherent DEF PageInv
<1>3. QED
  BY <1>1, <1>2 DEF PageInv

(* The requests that write carry what they were sent for.                   *)
LEMMA PutTyped ==
    ASSUME NEW p, Coherent(p), NEW k \in Keys, p.selected # Nil \/ p.creating,
           ~p.creating => k = p.selected.key
    PROVE  LET c == [fn |-> "put", cluster |-> p.cluster, key |-> k,
                     mod |-> IF p.creating THEN 0 ELSE p.selected.mod, from |-> p.filled]
           IN  c \in Call /\ \A context : CallCoherent(c, context)
<1> DEFINE c == [fn |-> "put", cluster |-> p.cluster, key |-> k,
                 mod |-> IF p.creating THEN 0 ELSE p.selected.mod, from |-> p.filled]
<1>1. CASE p.creating
  <2>1. p.filled = Nil /\ p.cluster \in Clusters
    BY <1>1 DEF Coherent, EditorCoherent, Page
  <2>2. c = [fn |-> "put", cluster |-> p.cluster, key |-> k, mod |-> 0, from |-> Nil]
    BY <1>1, <2>1
  <2>3. 0 \in 0..MaxRevision
    OBVIOUS
  <2> HIDE DEF c
  <2>4. c \in Call
    BY <2>1, <2>2, <2>3 DEF Call
  <2>5. \A context : CallCoherent(c, context)
    BY <2>2 DEF CallCoherent
  <2>6. QED
    BY <2>4, <2>5 DEF c
<1>2. CASE ~p.creating
  <2>1. /\ p.selected \in Detail /\ p.cluster \in Clusters /\ p.selected.mod \in Revisions
        /\ p.selected = [cluster |-> p.cluster, key |-> k, mod |-> p.selected.mod]
        /\ p.filled = p.selected
    BY <1>2, SelectedTyped
  <2>2. c = [fn |-> "put", cluster |-> p.cluster, key |-> k, mod |-> p.selected.mod,
             from |-> p.selected]
    BY <1>2, <2>1
  <2>3. p.selected.mod \in 0..MaxRevision /\ p.selected.mod # 0
    BY <2>1 DEF Revisions
  <2> HIDE DEF c
  <2>4. c \in Call
    BY <2>1, <2>2, <2>3 DEF Call
  <2>5. \A context : CallCoherent(c, context)
    BY <2>1, <2>2, <2>3 DEF CallCoherent
  <2>6. QED
    BY <2>4, <2>5 DEF c
<1>3. QED
  BY <1>1, <1>2

LEMMA DeleteTyped ==
    ASSUME NEW p, Coherent(p), p.selected # Nil, NEW named \in Detail, NEW how
    PROVE  LET c == [fn |-> "delete", cluster |-> p.cluster, key |-> p.selected.key,
                     mod |-> p.selected.mod, from |-> p.selected, named |-> named,
                     confirmed |-> how = "confirm"]
           IN  c \in Call /\ \A context : CallCoherent(c, context)
<1> DEFINE c == [fn |-> "delete", cluster |-> p.cluster, key |-> p.selected.key,
                 mod |-> p.selected.mod, from |-> p.selected, named |-> named,
                 confirmed |-> how = "confirm"]
<1>1. /\ p.selected \in Detail /\ p.cluster \in Clusters
      /\ p.selected.key \in Keys /\ p.selected.mod \in Revisions
      /\ p.selected = [cluster |-> p.cluster, key |-> p.selected.key,
                       mod |-> p.selected.mod]
  BY SelectedTyped
<1>2. (how = "confirm") \in BOOLEAN
  OBVIOUS
<1>3. c \in Call
  BY <1>1, <1>2 DEF Call
<1>4. \A context : CallCoherent(c, context)
  BY <1>1 DEF CallCoherent
<1> HIDE DEF c
<1>5. QED
  BY <1>3, <1>4 DEF c

LEMMA RollbackTyped ==
    ASSUME NEW p, Coherent(p), p.context # Nil, p.context.target # Nil, ~p.unconfirmed
    PROVE  LET c == [fn |-> "rollback", cluster |-> p.context.cluster, key |-> p.context.key,
                     mod |-> p.context.mod, target |-> p.context.target,
                     from |-> p.context.from, preview |-> p.preview]
           IN  c \in Call /\ \A context : CallCoherent(c, context)
<1> DEFINE c == [fn |-> "rollback", cluster |-> p.context.cluster, key |-> p.context.key,
                 mod |-> p.context.mod, target |-> p.context.target,
                 from |-> p.context.from, preview |-> p.preview]
<1>1. /\ p.context.cluster \in Clusters /\ p.context.key \in Keys
      /\ p.context.mod \in Revisions /\ p.context.from \in Detail
      /\ p.context.target \in Revisions
      /\ p.context.from = [cluster |-> p.context.cluster, key |-> p.context.key,
                           mod |-> p.context.mod]
  BY ContextTyped
<1>2. p.preview = p.context.target
  BY DEF Coherent, DialogCoherent
<1>3. c \in Call
  BY <1>1, <1>2 DEF Call
<1>4. \A context : CallCoherent(c, context)
  BY <1>1, <1>2 DEF CallCoherent
<1> HIDE DEF c
<1>5. QED
  BY <1>3, <1>4 DEF c

LEMMA SaveKeyKeeps ==
    ASSUME PageInv, NEW k \in Keys, saveKey(k)
    PROVE  PageInv'
<1> DEFINE q == [page EXCEPT !.saving = TRUE]
           c == [fn |-> "put", cluster |-> page.cluster, key |-> k,
                 mod |-> IF page.creating THEN 0 ELSE page.selected.mod,
                 from |-> page.filled]
<1>1. /\ Free(page) # {} /\ page' = Send(q, c)
      /\ page.selected # Nil \/ page.creating
      /\ ~page.creating => k = page.selected.key
  BY DEF saveKey, User, Room, EditorIsOpen
<1>2. page \in Page
  BY DEF PageInv, Coherent
<1>3. q \in Page /\ q.calls = page.calls
  BY <1>2 DEF Page
<1>4. /\ q.cluster = page.cluster /\ q.selected = page.selected /\ q.creating = page.creating
      /\ q.filled = page.filled /\ q.context = page.context /\ q.preview = page.preview
      /\ q.unconfirmed = page.unconfirmed /\ q.covered = page.covered
      /\ q.items = page.items /\ q.dialog = page.dialog /\ q.named = page.named
  BY <1>2 DEF Page
<1>5. c \in Call /\ \A context : CallCoherent(c, context)
  BY <1>1, PutTyped DEF PageInv
<1> HIDE DEF q, c
<1>6. UnderWay(q) = UnderWay(page) /\ Free(q) = Free(page)
  BY <1>3 DEF UnderWay, Free
<1>7. Coherent(q)
  BY <1>3, <1>4, <1>6, CoherentFrame DEF PageInv, Coherent, DialogCoherent
<1>8. Coherent(Send(q, c)) /\ Same(q, Send(q, c))
  BY <1>1, <1>5, <1>6, <1>7, SendCoherent
<1>9. QED
  BY <1>1, <1>4, <1>8 DEF PageInv, Listed, Same

LEMMA OpenDeleteKeeps ==
    ASSUME PageInv, OpenDelete
    PROVE  PageInv'
<1>1. page \in Page /\ page.selected # Nil
      /\ page' = [page EXCEPT !.dialog = "delete", !.named = page.selected]
  BY DEF PageInv, Coherent, OpenDelete
<1>2. page' \in Page
  BY <1>1 DEF Page
<1>3. /\ page'.calls = page.calls /\ page'.context = page.context
      /\ page'.preview = page.preview /\ page'.unconfirmed = page.unconfirmed
      /\ page'.cluster = page.cluster /\ page'.items = page.items
      /\ page'.covered = page.covered /\ page'.selected = page.selected
      /\ page'.creating = page.creating /\ page'.filled = page.filled
      /\ page'.named # Nil
  BY <1>1 DEF Page
<1>4. UnderWay(page)' = UnderWay(page)
  BY <1>3 DEF UnderWay
<1>5. Coherent(page')
  BY <1>2, <1>3, <1>4, CoherentFrame DEF PageInv
<1>6. QED
  BY <1>3, <1>5 DEF PageInv, Listed

LEMMA CloseDeleteKeeps ==
    ASSUME PageInv, NEW how \in {"cancel", "confirm", "esc"}, CloseDelete(how)
    PROVE  PageInv'
<1> DEFINE p == [page EXCEPT !.dialog = "none", !.named = Nil,
                             !.deleteReturn = IF how = "esc" THEN @ ELSE how]
<1>1. /\ Free(page) # {} /\ page.dialog = "delete"
      /\ page' = IF p.deleteReturn = "confirm" THEN deleteSelected(p, page.named, how) ELSE p
  BY DEF CloseDelete, User, Room
<1>2. page \in Page /\ page.named \in Detail
  BY <1>1 DEF PageInv, Coherent, DialogCoherent, Page
<1>3. p \in Page
  <2> DEFINE return == IF how = "esc" THEN page.deleteReturn ELSE how
  <2>1. return \in {"", "cancel", "confirm"}
    BY <1>2 DEF Page
  <2>2. p = [page EXCEPT !.dialog = "none", !.named = Nil, !.deleteReturn = return]
    BY <1>2 DEF Page
  <2> HIDE DEF return, p
  <2>3. QED
    BY <1>2, <2>1, <2>2 DEF Page
<1>4. /\ p.cluster = page.cluster /\ p.selected = page.selected /\ p.creating = page.creating
      /\ p.filled = page.filled /\ p.context = page.context /\ p.preview = page.preview
      /\ p.unconfirmed = page.unconfirmed /\ p.covered = page.covered
      /\ p.items = page.items /\ p.dialog = "none" /\ p.calls = page.calls
  BY <1>2 DEF Page
<1> HIDE DEF p
<1>5. UnderWay(p) = UnderWay(page) /\ Free(p) = Free(page)
  BY <1>4 DEF UnderWay, Free
<1>6. Coherent(p) /\ Listed(p)
  BY <1>3, <1>4, <1>5, CoherentFrame DEF PageInv, Listed
<1>7. CASE p.selected = Nil \/ p.creating \/ p.deleteReturn # "confirm"
  BY <1>1, <1>6, <1>7 DEF deleteSelected, PageInv
<1>8. CASE p.selected # Nil /\ ~p.creating /\ p.deleteReturn = "confirm"
  <2> DEFINE q == [p EXCEPT !.deleting = TRUE]
             c == [fn |-> "delete", cluster |-> p.cluster, key |-> p.selected.key,
                   mod |-> p.selected.mod, from |-> p.selected, named |-> page.named,
                   confirmed |-> how = "confirm"]
  <2>1. page' = Send(q, c)
    BY <1>1, <1>8 DEF deleteSelected
  <2>2. q \in Page /\ q.calls = p.calls
    BY <1>3 DEF Page
  <2>3. /\ q.cluster = p.cluster /\ q.selected = p.selected /\ q.creating = p.creating
        /\ q.filled = p.filled /\ q.context = p.context /\ q.preview = p.preview
        /\ q.unconfirmed = p.unconfirmed /\ q.covered = p.covered
        /\ q.items = p.items /\ q.dialog = p.dialog
    BY <1>3 DEF Page
  <2>4. c \in Call /\ \A context : CallCoherent(c, context)
    BY <1>2, <1>6, <1>8, DeleteTyped
  <2> HIDE DEF q, c
  <2>8. UnderWay(q) = UnderWay(p) /\ Free(q) = Free(p)
    BY <2>2 DEF UnderWay, Free
  <2>9. Coherent(q)
    BY <1>4, <1>6, <2>2, <2>3, <2>8, CoherentFrame
  <2>10. Coherent(Send(q, c)) /\ Same(q, Send(q, c))
    BY <1>1, <1>5, <2>4, <2>8, <2>9, SendCoherent
  <2>11. QED
    BY <1>6, <2>1, <2>3, <2>10 DEF PageInv, Listed, Same
<1>9. QED
  BY <1>7, <1>8

LEMMA PreviewRollbackKeeps ==
    ASSUME PageInv, previewRollback
    PROVE  PageInv'
<1> DEFINE s == page.selected
           context == [cluster |-> page.cluster, key |-> s.key, mod |-> s.mod,
                       from |-> s, target |-> Nil, listed |-> FALSE]
           p == SetContext(page, context)
           q == [p EXCEPT !.opening = TRUE, !.unconfirmed = TRUE,
                          !.preview = Nil, !.dialog = "rollback"]
           c == [fn |-> "versions", key |-> s.key, mod |-> s.mod,
                 latest |-> TRUE, by |-> "open"]
<1>1. Free(page) # {} /\ page.selected # Nil /\ page' = Send(q, c)
  BY DEF previewRollback, User, Room
<1>2. /\ s \in Detail /\ page.cluster \in Clusters /\ s.key \in Keys /\ s.mod \in Revisions
      /\ s = [cluster |-> page.cluster, key |-> s.key, mod |-> s.mod]
  BY <1>1, SelectedTyped DEF PageInv
<1> HIDE DEF s
<1>3. context \in Context
  BY <1>2 DEF Context
<1>4. /\ context.cluster = page.cluster /\ context.key = s.key /\ context.mod = s.mod
      /\ context.from = s /\ context.target = Nil
  OBVIOUS
<1>5. context # Nil
  BY <1>3
<1>6. c \in Call
  BY <1>2 DEF Call
<1>7. \A any : any # Nil => CallCoherent(c, any)
  BY DEF CallCoherent
<1> HIDE DEF context, c
<1>8. /\ Coherent(p) /\ Free(p) = Free(page) /\ p.context = context
      /\ SameButDialog(page, p)
  BY <1>2, <1>3, <1>4, SetContextCoherent DEF PageInv
<1> HIDE DEF p
<1>9. p \in Page
  BY <1>8 DEF Coherent
<1>10. q \in Page
  BY <1>9 DEF Page
<1>11. /\ q.calls = p.calls /\ q.context = p.context /\ q.unconfirmed = TRUE
       /\ q.cluster = p.cluster /\ q.items = p.items /\ q.covered = p.covered
       /\ q.selected = p.selected /\ q.creating = p.creating /\ q.filled = p.filled
       /\ q.dialog = "rollback"
  BY <1>9 DEF Page
<1> HIDE DEF q
<1>12. UnderWay(q) = UnderWay(p) /\ Free(q) = Free(p)
  BY <1>11 DEF UnderWay, Free
<1>13. Coherent(q)
  BY <1>8, <1>10, <1>11, <1>12 DEF Coherent, EditorCoherent, DialogCoherent
<1>14. Coherent(Send(q, c)) /\ Same(q, Send(q, c))
  BY <1>1, <1>5, <1>6, <1>7, <1>8, <1>11, <1>12, <1>13, SendCoherent
<1>15. QED
  BY <1>1, <1>8, <1>11, <1>14 DEF PageInv, Listed, Same, SameButDialog

LEMMA LoadMoreKeeps ==
    ASSUME PageInv, LoadMore
    PROVE  PageInv'
<1> DEFINE c == [fn |-> "versions", key |-> page.context.key, mod |-> page.context.mod,
                 latest |-> TRUE, by |-> "user"]
<1>1. Free(page) # {} /\ page.context # Nil /\ page' = Send(page, c)
  BY DEF LoadMore, User, Room
<1>2. page.context.key \in Keys /\ page.context.mod \in Revisions
  BY <1>1, ContextTyped DEF PageInv
<1>3. c \in Call
  BY <1>2 DEF Call
<1>4. CallCoherent(c, page.context)
  BY <1>1 DEF CallCoherent
<1> HIDE DEF c
<1>5. Coherent(Send(page, c)) /\ Same(page, Send(page, c))
  BY <1>1, <1>3, <1>4, SendCoherent DEF PageInv
<1>6. QED
  BY <1>1, <1>5 DEF PageInv, Listed, Same

LEMMA ChooseVersionKeeps ==
    ASSUME PageInv, NEW t \in Revisions, ChooseVersion(t)
    PROVE  PageInv'
<1>1. /\ Free(page) # {} /\ page.context # Nil /\ "user" \in {"open", "user"}
      /\ page' = selectRollbackVersion(page, t, "user")
  BY DEF ChooseVersion, User, Room
<1>2. /\ Coherent(selectRollbackVersion(page, t, "user"))
      /\ Listed(selectRollbackVersion(page, t, "user"))
  BY <1>1, SelectVersionCoherent DEF PageInv
<1>3. QED
  BY <1>1, <1>2 DEF PageInv

(* The button is enabled while the version chosen last is the one shown.    *)
LEMMA ConfirmRollbackKeeps ==
    ASSUME PageInv, ConfirmRollback
    PROVE  PageInv'
<1> DEFINE p == [page EXCEPT !.dialog = "none"]
<1>1. Free(page) # {} /\ ~page.unconfirmed /\ page' = rollbackSelected(p)
  BY DEF ConfirmRollback, User, Room
<1>2. page \in Page
  BY DEF PageInv, Coherent
<1>3. p \in Page
  BY <1>2 DEF Page
<1>4. /\ p.cluster = page.cluster /\ p.selected = page.selected /\ p.creating = page.creating
      /\ p.filled = page.filled /\ p.context = page.context /\ p.preview = page.preview
      /\ p.unconfirmed = page.unconfirmed /\ p.covered = page.covered
      /\ p.items = page.items /\ p.dialog = "none" /\ p.calls = page.calls
  BY <1>2 DEF Page
<1> HIDE DEF p
<1>5. UnderWay(p) = UnderWay(page) /\ Free(p) = Free(page)
  BY <1>4 DEF UnderWay, Free
<1>6. Coherent(p) /\ Listed(p)
  BY <1>3, <1>4, <1>5, CoherentFrame DEF PageInv, Listed
<1>7. CASE p.context = Nil \/ p.context.target = Nil
  <2>1. page' = p
    BY <1>1, <1>7 DEF rollbackSelected
  <2>2. QED
    BY <2>1, <1>6 DEF PageInv
<1>8. CASE p.context # Nil /\ p.context.target # Nil
  <2> DEFINE q == [p EXCEPT !.unconfirmed = TRUE, !.preview = Nil]
             c == [fn |-> "rollback", cluster |-> p.context.cluster, key |-> p.context.key,
                   mod |-> p.context.mod, target |-> p.context.target,
                   from |-> p.context.from, preview |-> p.preview]
  <2>1. page' = Send(q, c)
    BY <1>1, <1>8 DEF rollbackSelected
  <2>2. ~p.unconfirmed
    BY <1>1, <1>4
  <2>4. c \in Call /\ \A context : CallCoherent(c, context)
    BY <1>6, <1>8, <2>2, RollbackTyped
  <2>6. q \in Page
    BY <1>3 DEF Page
  <2>7. /\ q.cluster = p.cluster /\ q.selected = p.selected /\ q.creating = p.creating
        /\ q.filled = p.filled /\ q.context = p.context /\ q.unconfirmed = TRUE
        /\ q.covered = p.covered /\ q.items = p.items /\ q.dialog = p.dialog
        /\ q.calls = p.calls
    BY <1>3 DEF Page
  <2> HIDE DEF q, c
  <2>8. UnderWay(q) = UnderWay(p) /\ Free(q) = Free(p)
    BY <2>7 DEF UnderWay, Free
  <2>9. Coherent(q)
    BY <1>4, <1>6, <2>6, <2>7, <2>8 DEF Coherent, EditorCoherent, DialogCoherent
  <2>10. Coherent(Send(q, c)) /\ Same(q, Send(q, c))
    BY <1>1, <1>5, <2>4, <2>8, <2>9, SendCoherent
  <2>11. QED
    BY <1>6, <2>1, <2>7, <2>10 DEF PageInv, Listed, Same
<1>9. QED
  BY <1>7, <1>8

LEMMA DismissKeeps ==
    ASSUME PageInv, DismissRollback
    PROVE  PageInv'
<1>1. page' = DismissedRollback(page)
  BY DEF DismissRollback
<1>2. Coherent(DismissedRollback(page)) /\ Listed(DismissedRollback(page))
  BY DismissedCoherent DEF PageInv
<1>3. QED
  BY <1>1, <1>2 DEF PageInv

-----------------------------------------------------------------------------
(* The answers.                                                             *)

LEMMA AnsweredInv ==
    ASSUME PageInv, NEW c \in UnderWay(page)
    PROVE  LET p == Answered(page, c)
           IN  /\ Coherent(p) /\ Listed(p) /\ Free(p) # {} /\ Same(page, p)
               /\ c \in Call /\ CallCoherent(c, page.context)
<1>1. LET p == Answered(page, c)
      IN  /\ Coherent(p) /\ Free(p) # {} /\ Same(page, p)
          /\ c \in Call /\ CallCoherent(c, page.context)
  BY AnsweredCoherent DEF PageInv
<1>2. QED
  BY <1>1 DEF PageInv, Listed, Same

LEMMA AnswerListKeeps ==
    ASSUME PageInv, NEW c \in UnderWay(page), c.fn = "list", AnswerList(c)
    PROVE  PageInv'
<1> DEFINE p == Answered(page, c)
<1>1. /\ Coherent(p) /\ Listed(p) /\ Free(p) # {} /\ Same(page, p)
      /\ c \in Call /\ CallCoherent(c, page.context)
  BY AnsweredInv
<1>2. /\ c.cluster \in Clusters /\ c.then \in Thens /\ c.arg \in Keys \cup {Nil}
      /\ c.then \in {"save", "rollback"} => c.arg \in Keys
  BY <1>1, CallTyped DEF CallCoherent, Thens
<1>3. PICK result \in {"items", "empty", "error"} :
         page' = AfterList(IF Current(c)
                           THEN [p EXCEPT !.items = IF result = "items" THEN c.cluster ELSE Nil,
                                          !.covered = result # "items"]
                           ELSE p, c.then, c.arg)
  BY DEF AnswerList
<1>4. PICK items \in Clusters \cup {Nil} :
         items = IF result = "items" THEN c.cluster ELSE Nil
  BY <1>2
<1>5. PICK covered \in BOOLEAN : covered = (result # "items")
  OBVIOUS
<1> DEFINE e == [p EXCEPT !.items = items, !.covered = covered]
           q == IF Current(c) THEN e ELSE p
<1>6. page' = AfterList(q, c.then, c.arg)
  BY <1>3, <1>4, <1>5
<1> HIDE DEF p
<1>7. /\ Coherent(e) /\ Free(e) = Free(p) /\ e.items = items /\ e.covered = covered
      /\ e.cluster = p.cluster
  <2>1. p \in Page
    BY <1>1 DEF Coherent
  <2>2. Coherent(e) /\ Free(e) = Free(p)
    <3>1. CASE covered = TRUE
      <4> DEFINE f == [p EXCEPT !.items = items, !.covered = TRUE]
      <4>1. Coherent(f) /\ Free(f) = Free(p)
        BY <1>1, CoverCoherent, TRUE \in BOOLEAN
      <4>2. e = f
        BY <3>1
      <4> HIDE DEF f, e
      <4>3. QED
        BY <4>1, <4>2
    <3>2. CASE covered = FALSE
      <4> DEFINE f == [p EXCEPT !.items = items, !.covered = FALSE]
      <4>1. Coherent(f) /\ Free(f) = Free(p)
        BY <1>1, CoverCoherent, FALSE \in BOOLEAN
      <4>2. e = f
        BY <3>2
      <4> HIDE DEF f, e
      <4>3. QED
        BY <4>1, <4>2
    <3>3. QED
      BY <3>1, <3>2
  <2>3. e.items = items /\ e.covered = covered /\ e.cluster = p.cluster
    BY <2>1 DEF Page
  <2>4. QED
    BY <2>2, <2>3
<1> HIDE DEF e
<1>8. Coherent(q) /\ Free(q) # {}
  BY <1>1, <1>7
<1>9. Listed(q)
  BY <1>1, <1>4, <1>5, <1>7 DEF Listed, Current, Same
<1> HIDE DEF q
<1>10. Coherent(AfterList(q, c.then, c.arg)) /\ Listed(AfterList(q, c.then, c.arg))
  BY <1>2, <1>8, <1>9, AfterListCoherent
<1>11. QED
  BY <1>6, <1>10 DEF PageInv

LEMMA KeyReadKeeps ==
    ASSUME PageInv, NEW c \in UnderWay(page), c.fn = "load", KeyRead(c)
    PROVE  PageInv'
<1> DEFINE p == Answered(page, c)
<1>1. /\ Coherent(p) /\ Listed(p) /\ Free(p) # {} /\ Same(page, p) /\ c \in Call
  BY AnsweredInv
<1>2. c.cluster \in Clusters /\ c.key \in Keys
  BY <1>1, CallTyped
<1>3. PICK m \in Revisions :
         LET d == [cluster |-> c.cluster, key |-> c.key, mod |-> m]
         IN  page' = Finally(IF Current(c)
                             THEN showEditor([p EXCEPT !.selected = d, !.creating = FALSE], d)
                             ELSE p, c.then)
  BY DEF KeyRead
<1> DEFINE d == [cluster |-> c.cluster, key |-> c.key, mod |-> m]
           o == [p EXCEPT !.selected = d, !.creating = FALSE]
           e == [o EXCEPT !.filled = d, !.opening = FALSE]
           q == IF Current(c) THEN e ELSE p
<1>4. page' = Finally(q, c.then)
  BY <1>3 DEF showEditor
<1>5. d \in Detail /\ d.cluster = c.cluster
  BY <1>2 DEF Detail
<1>6. p \in Page
  BY <1>1 DEF Coherent
<1> HIDE DEF p, d
<1>7. o \in Page
  BY <1>5, <1>6 DEF Page
<1>8. /\ o.calls = p.calls /\ o.context = p.context /\ o.preview = p.preview
      /\ o.unconfirmed = p.unconfirmed /\ o.cluster = p.cluster /\ o.items = p.items
      /\ o.covered = p.covered /\ o.selected = d /\ o.creating = FALSE
      /\ o.dialog = p.dialog /\ o.named = p.named
  BY <1>6 DEF Page
<1> HIDE DEF o
<1>9. e \in Page
  BY <1>5, <1>7 DEF Page
<1>10. /\ e.calls = o.calls /\ e.context = o.context /\ e.preview = o.preview
       /\ e.unconfirmed = o.unconfirmed /\ e.cluster = o.cluster /\ e.items = o.items
       /\ e.covered = o.covered /\ e.selected = o.selected /\ e.creating = o.creating
       /\ e.dialog = o.dialog /\ e.named = o.named /\ e.filled = d
  BY <1>7 DEF Page
<1> HIDE DEF e
<1>11. UnderWay(e) = UnderWay(p)
  BY <1>8, <1>10 DEF UnderWay
<1>12. ASSUME Current(c)
       PROVE  Coherent(e) /\ Listed(e)
  <2>1. d.cluster = p.cluster
    BY <1>1, <1>5, <1>12 DEF Current, Same
  <2>2. EditorCoherent(e)
    BY <2>1, <1>8, <1>10 DEF EditorCoherent
  <2>3. DialogCoherent(e) /\ Listed(e)
    BY <1>1, <1>8, <1>10 DEF Coherent, DialogCoherent, Listed
  <2>4. QED
    BY <2>2, <2>3, <1>1, <1>8, <1>9, <1>10, <1>11 DEF Coherent
<1>13. Coherent(q) /\ Listed(q)
  BY <1>1, <1>12
<1> HIDE DEF q
<1>14. Coherent(Finally(q, c.then)) /\ Listed(Finally(q, c.then))
  BY <1>13, FinallyCoherent
<1>15. QED
  BY <1>4, <1>14 DEF PageInv

LEMMA KeyNotReadKeeps ==
    ASSUME PageInv, NEW c \in UnderWay(page), KeyNotRead(c)
    PROVE  PageInv'
<1> DEFINE p == Answered(page, c)
<1>1. Coherent(p) /\ Listed(p) /\ Free(p) # {}
  BY AnsweredInv
<1>2. PICK gone \in BOOLEAN :
         page' = Finally(IF gone THEN loadKeys(p, "", Nil) ELSE p, c.then)
  BY DEF KeyNotRead
<1> DEFINE q == IF gone THEN loadKeys(p, "", Nil) ELSE p
<1> HIDE DEF p
<1>3. "" \in Thens /\ "" \notin {"save", "rollback"} /\ Nil \in Keys \cup {Nil}
  BY DEF Thens
<1>4. Coherent(loadKeys(p, "", Nil)) /\ Listed(loadKeys(p, "", Nil))
  BY <1>1, <1>3, LoadKeysCoherent
<1>5. Coherent(q) /\ Listed(q) /\ page' = Finally(q, c.then)
  BY <1>1, <1>2, <1>4
<1> HIDE DEF q
<1>6. Coherent(Finally(q, c.then)) /\ Listed(Finally(q, c.then))
  BY <1>5, FinallyCoherent
<1>7. QED
  BY <1>5, <1>6 DEF PageInv

LEMMA SavedKeeps ==
    ASSUME PageInv, NEW c \in UnderWay(page), c.fn = "put", Saved(c) \/ NotSaved(c)
    PROVE  PageInv'
<1> DEFINE p == Answered(page, c)
           k == IF p.creating THEN c.key ELSE p.selected.key
<1>1. Coherent(p) /\ Listed(p) /\ Free(p) # {} /\ c \in Call
  BY AnsweredInv
<1>2. \/ EditorIsOpen(p) /\ page' = loadKeys(p, "save", k)
      \/ page' = Finally(p, "save")
  BY DEF Saved, NotSaved
<1>3. Coherent(Finally(p, "save")) /\ Listed(Finally(p, "save"))
  BY <1>1, FinallyCoherent
<1>4. c.key \in Keys
  BY <1>1, CallTyped
<1>5. ASSUME EditorIsOpen(p) PROVE k \in Keys
  BY <1>1, <1>4, <1>5, SelectedTyped DEF EditorIsOpen
<1> HIDE DEF p, k
<1>6. "save" \in Thens
  BY DEF Thens
<1>7. ASSUME EditorIsOpen(p)
      PROVE  Coherent(loadKeys(p, "save", k)) /\ Listed(loadKeys(p, "save", k))
  BY <1>1, <1>5, <1>6, <1>7, LoadKeysCoherent
<1>8. QED
  BY <1>2, <1>3, <1>7, Zenon DEF PageInv

LEMMA DeletedKeeps ==
    ASSUME PageInv, NEW c \in UnderWay(page), DeletedKey(c) \/ NotDeleted(c)
    PROVE  PageInv'
<1> DEFINE p == Answered(page, c)
           q == closeEditor(p)
<1>1. Coherent(p) /\ Listed(p) /\ Free(p) # {}
  BY AnsweredInv
<1>2. page' = loadKeys(q, "delete", Nil) \/ page' = Finally(p, "delete")
  BY DEF DeletedKey, NotDeleted
<1> HIDE DEF p
<1>3. Coherent(Finally(p, "delete")) /\ Listed(Finally(p, "delete"))
  BY <1>1, FinallyCoherent
<1>4. Coherent(q) /\ Free(q) # {}
  BY <1>1, CloseEditorCoherent
<1> HIDE DEF q
<1>5. "delete" \in Thens /\ "delete" \notin {"save", "rollback"} /\ Nil \in Keys \cup {Nil}
  BY DEF Thens
<1>6. Coherent(loadKeys(q, "delete", Nil)) /\ Listed(loadKeys(q, "delete", Nil))
  BY <1>4, <1>5, LoadKeysCoherent
<1>7. QED
  BY <1>2, <1>3, <1>6, Zenon DEF PageInv

LEMMA VersionsListedCoherent ==
    ASSUME NEW p, Coherent(p), p.context # Nil
    PROVE  LET q == [p EXCEPT !.context.listed = TRUE]
           IN  /\ Coherent(q) /\ Free(q) = Free(p) /\ q.context # Nil
               /\ Listed(p) => Listed(q)
<1> DEFINE context == [p.context EXCEPT !.listed = TRUE]
           q == [p EXCEPT !.context = context]
<1>1. p \in Page
  BY DEF Coherent
<1>2. /\ context \in Context /\ context.target = p.context.target
      /\ context.from = p.context.from /\ context.cluster = p.context.cluster
      /\ context.key = p.context.key /\ context.mod = p.context.mod /\ context # Nil
  <2>1. p.context \in Context
    BY ContextTyped
  <2>2. QED
    BY <2>1, TRUE \in BOOLEAN DEF Context
<1>3. [p EXCEPT !.context.listed = TRUE] = q
  BY <1>1 DEF Page
<1> HIDE DEF context
<1>4. q \in Page
  BY <1>1, <1>2 DEF Page
<1>5. /\ q.calls = p.calls /\ q.context = context /\ q.preview = p.preview
      /\ q.unconfirmed = p.unconfirmed /\ q.cluster = p.cluster /\ q.items = p.items
      /\ q.covered = p.covered /\ q.selected = p.selected /\ q.creating = p.creating
      /\ q.filled = p.filled /\ q.dialog = p.dialog /\ q.named = p.named
  BY <1>1 DEF Page
<1> HIDE DEF q
<1>6. UnderWay(q) = UnderWay(p) /\ Free(q) = Free(p)
  BY <1>5 DEF UnderWay, Free
<1>7. EditorCoherent(q) /\ DialogCoherent(q)
  BY <1>2, <1>5 DEF Coherent, EditorCoherent, DialogCoherent
<1>8. \A c \in UnderWay(q) : CallCoherent(c, q.context)
  BY <1>2, <1>5, <1>6 DEF Coherent, CallCoherent
<1>9. QED
  BY <1>2, <1>3, <1>4, <1>5, <1>6, <1>7, <1>8 DEF Coherent, Listed

LEMMA VersionsReadKeeps ==
    ASSUME PageInv, NEW c \in UnderWay(page), c.fn = "versions", VersionsRead(c)
    PROVE  PageInv'
<1> DEFINE p == Answered(page, c)
           q == [p EXCEPT !.context.listed = TRUE]
<1>1. /\ Coherent(p) /\ Listed(p) /\ Free(p) # {} /\ Same(page, p)
      /\ c \in Call /\ CallCoherent(c, page.context)
  BY AnsweredInv
<1>2. c.by \in {"open", "user"}
  BY <1>1, CallTyped
<1>3. \/ c.latest /\ \E t \in Revisions : page' = selectRollbackVersion(q, t, c.by)
      \/ c.latest /\ page' = PreviewOpened(q, c.by)
      \/ page' = PreviewOpened(p, c.by)
  BY DEF VersionsRead
<1> HIDE DEF p
<1>4. ASSUME c.latest
      PROVE  Coherent(q) /\ Listed(q) /\ Free(q) # {} /\ q.context # Nil
  <2>1. p.context # Nil
    BY <1>1, <1>4 DEF CallCoherent, Same
  <2>2. QED
    BY <2>1, <1>1, VersionsListedCoherent
<1> HIDE DEF q
<1>5. ASSUME c.latest, NEW t \in Revisions
      PROVE  /\ Coherent(selectRollbackVersion(q, t, c.by))
             /\ Listed(selectRollbackVersion(q, t, c.by))
  BY <1>2, <1>4, <1>5, SelectVersionCoherent
<1>6. ASSUME c.latest
      PROVE  Coherent(PreviewOpened(q, c.by)) /\ Listed(PreviewOpened(q, c.by))
  BY <1>4, <1>6, PreviewOpenedCoherent
<1>7. Coherent(PreviewOpened(p, c.by)) /\ Listed(PreviewOpened(p, c.by))
  BY <1>1, PreviewOpenedCoherent
<1>8. QED
  BY <1>3, <1>5, <1>6, <1>7, Zenon DEF PageInv

LEMMA VersionsNotReadKeeps ==
    ASSUME PageInv, NEW c \in UnderWay(page), c.fn = "versions", VersionsNotRead(c)
    PROVE  PageInv'
<1> DEFINE p == Answered(page, c)
           q == IF p.dialog = "rollback" THEN DismissedRollback(p) ELSE p
<1>1. Coherent(p) /\ Listed(p) /\ Free(p) # {} /\ c \in Call
  BY AnsweredInv
<1>2. c.key \in Keys /\ "" \in {"", "save", "rollback"}
  BY <1>1, CallTyped
<1>3. \/ page' = PreviewOpened(loadKey(q, c.key, ""), c.by)
      \/ page' = PreviewOpened(q, c.by)
      \/ page' = p
  BY DEF VersionsNotRead
<1> HIDE DEF p
<1>4. Coherent(q) /\ Listed(q) /\ Free(q) # {}
  BY <1>1, DismissedCoherent
<1> HIDE DEF q
<1> DEFINE r == loadKey(q, c.key, "")
<1>5. Coherent(r) /\ Listed(r)
  BY <1>2, <1>4, LoadKeyCoherent
<1> HIDE DEF r
<1>6. Coherent(PreviewOpened(r, c.by)) /\ Listed(PreviewOpened(r, c.by))
  BY <1>5, PreviewOpenedCoherent
<1>7. Coherent(PreviewOpened(q, c.by)) /\ Listed(PreviewOpened(q, c.by))
  BY <1>4, PreviewOpenedCoherent
<1>8. QED
  BY <1>1, <1>3, <1>6, <1>7, Zenon DEF PageInv, r

LEMMA PreviewReadKeeps ==
    ASSUME PageInv, NEW c \in UnderWay(page), c.fn = "preview",
           PreviewRead(c) \/ PreviewNotRead(c)
    PROVE  PageInv'
<1> DEFINE p == Answered(page, c)
           q == [p EXCEPT !.preview = c.target, !.unconfirmed = FALSE]
<1>1. /\ Coherent(p) /\ Listed(p) /\ Same(page, p)
      /\ c \in Call /\ CallCoherent(c, page.context)
  BY AnsweredInv
<1>2. c.target \in Revisions
  BY <1>1, CallTyped
<1>3. \/ c.latest /\ page' = PreviewOpened(q, c.by)
      \/ page' = PreviewOpened(p, c.by)
  BY DEF PreviewRead, PreviewNotRead
<1> HIDE DEF p
<1>4. p \in Page
  BY <1>1 DEF Coherent
<1>5. q \in Page
  BY <1>2, <1>4 DEF Page
<1>6. /\ q.calls = p.calls /\ q.context = p.context /\ q.preview = c.target
      /\ q.cluster = p.cluster /\ q.items = p.items
      /\ q.covered = p.covered /\ q.selected = p.selected /\ q.creating = p.creating
      /\ q.filled = p.filled /\ q.dialog = p.dialog /\ q.named = p.named
  BY <1>4 DEF Page
<1> HIDE DEF q
<1>7. UnderWay(q) = UnderWay(p)
  BY <1>6 DEF UnderWay
<1>8. ASSUME c.latest
      PROVE  Coherent(q) /\ Listed(q)
  <2>1. p.context # Nil /\ p.context.target = c.target
    BY <1>1, <1>8 DEF CallCoherent, Same
  <2>2. EditorCoherent(q) /\ DialogCoherent(q) /\ Listed(q)
    BY <2>1, <1>1, <1>6 DEF Coherent, EditorCoherent, DialogCoherent, Listed
  <2>3. QED
    BY <2>2, <1>1, <1>5, <1>6, <1>7 DEF Coherent
<1>9. ASSUME c.latest
      PROVE  Coherent(PreviewOpened(q, c.by)) /\ Listed(PreviewOpened(q, c.by))
  BY <1>8, <1>9, PreviewOpenedCoherent
<1>10. Coherent(PreviewOpened(p, c.by)) /\ Listed(PreviewOpened(p, c.by))
  BY <1>1, PreviewOpenedCoherent
<1>11. QED
  BY <1>3, <1>9, <1>10, Zenon DEF PageInv

LEMMA RolledBackKeeps ==
    ASSUME PageInv, NEW c \in UnderWay(page), c.fn = "rollback",
           RolledBack(c) \/ NotRolledBack(c)
    PROVE  PageInv'
<1> DEFINE p == Answered(page, c)
           q == IF p.selected # Nil THEN loadKey(p, p.selected.key, "") ELSE p
<1>1. Coherent(p) /\ Listed(p) /\ Free(p) # {} /\ c \in Call
  BY AnsweredInv
<1>2. /\ c.key \in Keys /\ "" \in {"", "save", "rollback"} /\ "rollback" \in Thens
  BY <1>1, CallTyped DEF Thens
<1>3. \/ page' = loadKeys(p, "rollback", c.key)
      \/ page' = Finally(q, "rollback")
      \/ page' = Finally(p, "rollback")
  BY DEF RolledBack, NotRolledBack
<1> HIDE DEF p
<1>4. Coherent(loadKeys(p, "rollback", c.key)) /\ Listed(loadKeys(p, "rollback", c.key))
  BY <1>1, <1>2, LoadKeysCoherent
<1>5. Coherent(q) /\ Listed(q)
  <2>1. ASSUME p.selected # Nil PROVE p.selected.key \in Keys
    BY <1>1, <2>1, SelectedTyped
  <2>2. QED
    BY <1>1, <1>2, <2>1, LoadKeyCoherent
<1> HIDE DEF q
<1>6. Coherent(Finally(q, "rollback")) /\ Listed(Finally(q, "rollback"))
  BY <1>5, FinallyCoherent
<1>7. Coherent(Finally(p, "rollback")) /\ Listed(Finally(p, "rollback"))
  BY <1>1, FinallyCoherent
<1>8. QED
  BY <1>3, <1>4, <1>6, <1>7, Zenon DEF PageInv

LEMMA AnswerKeeps ==
    ASSUME PageInv, NEW c \in UnderWay(page), Answer(c)
    PROVE  PageInv'
<1>1. CASE c.fn = "list" /\ AnswerList(c)
  BY <1>1, AnswerListKeeps
<1>2. CASE c.fn = "load" /\ KeyRead(c)
  BY <1>2, KeyReadKeeps
<1>3. CASE c.fn = "load" /\ KeyNotRead(c)
  BY <1>3, KeyNotReadKeeps
<1>4. CASE c.fn = "put" /\ (Saved(c) \/ NotSaved(c))
  BY <1>4, SavedKeeps
<1>5. CASE c.fn = "delete" /\ (DeletedKey(c) \/ NotDeleted(c))
  BY <1>5, DeletedKeeps
<1>6. CASE c.fn = "versions" /\ VersionsRead(c)
  BY <1>6, VersionsReadKeeps
<1>7. CASE c.fn = "versions" /\ VersionsNotRead(c)
  BY <1>7, VersionsNotReadKeeps
<1>8. CASE c.fn = "preview" /\ (PreviewRead(c) \/ PreviewNotRead(c))
  BY <1>8, PreviewReadKeeps
<1>9. CASE c.fn = "rollback" /\ (RolledBack(c) \/ NotRolledBack(c))
  BY <1>9, RolledBackKeeps
<1>10. QED
  BY <1>1, <1>2, <1>3, <1>4, <1>5, <1>6, <1>7, <1>8, <1>9 DEF Answer

LEMMA PageInvInit ==
    ASSUME BInit
    PROVE  PageInv
<1>1. page \in Page
  BY DEF BInit, Page
<1>2. UnderWay(page) = {}
  BY DEF BInit, UnderWay
<1>3. /\ page.selected = Nil /\ page.creating = FALSE /\ page.dialog = "none"
      /\ page.context = Nil /\ page.covered = TRUE
  BY DEF BInit
<1>4. QED
  BY <1>1, <1>2, <1>3 DEF PageInv, Coherent, EditorCoherent, DialogCoherent, Listed

LEMMA PageInvStep ==
    ASSUME PageInv, [BNext]_page
    PROVE  PageInv'
<1>1. ASSUME NEW c \in Clusters, activateCluster(c) PROVE PageInv'
  BY <1>1, ChangeClusterKeeps
<1>2. ASSUME NEW c \in Clusters \cup {Nil}, loadClusters(c) PROVE PageInv'
  BY <1>2, LoadClustersKeeps
<1>3. CASE Search \/ Refresh
  BY <1>3, LoadListKeeps
<1>4. ASSUME NEW k \in Keys, OpenItem(k) PROVE PageInv'
  BY <1>4, OpenItemKeeps
<1>5. ASSUME NEW k \in Keys, saveKey(k) PROVE PageInv'
  BY <1>5, SaveKeyKeeps
<1>6. CASE beginCreate
  BY <1>6, BeginCreateKeeps
<1>7. CASE CancelEditor
  BY <1>7, CancelEditorKeeps
<1>8. CASE OpenDelete
  BY <1>8, OpenDeleteKeeps
<1>9. ASSUME NEW how \in {"cancel", "confirm", "esc"}, CloseDelete(how) PROVE PageInv'
  BY <1>9, CloseDeleteKeeps
<1>10. CASE previewRollback
  BY <1>10, PreviewRollbackKeeps
<1>11. CASE LoadMore
  BY <1>11, LoadMoreKeeps
<1>12. CASE ConfirmRollback
  BY <1>12, ConfirmRollbackKeeps
<1>13. CASE DismissRollback
  BY <1>13, DismissKeeps
<1>14. ASSUME NEW t \in Revisions, ChooseVersion(t) PROVE PageInv'
  BY <1>14, ChooseVersionKeeps
<1>15. ASSUME NEW c \in UnderWay(page), Answer(c) PROVE PageInv'
  BY <1>15, AnswerKeeps
<1>16. CASE UNCHANGED page
  BY <1>16 DEF PageInv, Coherent, EditorCoherent, DialogCoherent, CallCoherent,
               UnderWay, Listed
<1>17. QED
  BY <1>1, <1>2, <1>3, <1>4, <1>5, <1>6, <1>7, <1>8, <1>9, <1>10, <1>11, <1>12,
     <1>13, <1>14, <1>15, <1>16, Zenon DEF BNext

-----------------------------------------------------------------------------
\* The page stays coherent: whatever the user clicks and in whichever order the
\* answers come, the detail shown is of the selected cluster and fills the
\* editor, what can be confirmed is what is shown, and every request under way
\* carries what it was sent for.
THEOREM PageInvariant == BSpec => []PageInv
<1>1. BInit => PageInv
  BY PageInvInit
<1>2. PageInv /\ [BNext]_page => PageInv'
  BY PageInvStep
<1>3. QED
  BY <1>1, <1>2, PTL DEF BSpec

\* The page and its requests have their types: no request names no cluster or
\* no key, although the selected cluster and the shown key may be absent when
\* an answer arrives (the guards of loadKey, loadKeys, saveKey and the dialogs).
THEOREM PageTypes == BSpec => []BTypeOK
<1>1. PageInv => BTypeOK
  BY DEF PageInv, Coherent, BTypeOK
<1>2. QED
  BY <1>1, PageInvariant, PTL

\* Every write names the cluster and key its expected revision was read from
\* (saveKey, deleteSelected, rollbackSelected of app.js).
THEOREM WritesAreWhereLoaded == BSpec => []WritesGoWhereLoaded
<1>1. PageInv => WritesGoWhereLoaded
  BY DEF PageInv, Coherent, CallCoherent, WritesGoWhereLoaded
<1>2. QED
  BY <1>1, PageInvariant, PTL

\* A rollback under way restores the version whose value was shown when it was
\* confirmed (previewRequestID and rollbackContext of app.js).
THEOREM RollbackIsOfPreviewed == BSpec => []RollsBackThePreviewed
<1>1. PageInv => RollsBackThePreviewed
  BY DEF PageInv, Coherent, CallCoherent, RollsBackThePreviewed
<1>2. QED
  BY <1>1, PageInvariant, PTL

\* A key list that can be seen and clicked is of the selected cluster (the
\* listRequestID and cluster guards of loadKeys in app.js).
THEOREM ListIsOfCluster == BSpec => []ListIsOfSelectedCluster
<1>1. PageInv => ListIsOfSelectedCluster
  BY DEF PageInv, Listed, ListIsOfSelectedCluster
<1>2. QED
  BY <1>1, PageInvariant, PTL

-----------------------------------------------------------------------------
(* Locked buttons.                                                          *)

Locks == {"save", "delete", "open"}

Held(p, lock) ==
    \/ lock = "save" /\ p.saving
    \/ lock = "delete" /\ p.deleting
    \/ lock = "open" /\ p.opening

(* The button that is unlocked once the function that awaits c has ended.   *)
Unlocks(c) ==
    CASE c.fn = "put"                    -> "save"
      [] c.fn = "delete"                 -> "delete"
      [] c.fn \in {"list", "load"}       -> c.then
      [] c.fn \in {"versions", "preview"} -> c.by
      [] OTHER                           -> ""

(* Every locked button waits for a request, but for the one whose function  *)
(* is running.                                                              *)
Waiting(p, running) ==
    \A lock \in Locks \ {running} :
        Held(p, lock) => \E c \in UnderWay(p) : Unlocks(c) = lock

LEMMA WaitingFrame ==
    ASSUME NEW p, NEW q, NEW running, Waiting(p, running),
           UnderWay(p) \subseteq UnderWay(q),
           q.saving => p.saving, q.deleting => p.deleting, q.opening => p.opening
    PROVE  Waiting(q, running)
  BY DEF Waiting, Held

LEMMA SendWaiting ==
    ASSUME NEW p \in Page, NEW c \in Call, Free(p) # {}, NEW running, Waiting(p, running),
           running \in Locks => Unlocks(c) = running
    PROVE  Waiting(Send(p, c), "")
<1>1. Same(p, Send(p, c)) /\ UnderWay(Send(p, c)) = UnderWay(p) \cup {c}
  BY SendKeeps
<1>2. \A lock \in Locks : Held(Send(p, c), lock) => Held(p, lock)
  BY <1>1 DEF Same, Held
<1>3. QED
  BY <1>1, <1>2 DEF Waiting

LEMMA AlsoSendWaiting ==
    ASSUME NEW p \in Page, NEW c \in Call, Free(p) # {}, NEW running, Waiting(p, running)
    PROVE  Waiting(Send(p, c), running)
<1>1. Same(p, Send(p, c)) /\ UnderWay(Send(p, c)) = UnderWay(p) \cup {c}
  BY SendKeeps
<1>2. \A lock \in Locks : Held(Send(p, c), lock) => Held(p, lock)
  BY <1>1 DEF Same, Held
<1>3. QED
  BY <1>1, <1>2 DEF Waiting

LEMMA AnsweredWaiting ==
    ASSUME NEW p \in Page, NEW c \in UnderWay(p), Waiting(p, "")
    PROVE  Waiting(Answered(p, c), Unlocks(c))
<1>1. Same(p, Answered(p, c)) /\ UnderWay(p) \ {c} \subseteq UnderWay(Answered(p, c))
  BY AnsweredKeeps
<1>2. \A lock \in Locks : Held(Answered(p, c), lock) => Held(p, lock)
  BY <1>1 DEF Same, Held
<1>3. "" \notin Locks
  BY DEF Locks
<1>4. QED
  BY <1>1, <1>2, <1>3 DEF Waiting

LEMMA OlderUnlocks ==
    ASSUME NEW c \in Call, NEW fns \in SUBSET {"list", "load", "versions", "preview"}
    PROVE  Unlocks(Older(c, fns)) = Unlocks(c)
<1>1. CASE c.fn \notin fns
  BY <1>1, OlderTyped
<1>2. CASE c.fn \in fns
  <2>1. c.fn \in {"list", "load", "versions", "preview"}
    BY <1>2
  <2>2. QED
    BY <2>1, OlderTyped DEF Unlocks
<1>3. QED
  BY <1>1, <1>2

LEMMA OutdateWaiting ==
    ASSUME NEW p \in Page, NEW fns \in SUBSET {"list", "load", "versions", "preview"},
           NEW running, Waiting(p, running)
    PROVE  Waiting(Outdate(p, fns), running)
<1> DEFINE q == Outdate(p, fns)
<1>1. Same(p, q) /\ \A c \in UnderWay(p) : Older(c, fns) \in UnderWay(q)
  BY OutdateKeeps
<1> HIDE DEF q
<1>2. \A lock \in Locks : Held(q, lock) => Held(p, lock)
  BY <1>1 DEF Same, Held
<1>3. \A c \in UnderWay(p) : Unlocks(Older(c, fns)) = Unlocks(c)
  BY UnderWayTyped, OlderUnlocks
<1>4. Waiting(q, running)
  BY <1>1, <1>2, <1>3 DEF Waiting
<1>5. QED
  BY <1>4 DEF q

LEMMA SetContextWaiting ==
    ASSUME NEW p \in Page, NEW context, NEW running, Waiting(p, running)
    PROVE  Waiting(SetContext(p, context), running)
<1> DEFINE o == Outdate(p, {"versions", "preview"})
           q == [o EXCEPT !.context = context, !.preview = Nil]
<1>1. o \in Page /\ Waiting(o, running)
  BY OutdateKeeps, OutdateWaiting
<1>2. SetContext(p, context) = q
  BY DEF SetContext
<1> HIDE DEF o
<1>3. o \in Page
  BY <1>1
<1>4. /\ q.calls = o.calls /\ q.saving = o.saving /\ q.deleting = o.deleting
      /\ q.opening = o.opening
  BY <1>3 DEF Page
<1> HIDE DEF q
<1>5. UnderWay(q) = UnderWay(o)
  BY <1>4 DEF UnderWay
<1>6. Waiting(q, running)
  BY <1>1, <1>4, <1>5, WaitingFrame
<1>7. QED
  BY <1>2, <1>6

(* The finally block unlocks the button of the function that ends.          *)
LEMMA FinallyWaiting ==
    ASSUME NEW p, Coherent(p), NEW fn, Waiting(p, fn), fn # "open"
    PROVE  Waiting(Finally(p, fn), "")
<1>0. p \in Page
  BY DEF Coherent
<1>1. CASE fn = "save"
  <2> DEFINE q == [p EXCEPT !.saving = FALSE]
  <2>1. Finally(p, fn) = q
    BY <1>1 DEF Finally
  <2>2. /\ q.calls = p.calls /\ q.saving = FALSE /\ q.deleting = p.deleting
        /\ q.opening = p.opening
    BY <1>0 DEF Page
  <2> HIDE DEF q
  <2>3. UnderWay(q) = UnderWay(p)
    BY <2>2 DEF UnderWay
  <2>4. \A lock \in Locks : Held(q, lock) => Held(p, lock) /\ lock # "save"
    BY <2>2 DEF Held
  <2>5. QED
    BY <2>1, <2>3, <2>4, <1>1 DEF Waiting
<1>2. CASE fn = "delete"
  <2> DEFINE q == [p EXCEPT !.deleting = FALSE]
  <2>1. Finally(p, fn) = q
    BY <1>2 DEF Finally
  <2>2. /\ q.calls = p.calls /\ q.deleting = FALSE /\ q.saving = p.saving
        /\ q.opening = p.opening
    BY <1>0 DEF Page
  <2> HIDE DEF q
  <2>3. UnderWay(q) = UnderWay(p)
    BY <2>2 DEF UnderWay
  <2>4. \A lock \in Locks : Held(q, lock) => Held(p, lock) /\ lock # "delete"
    BY <2>2 DEF Held
  <2>5. QED
    BY <2>1, <2>3, <2>4, <1>2 DEF Waiting
<1>3. CASE fn \notin {"save", "delete"}
  <2>1. Waiting(p, "")
    BY <1>3 DEF Waiting, Locks
  <2>2. CASE fn = "rollback"
    <3> DEFINE o == SetContext(p, Nil)
               q == [o EXCEPT !.unconfirmed = FALSE]
    <3>1. Finally(p, fn) = q
      BY <2>2 DEF Finally
    <3>2. Waiting(o, "")
      BY <1>0, <2>1, SetContextWaiting
    <3>3. Coherent(o)
      BY SetContextCoherent
    <3>4. o \in Page
      BY <3>3 DEF Coherent
    <3> HIDE DEF o
    <3>5. /\ q.calls = o.calls /\ q.saving = o.saving /\ q.deleting = o.deleting
          /\ q.opening = o.opening
      BY <3>4 DEF Page
    <3> HIDE DEF q
    <3>6. UnderWay(q) = UnderWay(o)
      BY <3>5 DEF UnderWay
    <3>7. Waiting(q, "")
      BY <3>2, <3>5, <3>6, WaitingFrame
    <3>8. QED
      BY <3>1, <3>7
  <2>3. CASE fn # "rollback"
    BY <1>3, <2>1, <2>3 DEF Finally
  <2>4. QED
    BY <2>2, <2>3
<1>4. QED
  BY <1>1, <1>2, <1>3

LEMMA LoadKeyWaiting ==
    ASSUME NEW p, Coherent(p), NEW k \in Keys, NEW then \in {"", "save", "rollback"},
           Free(p) # {}, Waiting(p, then)
    PROVE  Waiting(loadKey(p, k, then), "")
<1>1. CASE p.cluster = Nil
  <2>1. loadKey(p, k, then) = Finally(p, then)
    BY <1>1 DEF loadKey
  <2>2. then # "open"
    OBVIOUS
  <2>3. Waiting(Finally(p, then), "")
    BY <2>2, FinallyWaiting, Zenon
  <2>4. QED
    BY <2>1, <2>3
<1>2. CASE p.cluster # Nil
  <2> DEFINE o == Outdate(p, {"load"})
             c == [fn |-> "load", cluster |-> p.cluster, key |-> k, latest |-> TRUE,
                   then |-> then]
  <2>1. loadKey(p, k, then) = Send(o, c)
    BY <1>2 DEF loadKey
  <2>2. p \in Page /\ p.cluster \in Clusters
    BY <1>2 DEF Coherent, Page
  <2>3. c \in Call
    BY <2>2 DEF Call
  <2>4. o \in Page /\ Free(o) # {} /\ Waiting(o, then)
    BY <2>2, OutdateKeeps, OutdateWaiting
  <2>5. Unlocks(c) = then
    BY DEF Unlocks
  <2> HIDE DEF o, c
  <2>6. QED
    BY <2>1, <2>3, <2>4, <2>5, SendWaiting
<1>3. QED
  BY <1>1, <1>2

LEMMA AfterListWaiting ==
    ASSUME NEW p, Coherent(p), NEW then \in Thens, NEW k \in Keys \cup {Nil},
           then \in {"save", "rollback"} => k \in Keys, Free(p) # {}, Waiting(p, then)
    PROVE  Waiting(AfterList(p, then, k), "")
<1>1. CASE then \in {"save", "rollback"}
  <2>1. AfterList(p, then, k) = loadKey(p, k, then)
    BY <1>1 DEF AfterList
  <2>2. QED
    BY <2>1, <1>1, LoadKeyWaiting
<1>2. CASE then = "refresh" /\ p.selected # Nil /\ ~p.creating
  <2>1. AfterList(p, then, k) = loadKey(p, p.selected.key, "")
    BY <1>2 DEF AfterList
  <2>2. p.selected.key \in Keys
    BY <1>2, SelectedTyped
  <2>3. Waiting(p, "")
    BY <1>2 DEF Waiting, Locks
  <2>4. QED
    BY <2>1, <2>2, <2>3, LoadKeyWaiting
<1>3. CASE then \notin {"save", "rollback"}
           /\ ~(then = "refresh" /\ p.selected # Nil /\ ~p.creating)
  <2>1. AfterList(p, then, k) = Finally(p, then)
    BY <1>3 DEF AfterList
  <2>2. then # "open"
    BY DEF Thens
  <2>3. Waiting(Finally(p, then), "")
    BY <2>2, FinallyWaiting, Zenon
  <2>4. QED
    BY <2>1, <2>3
<1>4. QED
  BY <1>1, <1>2, <1>3

LEMMA LoadKeysWaiting ==
    ASSUME NEW p, Coherent(p), NEW then \in Thens, NEW k \in Keys \cup {Nil},
           then \in {"save", "rollback"} => k \in Keys, Free(p) # {}, Waiting(p, then)
    PROVE  Waiting(loadKeys(p, then, k), "")
<1> DEFINE o == Outdate(p, {"list"})
           q == [o EXCEPT !.covered = TRUE]
<1>0. p \in Page
  BY DEF Coherent
<1>1. Coherent(o) /\ Free(o) = Free(p) /\ Waiting(o, then)
  BY <1>0, OutdateCoherent, OutdateWaiting
<1>2. loadKeys(p, then, k) =
         IF p.cluster = Nil
         THEN AfterList([q EXCEPT !.items = Nil], then, k)
         ELSE Send(q, [fn |-> "list", cluster |-> p.cluster, latest |-> TRUE,
                       arg |-> k, then |-> then])
  BY DEF loadKeys
<1> HIDE DEF o
<1>3. o \in Page
  BY <1>1 DEF Coherent
<1>4. CASE p.cluster = Nil
  <2> DEFINE e == [o EXCEPT !.items = Nil, !.covered = TRUE]
  <2>1. [q EXCEPT !.items = Nil] = e
    BY <1>3 DEF Page
  <2>2. Coherent(e) /\ Free(e) = Free(o) /\ UnderWay(e) = UnderWay(o)
    BY <1>1, CoverCoherent, TRUE \in BOOLEAN
  <2>3. e.saving = o.saving /\ e.deleting = o.deleting /\ e.opening = o.opening
    BY <1>3 DEF Page
  <2> HIDE DEF e
  <2>4. Waiting(e, then)
    BY <1>1, <2>2, <2>3, WaitingFrame
  <2>5. Waiting(AfterList(e, then, k), "")
    BY <1>1, <2>2, <2>4, AfterListWaiting
  <2>6. loadKeys(p, then, k) = AfterList(e, then, k)
    BY <1>2, <1>4, <2>1
  <2>7. QED
    BY <2>5, <2>6
<1>5. CASE p.cluster # Nil
  <2> DEFINE c == [fn |-> "list", cluster |-> p.cluster, latest |-> TRUE,
                   arg |-> k, then |-> then]
  <2>1. loadKeys(p, then, k) = Send(q, c)
    BY <1>2, <1>5
  <2>2. p.cluster \in Clusters
    BY <1>0, <1>5 DEF Page
  <2>3. c \in Call /\ Unlocks(c) = then
    BY <2>2 DEF Call, Thens, Unlocks
  <2> HIDE DEF c
  <2>4. q \in Page
    BY <1>3 DEF Page
  <2>5. /\ q.calls = o.calls /\ q.saving = o.saving /\ q.deleting = o.deleting
        /\ q.opening = o.opening
    BY <1>3 DEF Page
  <2> HIDE DEF q
  <2>6. UnderWay(q) = UnderWay(o) /\ Free(q) = Free(o)
    BY <2>5 DEF UnderWay, Free
  <2>7. Waiting(q, then)
    BY <1>1, <2>5, <2>6, WaitingFrame
  <2>8. QED
    BY <1>1, <2>1, <2>3, <2>4, <2>6, <2>7, SendWaiting
<1>6. QED
  BY <1>4, <1>5

(* A key or a list that is loaded again by a function that goes on at once. *)
LEMMA AlsoLoadKeyWaiting ==
    ASSUME NEW p, Coherent(p), NEW k \in Keys, Free(p) # {}, NEW running,
           Waiting(p, running)
    PROVE  Waiting(loadKey(p, k, ""), running)
<1>1. CASE p.cluster = Nil
  <2>1. loadKey(p, k, "") = p
    BY <1>1 DEF loadKey, Finally
  <2>2. QED
    BY <2>1
<1>2. CASE p.cluster # Nil
  <2> DEFINE o == Outdate(p, {"load"})
             c == [fn |-> "load", cluster |-> p.cluster, key |-> k, latest |-> TRUE,
                   then |-> ""]
  <2>1. loadKey(p, k, "") = Send(o, c)
    BY <1>2 DEF loadKey
  <2>2. p \in Page /\ p.cluster \in Clusters
    BY <1>2 DEF Coherent, Page
  <2>3. c \in Call
    BY <2>2 DEF Call
  <2>4. o \in Page /\ Free(o) # {} /\ Waiting(o, running)
    BY <2>2, OutdateKeeps, OutdateWaiting
  <2> HIDE DEF o, c
  <2>5. QED
    BY <2>1, <2>3, <2>4, AlsoSendWaiting
<1>3. QED
  BY <1>1, <1>2

LEMMA AlsoLoadKeysWaiting ==
    ASSUME NEW p, Coherent(p), Free(p) # {}, NEW running, Waiting(p, running)
    PROVE  Waiting(loadKeys(p, "", Nil), running)
<1> DEFINE o == Outdate(p, {"list"})
           q == [o EXCEPT !.covered = TRUE]
<1>0. p \in Page
  BY DEF Coherent
<1>1. o \in Page /\ Free(o) = Free(p) /\ Waiting(o, running)
  BY <1>0, OutdateKeeps, OutdateWaiting
<1>2. loadKeys(p, "", Nil) =
         IF p.cluster = Nil
         THEN AfterList([q EXCEPT !.items = Nil], "", Nil)
         ELSE Send(q, [fn |-> "list", cluster |-> p.cluster, latest |-> TRUE,
                       arg |-> Nil, then |-> ""])
  BY DEF loadKeys
<1> HIDE DEF o
<1>3. o \in Page
  BY <1>1
<1>4. q \in Page
  BY <1>3 DEF Page
<1>5. /\ q.calls = o.calls /\ q.saving = o.saving /\ q.deleting = o.deleting
      /\ q.opening = o.opening
  BY <1>3 DEF Page
<1> HIDE DEF q
<1>6. UnderWay(q) = UnderWay(o) /\ Free(q) = Free(o)
  BY <1>5 DEF UnderWay, Free
<1>7. Waiting(q, running)
  BY <1>1, <1>5, <1>6, WaitingFrame
<1>8. CASE p.cluster = Nil
  <2> DEFINE e == [q EXCEPT !.items = Nil]
  <2>1. AfterList(e, "", Nil) = e
    BY DEF AfterList, Finally
  <2>2. /\ e.calls = q.calls /\ e.saving = q.saving /\ e.deleting = q.deleting
        /\ e.opening = q.opening
    BY <1>4 DEF Page
  <2>3. loadKeys(p, "", Nil) = e
    BY <1>2, <1>8, <2>1
  <2> HIDE DEF e
  <2>4. UnderWay(e) = UnderWay(q)
    BY <2>2 DEF UnderWay
  <2>5. Waiting(e, running)
    BY <1>7, <2>2, <2>4, WaitingFrame
  <2>6. QED
    BY <2>3, <2>5
<1>9. CASE p.cluster # Nil
  <2> DEFINE c == [fn |-> "list", cluster |-> p.cluster, latest |-> TRUE,
                   arg |-> Nil, then |-> ""]
  <2>1. loadKeys(p, "", Nil) = Send(q, c)
    BY <1>2, <1>9
  <2>2. p.cluster \in Clusters
    BY <1>0, <1>9 DEF Page
  <2>3. c \in Call
    BY <2>2 DEF Call
  <2> HIDE DEF c
  <2>4. Waiting(Send(q, c), running)
    BY <1>1, <1>4, <1>6, <1>7, <2>3, AlsoSendWaiting
  <2>5. QED
    BY <2>1, <2>4
<1>10. QED
  BY <1>8, <1>9

LEMMA CloseEditorWaiting ==
    ASSUME NEW p \in Page, NEW running, Waiting(p, running)
    PROVE  Waiting(closeEditor(p), running)
<1> DEFINE q == [p EXCEPT !.selected = Nil, !.creating = FALSE, !.filled = Nil]
<1>1. closeEditor(p) = q
  BY DEF closeEditor
<1>2. /\ q.calls = p.calls /\ q.saving = p.saving /\ q.deleting = p.deleting
      /\ q.opening = p.opening
  BY DEF Page
<1> HIDE DEF q
<1>3. UnderWay(q) = UnderWay(p)
  BY <1>2 DEF UnderWay
<1>4. QED
  BY <1>1, <1>2, <1>3, WaitingFrame

LEMMA SelectVersionWaiting ==
    ASSUME NEW p, Coherent(p), p.context # Nil, NEW t \in Revisions,
           NEW by \in {"open", "user"}, Free(p) # {}, Waiting(p, by)
    PROVE  Waiting(selectRollbackVersion(p, t, by), "")
<1> DEFINE o == Outdate(p, {"preview"})
           context == [p.context EXCEPT !.target = t]
           q == [o EXCEPT !.context = context, !.unconfirmed = TRUE, !.preview = Nil]
           c == [fn |-> "preview", target |-> t, latest |-> TRUE, by |-> by]
<1>0. p \in Page
  BY DEF Coherent
<1>1. o \in Page /\ o.context = p.context /\ Free(o) = Free(p) /\ Waiting(o, by)
  BY <1>0, OutdateKeeps, OutdateWaiting DEF Same
<1> HIDE DEF o
<1>2. context \in Context
  BY ContextTyped DEF Context
<1>3. selectRollbackVersion(p, t, by) = Send(q, c)
  <2>1. [o EXCEPT !.context.target = t, !.unconfirmed = TRUE, !.preview = Nil] = q
    BY <1>1 DEF Page
  <2>2. QED
    BY <2>1 DEF selectRollbackVersion, o
<1>4. c \in Call /\ Unlocks(c) = by
  BY DEF Call, Unlocks
<1> HIDE DEF context, c
<1>5. o \in Page
  BY <1>1
<1>6. q \in Page
  BY <1>2, <1>5 DEF Page
<1>7. /\ q.calls = o.calls /\ q.saving = o.saving /\ q.deleting = o.deleting
      /\ q.opening = o.opening
  BY <1>5 DEF Page
<1> HIDE DEF q
<1>8. UnderWay(q) = UnderWay(o) /\ Free(q) = Free(o)
  BY <1>7 DEF UnderWay, Free
<1>9. Waiting(q, by)
  BY <1>1, <1>7, <1>8, WaitingFrame
<1>10. QED
  BY <1>1, <1>3, <1>4, <1>6, <1>8, <1>9, SendWaiting

LEMMA PreviewOpenedWaiting ==
    ASSUME NEW p, p \in Page, NEW by \in {"open", "user"}, Waiting(p, by)
    PROVE  Waiting(PreviewOpened(p, by), "")
<1>1. CASE by = "open"
  <2> DEFINE q == [p EXCEPT !.opening = FALSE]
  <2>1. PreviewOpened(p, by) = q
    BY <1>1 DEF PreviewOpened
  <2>2. /\ q.calls = p.calls /\ q.saving = p.saving /\ q.deleting = p.deleting
        /\ q.opening = FALSE
    BY DEF Page
  <2> HIDE DEF q
  <2>3. UnderWay(q) = UnderWay(p)
    BY <2>2 DEF UnderWay
  <2>4. \A lock \in Locks : Held(q, lock) => Held(p, lock) /\ lock # "open"
    BY <2>2 DEF Held
  <2>5. QED
    BY <2>1, <2>3, <2>4, <1>1 DEF Waiting
<1>2. CASE by = "user"
  <2>1. PreviewOpened(p, by) = p
    BY <1>2 DEF PreviewOpened
  <2>2. QED
    BY <1>2, <2>1 DEF Waiting, Locks
<1>3. QED
  BY <1>1, <1>2

LEMMA DismissedWaiting ==
    ASSUME NEW p, p \in Page, NEW running, Waiting(p, running)
    PROVE  Waiting(DismissedRollback(p), running)
<1> DEFINE o == [p EXCEPT !.dialog = "none"]
<1>1. o \in Page
  BY DEF Page
<1>2. /\ o.calls = p.calls /\ o.saving = p.saving /\ o.deleting = p.deleting
      /\ o.opening = p.opening
  BY DEF Page
<1>3. DismissedRollback(p) = SetContext(o, Nil)
  BY DEF DismissedRollback
<1> HIDE DEF o
<1>4. UnderWay(o) = UnderWay(p)
  BY <1>2 DEF UnderWay
<1>5. Waiting(o, running)
  BY <1>2, <1>4, WaitingFrame
<1>6. QED
  BY <1>1, <1>3, <1>5, SetContextWaiting

(* The user's actions: what locks a button sends the request it waits for.  *)
LEMMA LoadListWaits ==
    ASSUME PageInv, Waiting(page, ""), Search \/ Refresh
    PROVE  Waiting(page', "")
<1>1. Free(page) # {} /\ "" \in Thens /\ "refresh" \in Thens /\ Nil \in Keys \cup {Nil}
  BY DEF Search, Refresh, User, Room, Thens
<1>2. page' = loadKeys(page, "", Nil) \/ page' = loadKeys(page, "refresh", Nil)
  BY DEF Search, Refresh
<1>3. Waiting(page, "refresh")
  BY DEF Waiting, Locks
<1>4. Waiting(loadKeys(page, "", Nil), "")
  BY <1>1, LoadKeysWaiting DEF PageInv
<1>5. Waiting(loadKeys(page, "refresh", Nil), "")
  BY <1>1, <1>3, LoadKeysWaiting DEF PageInv
<1>6. QED
  BY <1>2, <1>4, <1>5

LEMMA ChangeClusterWaits ==
    ASSUME PageInv, Waiting(page, ""), NEW c \in Clusters, activateCluster(c)
    PROVE  Waiting(page', "")
<1> DEFINE o == [page EXCEPT !.cluster = c, !.items = Nil]
           q == closeEditor(o)
<1>1. Free(page) # {} /\ "" \in Thens /\ page' = loadKeys(q, "", Nil)
  BY DEF activateCluster, User, Room, Thens
<1>2. page \in Page
  BY DEF PageInv, Coherent
<1>3. Coherent(q) /\ Free(q) = Free(page)
  BY ClosedCoherent DEF PageInv
<1>4. o \in Page
  BY <1>2 DEF Page
<1>5. /\ o.calls = page.calls /\ o.saving = page.saving /\ o.deleting = page.deleting
      /\ o.opening = page.opening
  BY <1>2 DEF Page
<1> HIDE DEF o
<1>6. UnderWay(o) = UnderWay(page)
  BY <1>5 DEF UnderWay
<1>7. Waiting(o, "")
  BY <1>5, <1>6, WaitingFrame
<1>8. Waiting(q, "")
  BY <1>4, <1>7, CloseEditorWaiting
<1> HIDE DEF q
<1>9. Waiting(loadKeys(q, "", Nil), "")
  BY <1>1, <1>3, <1>8, LoadKeysWaiting
<1>10. QED
  BY <1>1, <1>9

LEMMA LoadClustersWaits ==
    ASSUME PageInv, Waiting(page, ""), NEW c \in Clusters \cup {Nil}, loadClusters(c)
    PROVE  Waiting(page', "")
<1> DEFINE o == [page EXCEPT !.cluster = c]
           q == closeEditor(o)
           e == [q EXCEPT !.items = Nil, !.covered = TRUE]
<1>1. /\ Free(page) # {} /\ "" \in Thens
      /\ page' = e \/ page' = loadKeys(q, "", Nil)
  BY DEF loadClusters, Room, Thens
<1>2. page \in Page
  BY DEF PageInv, Coherent
<1>3. o \in Page
  BY <1>2 DEF Page
<1>4. /\ o.calls = page.calls /\ o.saving = page.saving /\ o.deleting = page.deleting
      /\ o.opening = page.opening
  BY <1>2 DEF Page
<1>5. Coherent(q) /\ Free(q) = Free(page)
  <2>1. PICK items \in Clusters \cup {Nil} : items = page.items
    BY <1>2 DEF Page
  <2> DEFINE f == [page EXCEPT !.cluster = c, !.items = items]
  <2>2. Coherent(closeEditor(f)) /\ Free(closeEditor(f)) = Free(page)
    BY ClosedCoherent DEF PageInv
  <2>3. o = f
    BY <1>2, <2>1 DEF Page
  <2> HIDE DEF f, o
  <2>4. QED
    BY <2>2, <2>3
<1> HIDE DEF o
<1>6. UnderWay(o) = UnderWay(page)
  BY <1>4 DEF UnderWay
<1>7. Waiting(o, "")
  BY <1>4, <1>6, WaitingFrame
<1>8. Waiting(q, "")
  BY <1>3, <1>7, CloseEditorWaiting
<1> HIDE DEF q
<1>9. q \in Page
  BY <1>5 DEF Coherent
<1>10. /\ e.calls = q.calls /\ e.saving = q.saving /\ e.deleting = q.deleting
       /\ e.opening = q.opening
  BY <1>9 DEF Page
<1> HIDE DEF e
<1>11. UnderWay(e) = UnderWay(q)
  BY <1>10 DEF UnderWay
<1>12. Waiting(e, "")
  BY <1>8, <1>10, <1>11, WaitingFrame
<1>13. Waiting(loadKeys(q, "", Nil), "")
  BY <1>1, <1>5, <1>8, LoadKeysWaiting
<1>14. QED
  BY <1>1, <1>12, <1>13

(* Steps that lock nothing and end no request.                              *)
LEMMA QuietWaits ==
    ASSUME PageInv, Waiting(page, ""),
           beginCreate \/ CancelEditor \/ OpenDelete \/ DismissRollback
    PROVE  Waiting(page', "")
<1>1. page \in Page
  BY DEF PageInv, Coherent
<1>2. CASE beginCreate
  <2> DEFINE o == [page EXCEPT !.creating = TRUE, !.selected = Nil]
  <2>1. page' = [o EXCEPT !.filled = Nil, !.opening = FALSE]
    BY <1>2 DEF beginCreate, showEditor
  <2>2. o \in Page
    BY <1>1 DEF Page
  <2>3. o.calls = page.calls /\ o.saving = page.saving /\ o.deleting = page.deleting
    BY <1>1 DEF Page
  <2> HIDE DEF o
  <2>4. /\ page'.calls = o.calls /\ page'.saving = o.saving /\ page'.deleting = o.deleting
        /\ page'.opening = FALSE
    BY <2>1, <2>2 DEF Page
  <2>5. UnderWay(page') = UnderWay(page)
    BY <2>3, <2>4 DEF UnderWay
  <2>6. QED
    BY <2>3, <2>4, <2>5, WaitingFrame
<1>3. CASE CancelEditor
  BY <1>1, <1>3, CloseEditorWaiting DEF CancelEditor
<1>4. CASE OpenDelete
  <2>1. page' = [page EXCEPT !.dialog = "delete", !.named = page.selected]
    BY <1>4 DEF OpenDelete
  <2>2. /\ page'.calls = page.calls /\ page'.saving = page.saving
        /\ page'.deleting = page.deleting /\ page'.opening = page.opening
    BY <1>1, <2>1 DEF Page
  <2>3. UnderWay(page') = UnderWay(page)
    BY <2>2 DEF UnderWay
  <2>4. QED
    BY <2>2, <2>3, WaitingFrame
<1>5. CASE DismissRollback
  BY <1>1, <1>5, DismissedWaiting DEF DismissRollback
<1>6. QED
  BY <1>2, <1>3, <1>4, <1>5

LEMMA OpenItemWaits ==
    ASSUME PageInv, Waiting(page, ""), NEW k \in Keys, OpenItem(k)
    PROVE  Waiting(page', "")
<1>1. Free(page) # {} /\ page' = loadKey(page, k, "") /\ "" \in {"", "save", "rollback"}
  BY DEF OpenItem, User, Room
<1>2. Waiting(loadKey(page, k, ""), "")
  BY <1>1, LoadKeyWaiting DEF PageInv
<1>3. QED
  BY <1>1, <1>2

LEMMA SaveKeyWaits ==
    ASSUME PageInv, Waiting(page, ""), NEW k \in Keys, saveKey(k)
    PROVE  Waiting(page', "")
<1> DEFINE q == [page EXCEPT !.saving = TRUE]
           c == [fn |-> "put", cluster |-> page.cluster, key |-> k,
                 mod |-> IF page.creating THEN 0 ELSE page.selected.mod,
                 from |-> page.filled]
<1>1. /\ Free(page) # {} /\ page' = Send(q, c)
      /\ page.selected # Nil \/ page.creating
      /\ ~page.creating => k = page.selected.key
  BY DEF saveKey, User, Room, EditorIsOpen
<1>2. page \in Page
  BY DEF PageInv, Coherent
<1>3. c \in Call
  BY <1>1, PutTyped DEF PageInv
<1>4. Unlocks(c) = "save"
  BY DEF Unlocks
<1>5. q \in Page
  BY <1>2 DEF Page
<1>6. q.calls = page.calls /\ q.deleting = page.deleting /\ q.opening = page.opening
  BY <1>2 DEF Page
<1> HIDE DEF q, c
<1>7. UnderWay(q) = UnderWay(page) /\ Free(q) = Free(page)
  BY <1>6 DEF UnderWay, Free
<1>8. Waiting(q, "save")
  BY <1>6, <1>7 DEF Waiting, Held
<1>9. QED
  BY <1>1, <1>3, <1>4, <1>5, <1>7, <1>8, SendWaiting

LEMMA CloseDeleteWaits ==
    ASSUME PageInv, Waiting(page, ""), NEW how \in {"cancel", "confirm", "esc"},
           CloseDelete(how)
    PROVE  Waiting(page', "")
<1> DEFINE return == IF how = "esc" THEN page.deleteReturn ELSE how
           p == [page EXCEPT !.dialog = "none", !.named = Nil, !.deleteReturn = return]
<1>1. page \in Page
  BY DEF PageInv, Coherent
<1>2. page.dialog = "delete" /\ Free(page) # {}
  BY DEF CloseDelete, User, Room
<1>3. page.named \in Detail
  BY <1>1, <1>2 DEF PageInv, Coherent, DialogCoherent, Page
<1>4. page' = p \/ page' = deleteSelected(p, page.named, how)
  <2>1. [page EXCEPT !.dialog = "none", !.named = Nil,
                     !.deleteReturn = IF how = "esc" THEN @ ELSE how] = p
    BY <1>1 DEF Page
  <2> HIDE DEF p
  <2>2. QED
    BY <2>1 DEF CloseDelete
<1>5. return \in {"", "cancel", "confirm"}
  BY <1>1 DEF Page
<1> HIDE DEF return
<1>6. p \in Page
  BY <1>1, <1>5 DEF Page
<1>7. /\ p.cluster = page.cluster /\ p.selected = page.selected /\ p.creating = page.creating
      /\ p.filled = page.filled /\ p.context = page.context /\ p.preview = page.preview
      /\ p.unconfirmed = page.unconfirmed /\ p.dialog = "none" /\ p.calls = page.calls
      /\ p.saving = page.saving /\ p.deleting = page.deleting /\ p.opening = page.opening
  BY <1>1 DEF Page
<1> HIDE DEF p
<1>8. UnderWay(p) = UnderWay(page) /\ Free(p) = Free(page)
  BY <1>7 DEF UnderWay, Free
<1>9. Coherent(p)
  BY <1>6, <1>7, <1>8, CoherentFrame DEF PageInv
<1>10. Waiting(p, "")
  BY <1>7, <1>8, WaitingFrame
<1>11. ASSUME p.selected # Nil, ~p.creating
       PROVE  Waiting(deleteSelected(p, page.named, how), "")
  <2> DEFINE q == [p EXCEPT !.deleting = TRUE]
             c == [fn |-> "delete", cluster |-> p.cluster, key |-> p.selected.key,
                   mod |-> p.selected.mod, from |-> p.selected, named |-> page.named,
                   confirmed |-> how = "confirm"]
  <2>1. deleteSelected(p, page.named, how) = Send(q, c)
    BY <1>11 DEF deleteSelected
  <2>2. c \in Call
    BY <1>3, <1>9, <1>11, DeleteTyped
  <2>3. Unlocks(c) = "delete"
    BY DEF Unlocks
  <2>4. q \in Page
    BY <1>6 DEF Page
  <2>5. q.calls = p.calls /\ q.saving = p.saving /\ q.opening = p.opening
    BY <1>6 DEF Page
  <2> HIDE DEF q, c
  <2>6. UnderWay(q) = UnderWay(p) /\ Free(q) = Free(p)
    BY <2>5 DEF UnderWay, Free
  <2>7. Waiting(q, "delete")
    BY <1>10, <2>5, <2>6 DEF Waiting, Held
  <2>8. QED
    BY <1>2, <1>8, <2>1, <2>2, <2>3, <2>4, <2>6, <2>7, SendWaiting
<1>12. p.selected = Nil \/ p.creating => deleteSelected(p, page.named, how) = p
  BY DEF deleteSelected
<1>13. QED
  BY <1>4, <1>10, <1>11, <1>12

LEMMA PreviewRollbackWaits ==
    ASSUME PageInv, Waiting(page, ""), previewRollback
    PROVE  Waiting(page', "")
<1> DEFINE s == page.selected
           context == [cluster |-> page.cluster, key |-> s.key, mod |-> s.mod,
                       from |-> s, target |-> Nil, listed |-> FALSE]
           p == SetContext(page, context)
           q == [p EXCEPT !.opening = TRUE, !.unconfirmed = TRUE,
                          !.preview = Nil, !.dialog = "rollback"]
           c == [fn |-> "versions", key |-> s.key, mod |-> s.mod,
                 latest |-> TRUE, by |-> "open"]
<1>1. Free(page) # {} /\ page.selected # Nil /\ page' = Send(q, c) /\ page \in Page
  BY DEF previewRollback, User, Room, PageInv, Coherent
<1>2. /\ s \in Detail /\ page.cluster \in Clusters /\ s.key \in Keys /\ s.mod \in Revisions
      /\ s = [cluster |-> page.cluster, key |-> s.key, mod |-> s.mod]
  BY <1>1, SelectedTyped DEF PageInv
<1> HIDE DEF s
<1>3. context \in Context
  BY <1>2 DEF Context
<1>4. /\ context.cluster = page.cluster /\ context.key = s.key /\ context.mod = s.mod
      /\ context.from = s /\ context.target = Nil
  OBVIOUS
<1>5. c \in Call
  BY <1>2 DEF Call
<1>6. Unlocks(c) = "open"
  BY DEF Unlocks
<1> HIDE DEF context, c
<1>7. /\ Coherent(p) /\ Free(p) = Free(page) /\ p.context = context
      /\ SameButDialog(page, p)
  BY <1>2, <1>3, <1>4, SetContextCoherent DEF PageInv
<1>8. Waiting(p, "")
  BY <1>1, SetContextWaiting
<1> HIDE DEF p
<1>9. p \in Page
  BY <1>7 DEF Coherent
<1>10. q \in Page
  BY <1>9 DEF Page
<1>11. q.calls = p.calls /\ q.saving = p.saving /\ q.deleting = p.deleting
  BY <1>9 DEF Page
<1> HIDE DEF q
<1>12. UnderWay(q) = UnderWay(p) /\ Free(q) = Free(p)
  BY <1>11 DEF UnderWay, Free
<1>13. Waiting(q, "open")
  BY <1>8, <1>11, <1>12 DEF Waiting, Held
<1>14. QED
  BY <1>1, <1>5, <1>6, <1>7, <1>10, <1>12, <1>13, SendWaiting

LEMMA ChooseWaits ==
    ASSUME PageInv, Waiting(page, ""),
           LoadMore \/ \E t \in Revisions : ChooseVersion(t)
    PROVE  Waiting(page', "")
<1>1. CASE LoadMore
  <2> DEFINE c == [fn |-> "versions", key |-> page.context.key, mod |-> page.context.mod,
                   latest |-> TRUE, by |-> "user"]
  <2>1. Free(page) # {} /\ page.context # Nil /\ page' = Send(page, c) /\ page \in Page
    BY <1>1 DEF LoadMore, User, Room, PageInv, Coherent
  <2>2. page.context.key \in Keys /\ page.context.mod \in Revisions
    BY <2>1, ContextTyped DEF PageInv
  <2>3. c \in Call
    BY <2>2 DEF Call
  <2> HIDE DEF c
  <2>4. "" \notin Locks
    BY DEF Locks
  <2>5. QED
    BY <2>1, <2>3, <2>4, SendWaiting
<1>2. CASE \E t \in Revisions : ChooseVersion(t)
  <2>1. PICK t \in Revisions : ChooseVersion(t)
    BY <1>2
  <2>2. /\ Free(page) # {} /\ page.context # Nil /\ "user" \in {"open", "user"}
        /\ page' = selectRollbackVersion(page, t, "user")
    BY <2>1 DEF ChooseVersion, User, Room
  <2>3. Waiting(page, "user")
    BY DEF Waiting, Locks
  <2>4. Waiting(selectRollbackVersion(page, t, "user"), "")
    BY <2>2, <2>3, SelectVersionWaiting DEF PageInv
  <2>5. QED
    BY <2>2, <2>4
<1>3. QED
  BY <1>1, <1>2

LEMMA ConfirmRollbackWaits ==
    ASSUME PageInv, Waiting(page, ""), ConfirmRollback
    PROVE  Waiting(page', "")
<1> DEFINE p == [page EXCEPT !.dialog = "none"]
<1>1. Free(page) # {} /\ ~page.unconfirmed /\ page' = rollbackSelected(p) /\ page \in Page
  BY DEF ConfirmRollback, User, Room, PageInv, Coherent
<1>2. p \in Page
  BY <1>1 DEF Page
<1>3. /\ p.cluster = page.cluster /\ p.selected = page.selected /\ p.creating = page.creating
      /\ p.filled = page.filled /\ p.context = page.context /\ p.preview = page.preview
      /\ p.unconfirmed = page.unconfirmed /\ p.dialog = "none" /\ p.calls = page.calls
      /\ p.saving = page.saving /\ p.deleting = page.deleting /\ p.opening = page.opening
  BY <1>1 DEF Page
<1> HIDE DEF p
<1>4. UnderWay(p) = UnderWay(page) /\ Free(p) = Free(page)
  BY <1>3 DEF UnderWay, Free
<1>5. Coherent(p)
  BY <1>2, <1>3, <1>4, CoherentFrame DEF PageInv
<1>6. Waiting(p, "")
  BY <1>3, <1>4, WaitingFrame
<1>7. CASE p.context = Nil \/ p.context.target = Nil
  <2>1. page' = p
    BY <1>1, <1>7 DEF rollbackSelected
  <2>2. QED
    BY <2>1, <1>6
<1>8. CASE p.context # Nil /\ p.context.target # Nil
  <2> DEFINE q == [p EXCEPT !.unconfirmed = TRUE, !.preview = Nil]
             c == [fn |-> "rollback", cluster |-> p.context.cluster, key |-> p.context.key,
                   mod |-> p.context.mod, target |-> p.context.target,
                   from |-> p.context.from, preview |-> p.preview]
  <2>1. page' = Send(q, c)
    BY <1>1, <1>8 DEF rollbackSelected
  <2>2. ~p.unconfirmed
    BY <1>1, <1>3
  <2>3. c \in Call
    BY <1>5, <1>8, <2>2, RollbackTyped
  <2>4. q \in Page
    BY <1>2 DEF Page
  <2>5. /\ q.calls = p.calls /\ q.saving = p.saving /\ q.deleting = p.deleting
        /\ q.opening = p.opening
    BY <1>2 DEF Page
  <2> HIDE DEF q, c
  <2>6. UnderWay(q) = UnderWay(p) /\ Free(q) = Free(p)
    BY <2>5 DEF UnderWay, Free
  <2>7. Waiting(q, "") /\ "" \notin Locks
    BY <1>6, <2>5, <2>6, WaitingFrame DEF Locks
  <2>8. QED
    BY <1>1, <1>4, <2>1, <2>3, <2>4, <2>6, <2>7, SendWaiting
<1>9. QED
  BY <1>7, <1>8

(* The answers: the function that awaited one sends its next request, or    *)
(* reaches its finally block.                                               *)
LEMMA AnsweredLocks ==
    ASSUME PageInv, Waiting(page, ""), NEW c \in UnderWay(page)
    PROVE  LET p == Answered(page, c)
           IN  /\ Coherent(p) /\ Free(p) # {} /\ Same(page, p) /\ p \in Page
               /\ c \in Call /\ CallCoherent(c, page.context) /\ Waiting(p, Unlocks(c))
<1>1. page \in Page
  BY DEF PageInv, Coherent
<1>2. Waiting(Answered(page, c), Unlocks(c))
  BY <1>1, AnsweredWaiting
<1>3. QED
  BY <1>2, AnsweredInv DEF Coherent

LEMMA AnswerListWaits ==
    ASSUME PageInv, Waiting(page, ""), NEW c \in UnderWay(page), c.fn = "list", AnswerList(c)
    PROVE  Waiting(page', "")
<1> DEFINE p == Answered(page, c)
<1>1. /\ Coherent(p) /\ Free(p) # {} /\ p \in Page /\ c \in Call
      /\ CallCoherent(c, page.context) /\ Waiting(p, Unlocks(c))
  BY AnsweredLocks
<1>2. /\ c.cluster \in Clusters /\ c.then \in Thens /\ c.arg \in Keys \cup {Nil}
      /\ c.then \in {"save", "rollback"} => c.arg \in Keys
      /\ Unlocks(c) = c.then
  BY <1>1, CallTyped DEF CallCoherent, Thens, Unlocks
<1>3. \E items \in Clusters \cup {Nil} :
         \/ page' = AfterList([p EXCEPT !.items = items, !.covered = TRUE], c.then, c.arg)
         \/ page' = AfterList([p EXCEPT !.items = items, !.covered = FALSE], c.then, c.arg)
         \/ page' = AfterList(p, c.then, c.arg)
  <2>1. PICK result \in {"items", "empty", "error"} :
           page' = AfterList(IF Current(c)
                             THEN [p EXCEPT !.items = IF result = "items" THEN c.cluster ELSE Nil,
                                            !.covered = result # "items"]
                             ELSE p, c.then, c.arg)
    BY DEF AnswerList
  <2> HIDE DEF p
  <2>2. CASE result = "items"
    BY <1>2, <2>1, <2>2
  <2>3. CASE result # "items"
    BY <2>1, <2>3
  <2>4. QED
    BY <2>2, <2>3
<1>4. PICK items \in Clusters \cup {Nil} :
         \/ page' = AfterList([p EXCEPT !.items = items, !.covered = TRUE], c.then, c.arg)
         \/ page' = AfterList([p EXCEPT !.items = items, !.covered = FALSE], c.then, c.arg)
         \/ page' = AfterList(p, c.then, c.arg)
  BY <1>3
<1> DEFINE e == [p EXCEPT !.items = items, !.covered = TRUE]
           f == [p EXCEPT !.items = items, !.covered = FALSE]
<1> HIDE DEF p
<1>5. p \in Page
  BY <1>1
<1>6. Coherent(e) /\ Free(e) = Free(p) /\ UnderWay(e) = UnderWay(p)
  BY <1>1, CoverCoherent, TRUE \in BOOLEAN
<1>7. e.saving = p.saving /\ e.deleting = p.deleting /\ e.opening = p.opening
  BY <1>5 DEF Page
<1>8. Coherent(f) /\ Free(f) = Free(p) /\ UnderWay(f) = UnderWay(p)
  BY <1>1, CoverCoherent, FALSE \in BOOLEAN
<1>9. f.saving = p.saving /\ f.deleting = p.deleting /\ f.opening = p.opening
  BY <1>5 DEF Page
<1>10. page' \in {AfterList(e, c.then, c.arg), AfterList(f, c.then, c.arg),
                  AfterList(p, c.then, c.arg)}
  BY <1>4
<1> HIDE DEF e, f
<1>11. Waiting(p, c.then)
  BY <1>1, <1>2
<1>12. Waiting(e, c.then)
  BY <1>6, <1>7, <1>11, WaitingFrame
<1>13. Waiting(f, c.then)
  BY <1>8, <1>9, <1>11, WaitingFrame
<1>14. Waiting(AfterList(e, c.then, c.arg), "")
  BY <1>1, <1>2, <1>6, <1>12, AfterListWaiting
<1>15. Waiting(AfterList(f, c.then, c.arg), "")
  BY <1>1, <1>2, <1>8, <1>13, AfterListWaiting
<1>16. Waiting(AfterList(p, c.then, c.arg), "")
  BY <1>1, <1>2, <1>11, AfterListWaiting
<1>17. QED
  BY <1>10, <1>14, <1>15, <1>16

LEMMA KeyAnswerWaits ==
    ASSUME PageInv, Waiting(page, ""), NEW c \in UnderWay(page), c.fn = "load",
           KeyRead(c) \/ KeyNotRead(c)
    PROVE  Waiting(page', "")
<1> DEFINE p == Answered(page, c)
<1>1. /\ Coherent(p) /\ Free(p) # {} /\ Same(page, p) /\ p \in Page /\ c \in Call
      /\ Waiting(p, Unlocks(c))
  BY AnsweredLocks
<1>2. /\ c.cluster \in Clusters /\ c.key \in Keys /\ c.then \in {"", "save", "rollback"}
      /\ c.then # "open"
  BY <1>1, CallTyped
<1>3. Unlocks(c) = c.then
  BY DEF Unlocks
<1>4. CASE KeyRead(c)
  <2>1. PICK m \in Revisions :
           LET d == [cluster |-> c.cluster, key |-> c.key, mod |-> m]
           IN  page' = Finally(IF Current(c)
                               THEN showEditor([p EXCEPT !.selected = d, !.creating = FALSE], d)
                               ELSE p, c.then)
    BY <1>4 DEF KeyRead
  <2> DEFINE d == [cluster |-> c.cluster, key |-> c.key, mod |-> m]
             o == [p EXCEPT !.selected = d, !.creating = FALSE]
             e == [o EXCEPT !.filled = d, !.opening = FALSE]
  <2>2. \/ Current(c) /\ page' = Finally(e, c.then)
        \/ page' = Finally(p, c.then)
    BY <2>1 DEF showEditor
  <2>3. d \in Detail /\ d.cluster = c.cluster
    BY <1>2 DEF Detail
  <2> HIDE DEF p, d
  <2>4. p \in Page
    BY <1>1
  <2>5. o \in Page
    BY <2>3, <2>4 DEF Page
  <2>6. /\ o.calls = p.calls /\ o.saving = p.saving /\ o.deleting = p.deleting
        /\ o.opening = p.opening /\ o.context = p.context /\ o.preview = p.preview
        /\ o.unconfirmed = p.unconfirmed /\ o.cluster = p.cluster
        /\ o.dialog = p.dialog /\ o.named = p.named /\ o.selected = d /\ o.creating = FALSE
    BY <2>4 DEF Page
  <2> HIDE DEF o
  <2>7. e \in Page
    BY <2>3, <2>5 DEF Page
  <2>8. /\ e.calls = o.calls /\ e.saving = o.saving /\ e.deleting = o.deleting
        /\ e.opening = FALSE /\ e.context = o.context /\ e.preview = o.preview
        /\ e.unconfirmed = o.unconfirmed /\ e.cluster = o.cluster
        /\ e.dialog = o.dialog /\ e.named = o.named /\ e.selected = o.selected
        /\ e.creating = o.creating /\ e.filled = d
    BY <2>5 DEF Page
  <2> HIDE DEF e
  <2>9. UnderWay(e) = UnderWay(p)
    BY <2>6, <2>8 DEF UnderWay
  <2>10. Waiting(e, c.then)
    BY <1>1, <1>3, <2>6, <2>8, <2>9, WaitingFrame
  <2>11. ASSUME Current(c)
         PROVE  Coherent(e)
    <3>1. d.cluster = p.cluster
      BY <1>1, <2>3, <2>11 DEF Current, Same
    <3>2. EditorCoherent(e)
      BY <3>1, <2>6, <2>8 DEF EditorCoherent
    <3>3. DialogCoherent(e)
      BY <1>1, <2>6, <2>8 DEF Coherent, DialogCoherent
    <3>4. QED
      BY <3>2, <3>3, <1>1, <2>6, <2>7, <2>8, <2>9 DEF Coherent
  <2>12. ASSUME Current(c)
         PROVE  Waiting(Finally(e, c.then), "")
    BY <1>2, <2>10, <2>11, <2>12, FinallyWaiting, Zenon
  <2>13. Waiting(p, c.then)
    BY <1>1, <1>3
  <2>14. Waiting(Finally(p, c.then), "")
    BY <1>1, <1>2, <2>13, FinallyWaiting, Zenon
  <2>15. QED
    BY <2>2, <2>12, <2>14
<1>5. CASE KeyNotRead(c)
  <2> DEFINE q == loadKeys(p, "", Nil)
  <2>1. page' = Finally(q, c.then) \/ page' = Finally(p, c.then)
    BY <1>5 DEF KeyNotRead
  <2> HIDE DEF p
  <2>2. "" \in Thens /\ "" \notin {"save", "rollback"} /\ Nil \in Keys \cup {Nil}
    BY DEF Thens
  <2>3. Waiting(p, c.then)
    BY <1>1, <1>3
  <2>4. Coherent(q)
    BY <1>1, <2>2, LoadKeysCoherent
  <2>5. Waiting(q, c.then)
    BY <1>1, <2>3, AlsoLoadKeysWaiting
  <2> HIDE DEF q
  <2>6. Waiting(Finally(q, c.then), "")
    BY <1>2, <2>4, <2>5, FinallyWaiting, Zenon
  <2>7. Waiting(Finally(p, c.then), "")
    BY <1>1, <1>2, <2>3, FinallyWaiting, Zenon
  <2>8. QED
    BY <2>1, <2>6, <2>7
<1>6. QED
  BY <1>4, <1>5

LEMMA WriteAnswerWaits ==
    ASSUME PageInv, Waiting(page, ""), NEW c \in UnderWay(page),
           \/ c.fn = "put" /\ (Saved(c) \/ NotSaved(c))
           \/ c.fn = "delete" /\ (DeletedKey(c) \/ NotDeleted(c))
    PROVE  Waiting(page', "")
<1> DEFINE p == Answered(page, c)
<1>1. /\ Coherent(p) /\ Free(p) # {} /\ p \in Page /\ c \in Call /\ Waiting(p, Unlocks(c))
  BY AnsweredLocks
<1>2. CASE c.fn = "put" /\ (Saved(c) \/ NotSaved(c))
  <2> DEFINE k == IF p.creating THEN c.key ELSE p.selected.key
  <2>1. \/ EditorIsOpen(p) /\ page' = loadKeys(p, "save", k)
        \/ page' = Finally(p, "save")
    BY <1>2 DEF Saved, NotSaved
  <2>2. c.key \in Keys
    BY <1>1, <1>2, CallTyped
  <2>3. ASSUME EditorIsOpen(p) PROVE k \in Keys
    BY <1>1, <2>2, <2>3, SelectedTyped DEF EditorIsOpen
  <2>4. Unlocks(c) = "save"
    BY <1>2 DEF Unlocks
  <2> HIDE DEF p, k
  <2>5. Waiting(p, "save")
    BY <1>1, <2>4
  <2>6. "save" \in Thens /\ "save" # "open"
    BY DEF Thens
  <2>7. ASSUME EditorIsOpen(p) PROVE Waiting(loadKeys(p, "save", k), "")
    BY <1>1, <2>3, <2>5, <2>6, <2>7, LoadKeysWaiting
  <2>8. Waiting(Finally(p, "save"), "")
    BY <1>1, <2>5, <2>6, FinallyWaiting, Zenon
  <2>9. QED
    BY <2>1, <2>7, <2>8
<1>3. CASE c.fn = "delete" /\ (DeletedKey(c) \/ NotDeleted(c))
  <2> DEFINE q == closeEditor(p)
  <2>1. page' = loadKeys(q, "delete", Nil) \/ page' = Finally(p, "delete")
    BY <1>3 DEF DeletedKey, NotDeleted
  <2>2. Unlocks(c) = "delete"
    BY <1>3 DEF Unlocks
  <2> HIDE DEF p
  <2>3. Waiting(p, "delete")
    BY <1>1, <2>2
  <2>4. /\ "delete" \in Thens /\ "delete" \notin {"save", "rollback"}
        /\ Nil \in Keys \cup {Nil} /\ "delete" # "open"
    BY DEF Thens
  <2>5. Coherent(q) /\ Free(q) # {}
    BY <1>1, CloseEditorCoherent
  <2>6. Waiting(q, "delete")
    BY <1>1, <2>3, CloseEditorWaiting
  <2> HIDE DEF q
  <2>7. Waiting(loadKeys(q, "delete", Nil), "")
    BY <2>4, <2>5, <2>6, LoadKeysWaiting
  <2>8. Waiting(Finally(p, "delete"), "")
    BY <1>1, <2>3, <2>4, FinallyWaiting, Zenon
  <2>9. QED
    BY <2>1, <2>7, <2>8
<1>4. QED
  BY <1>2, <1>3

LEMMA VersionsReadWaits ==
    ASSUME PageInv, Waiting(page, ""), NEW c \in UnderWay(page), c.fn = "versions",
           VersionsRead(c)
    PROVE  Waiting(page', "")
<1> DEFINE p == Answered(page, c)
           q == [p EXCEPT !.context.listed = TRUE]
<1>1. /\ Coherent(p) /\ Free(p) # {} /\ Same(page, p) /\ p \in Page /\ c \in Call
      /\ CallCoherent(c, page.context) /\ Waiting(p, Unlocks(c))
  BY AnsweredLocks
<1>2. c.by \in {"open", "user"} /\ Unlocks(c) = c.by
  BY <1>1, CallTyped DEF Unlocks
<1>3. \/ c.latest /\ \E t \in Revisions : page' = selectRollbackVersion(q, t, c.by)
      \/ c.latest /\ page' = PreviewOpened(q, c.by)
      \/ page' = PreviewOpened(p, c.by)
  BY DEF VersionsRead
<1> HIDE DEF p
<1>4. Waiting(p, c.by)
  BY <1>1, <1>2
<1>5. ASSUME c.latest
      PROVE  Coherent(q) /\ Free(q) # {} /\ q.context # Nil
  <2>1. p.context # Nil
    BY <1>1, <1>5 DEF CallCoherent, Same
  <2>2. QED
    BY <2>1, <1>1, VersionsListedCoherent
<1>6. p \in Page
  BY <1>1
<1>7. /\ q.calls = p.calls /\ q.saving = p.saving /\ q.deleting = p.deleting
      /\ q.opening = p.opening
  BY <1>6 DEF Page
<1> HIDE DEF q
<1>8. UnderWay(q) = UnderWay(p)
  BY <1>7 DEF UnderWay
<1>9. Waiting(q, c.by)
  BY <1>4, <1>7, <1>8, WaitingFrame
<1>10. ASSUME c.latest, NEW t \in Revisions
       PROVE  Waiting(selectRollbackVersion(q, t, c.by), "")
  BY <1>2, <1>5, <1>9, <1>10, SelectVersionWaiting
<1>11. ASSUME c.latest
       PROVE  Waiting(PreviewOpened(q, c.by), "")
  BY <1>2, <1>5, <1>9, <1>11, PreviewOpenedWaiting DEF Coherent
<1>12. Waiting(PreviewOpened(p, c.by), "")
  BY <1>2, <1>4, <1>6, PreviewOpenedWaiting
<1>13. QED
  BY <1>3, <1>10, <1>11, <1>12

LEMMA VersionsNotReadWaits ==
    ASSUME PageInv, Waiting(page, ""), NEW c \in UnderWay(page), c.fn = "versions",
           VersionsNotRead(c)
    PROVE  Waiting(page', "")
<1> DEFINE p == Answered(page, c)
           q == IF p.dialog = "rollback" THEN DismissedRollback(p) ELSE p
<1>1. /\ Coherent(p) /\ Free(p) # {} /\ p \in Page /\ c \in Call /\ Waiting(p, Unlocks(c))
  BY AnsweredLocks
<1>2. /\ c.key \in Keys /\ c.by \in {"open", "user"} /\ Unlocks(c) = c.by
      /\ "" \in {"", "save", "rollback"}
  BY <1>1, CallTyped DEF Unlocks
<1>3. \/ page' = PreviewOpened(loadKey(q, c.key, ""), c.by)
      \/ page' = PreviewOpened(q, c.by)
      \/ c.by # "open" /\ page' = p
  BY DEF VersionsNotRead
<1> HIDE DEF p
<1>4. Waiting(p, c.by)
  BY <1>1, <1>2
<1>5. ASSUME c.by # "open" PROVE Waiting(p, "")
  BY <1>2, <1>4, <1>5 DEF Waiting, Locks
<1>6. Coherent(q) /\ Free(q) # {} /\ Waiting(q, c.by)
  <2>1. Coherent(DismissedRollback(p)) /\ Free(DismissedRollback(p)) = Free(p)
    BY <1>1, DismissedCoherent
  <2>2. Waiting(DismissedRollback(p), c.by)
    BY <1>1, <1>4, DismissedWaiting
  <2>3. QED
    BY <1>1, <1>4, <2>1, <2>2
<1> HIDE DEF q
<1> DEFINE r == loadKey(q, c.key, "")
<1>7. Coherent(r) /\ Waiting(r, c.by)
  BY <1>2, <1>6, LoadKeyCoherent, AlsoLoadKeyWaiting
<1>8. page' = PreviewOpened(r, c.by) \/ page' = PreviewOpened(q, c.by)
      \/ (c.by # "open" /\ page' = p)
  BY <1>3
<1> HIDE DEF r
<1>9. q \in Page /\ r \in Page
  BY <1>6, <1>7 DEF Coherent
<1>10. Waiting(PreviewOpened(r, c.by), "")
  BY <1>2, <1>7, <1>9, PreviewOpenedWaiting
<1>11. Waiting(PreviewOpened(q, c.by), "")
  BY <1>2, <1>6, <1>9, PreviewOpenedWaiting
<1>12. QED
  BY <1>5, <1>8, <1>10, <1>11

LEMMA PreviewAnswerWaits ==
    ASSUME PageInv, Waiting(page, ""), NEW c \in UnderWay(page), c.fn = "preview",
           PreviewRead(c) \/ PreviewNotRead(c)
    PROVE  Waiting(page', "")
<1> DEFINE p == Answered(page, c)
           q == [p EXCEPT !.preview = c.target, !.unconfirmed = FALSE]
<1>1. p \in Page /\ c \in Call /\ Waiting(p, Unlocks(c))
  BY AnsweredLocks
<1>2. c.target \in Revisions /\ c.by \in {"open", "user"} /\ Unlocks(c) = c.by
  BY <1>1, CallTyped DEF Unlocks
<1>3. page' = PreviewOpened(q, c.by) \/ page' = PreviewOpened(p, c.by)
  BY DEF PreviewRead, PreviewNotRead
<1> HIDE DEF p
<1>4. p \in Page /\ Waiting(p, c.by)
  BY <1>1, <1>2
<1>5. q \in Page
  BY <1>2, <1>4 DEF Page
<1>6. /\ q.calls = p.calls /\ q.saving = p.saving /\ q.deleting = p.deleting
      /\ q.opening = p.opening
  BY <1>4 DEF Page
<1> HIDE DEF q
<1>7. UnderWay(q) = UnderWay(p)
  BY <1>6 DEF UnderWay
<1>8. Waiting(q, c.by)
  BY <1>4, <1>6, <1>7, WaitingFrame
<1>9. Waiting(PreviewOpened(q, c.by), "")
  BY <1>2, <1>5, <1>8, PreviewOpenedWaiting
<1>10. Waiting(PreviewOpened(p, c.by), "")
  BY <1>2, <1>4, PreviewOpenedWaiting
<1>11. QED
  BY <1>3, <1>9, <1>10

LEMMA RollbackAnswerWaits ==
    ASSUME PageInv, Waiting(page, ""), NEW c \in UnderWay(page), c.fn = "rollback",
           RolledBack(c) \/ NotRolledBack(c)
    PROVE  Waiting(page', "")
<1> DEFINE p == Answered(page, c)
           q == IF p.selected # Nil THEN loadKey(p, p.selected.key, "") ELSE p
<1>1. /\ Coherent(p) /\ Free(p) # {} /\ c \in Call /\ Waiting(p, Unlocks(c))
  BY AnsweredLocks
<1>2. /\ c.key \in Keys /\ "" \in {"", "save", "rollback"} /\ "rollback" \in Thens
      /\ "rollback" # "open" /\ Unlocks(c) = ""
  BY <1>1, CallTyped DEF Thens, Unlocks
<1>3. \/ page' = loadKeys(p, "rollback", c.key)
      \/ page' = Finally(q, "rollback")
      \/ page' = Finally(p, "rollback")
  BY DEF RolledBack, NotRolledBack
<1> HIDE DEF p
<1>4. Waiting(p, "rollback")
  BY <1>1, <1>2 DEF Waiting, Locks
<1>5. Waiting(loadKeys(p, "rollback", c.key), "")
  BY <1>1, <1>2, <1>4, LoadKeysWaiting
<1>6. Coherent(q) /\ Waiting(q, "rollback")
  <2>1. ASSUME p.selected # Nil
        PROVE  /\ Coherent(loadKey(p, p.selected.key, ""))
               /\ Waiting(loadKey(p, p.selected.key, ""), "rollback")
    <3>1. p.selected.key \in Keys
      BY <1>1, <2>1, SelectedTyped
    <3>2. QED
      BY <1>1, <1>2, <1>4, <3>1, LoadKeyCoherent, AlsoLoadKeyWaiting
  <2>2. QED
    BY <1>1, <1>4, <2>1
<1> HIDE DEF q
<1>7. Waiting(Finally(q, "rollback"), "")
  BY <1>2, <1>6, FinallyWaiting, Zenon
<1>8. Waiting(Finally(p, "rollback"), "")
  BY <1>1, <1>2, <1>4, FinallyWaiting, Zenon
<1>9. QED
  BY <1>3, <1>5, <1>7, <1>8

LEMMA AnswerWaits ==
    ASSUME PageInv, Waiting(page, ""), NEW c \in UnderWay(page), Answer(c)
    PROVE  Waiting(page', "")
<1>1. CASE c.fn = "list" /\ AnswerList(c)
  BY <1>1, AnswerListWaits
<1>2. CASE c.fn = "load" /\ (KeyRead(c) \/ KeyNotRead(c))
  BY <1>2, KeyAnswerWaits
<1>3. CASE \/ c.fn = "put" /\ (Saved(c) \/ NotSaved(c))
           \/ c.fn = "delete" /\ (DeletedKey(c) \/ NotDeleted(c))
  BY <1>3, WriteAnswerWaits
<1>4. CASE c.fn = "versions" /\ VersionsRead(c)
  BY <1>4, VersionsReadWaits
<1>5. CASE c.fn = "versions" /\ VersionsNotRead(c)
  BY <1>5, VersionsNotReadWaits
<1>6. CASE c.fn = "preview" /\ (PreviewRead(c) \/ PreviewNotRead(c))
  BY <1>6, PreviewAnswerWaits
<1>7. CASE c.fn = "rollback" /\ (RolledBack(c) \/ NotRolledBack(c))
  BY <1>7, RollbackAnswerWaits
<1>8. QED
  BY <1>1, <1>2, <1>3, <1>4, <1>5, <1>6, <1>7 DEF Answer

LEMMA WaitingStep ==
    ASSUME PageInv, Waiting(page, ""), [BNext]_page
    PROVE  Waiting(page', "")
<1>1. ASSUME NEW c \in Clusters, activateCluster(c) PROVE Waiting(page', "")
  BY <1>1, ChangeClusterWaits
<1>2. ASSUME NEW c \in Clusters \cup {Nil}, loadClusters(c) PROVE Waiting(page', "")
  BY <1>2, LoadClustersWaits
<1>3. CASE Search \/ Refresh
  BY <1>3, LoadListWaits
<1>4. ASSUME NEW k \in Keys, OpenItem(k) PROVE Waiting(page', "")
  BY <1>4, OpenItemWaits
<1>5. ASSUME NEW k \in Keys, saveKey(k) PROVE Waiting(page', "")
  BY <1>5, SaveKeyWaits
<1>6. CASE beginCreate \/ CancelEditor \/ OpenDelete \/ DismissRollback
  BY <1>6, QuietWaits
<1>7. ASSUME NEW how \in {"cancel", "confirm", "esc"}, CloseDelete(how)
      PROVE  Waiting(page', "")
  BY <1>7, CloseDeleteWaits
<1>8. CASE previewRollback
  BY <1>8, PreviewRollbackWaits
<1>9. CASE LoadMore \/ \E t \in Revisions : ChooseVersion(t)
  BY <1>9, ChooseWaits
<1>10. CASE ConfirmRollback
  BY <1>10, ConfirmRollbackWaits
<1>11. ASSUME NEW c \in UnderWay(page), Answer(c) PROVE Waiting(page', "")
  BY <1>11, AnswerWaits
<1>12. CASE UNCHANGED page
  BY <1>12
<1>13. QED
  BY <1>1, <1>2, <1>3, <1>4, <1>5, <1>6, <1>7, <1>8, <1>9, <1>10, <1>11, <1>12,
     Zenon DEF BNext

LEMMA WaitingMeans ==
    ASSUME PageInv, Waiting(page, "")
    PROVE  LockedOnlyWhileWaiting
<1>1. page \in Page
  BY DEF PageInv, Coherent
<1>2. \A c \in UnderWay(page) : c \in Call
  BY <1>1, UnderWayTyped
<1>3. ASSUME NEW c \in UnderWay(page)
      PROVE  /\ Unlocks(c) = "save" =>
                   c.fn \in {"put"} \/ (c.fn \in {"list", "load"} /\ c.then = "save")
             /\ Unlocks(c) = "delete" =>
                   c.fn \in {"delete"} \/ (c.fn \in {"list", "load"} /\ c.then = "delete")
             /\ Unlocks(c) = "open" => c.fn \in {"versions", "preview"} /\ c.by = "open"
  BY <1>2, <1>3, CallTyped DEF Unlocks
<1>4. page.saving => \E c \in UnderWay(page) : Unlocks(c) = "save"
  BY DEF Waiting, Held, Locks
<1>5. page.deleting => \E c \in UnderWay(page) : Unlocks(c) = "delete"
  BY DEF Waiting, Held, Locks
<1>6. page.opening => \E c \in UnderWay(page) : Unlocks(c) = "open"
  BY DEF Waiting, Held, Locks
<1>7. QED
  BY <1>3, <1>4, <1>5, <1>6 DEF LockedOnlyWhileWaiting

\* A button that a request locked (save, confirm deletion, choose a version) is
\* unlocked by the finally block of app.js on every path: while it is locked, a
\* request is under way whose answer leads there.
THEOREM LocksAreReleased == BSpec => []LockedOnlyWhileWaiting
<1>1. BInit => Waiting(page, "")
  <2>1. SUFFICES ASSUME BInit PROVE Waiting(page, "")
    OBVIOUS
  <2>2. page.saving = FALSE /\ page.deleting = FALSE /\ page.opening = FALSE
    BY <2>1 DEF BInit
  <2>3. QED
    BY <2>2 DEF Waiting, Held
<1>2. PageInv /\ Waiting(page, "") /\ [BNext]_page => Waiting(page, "")'
  BY WaitingStep
<1>3. PageInv /\ Waiting(page, "") => LockedOnlyWhileWaiting
  BY WaitingMeans
<1>4. QED
  BY <1>1, <1>2, <1>3, PageInvariant, PTL DEF BSpec
=============================================================================
