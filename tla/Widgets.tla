------------------------------ MODULE Widgets ------------------------------
(***************************************************************************)
(* The shared dashboard widgets: POST, PUT and DELETE requests of the UI,  *)
(* served by a pool of threads, on the rows of dashboard_widgets.  A PUT   *)
(* looks the widget up in one transaction and upserts it in another, which *)
(* itself loads the row without a lock and writes at commit the columns it *)
(* changed; a DELETE loads the row and deletes it at commit.               *)
(*                                                                         *)
(* A row is its title and its board: the labels, status filter and sort    *)
(* order, which a save always gives together.                              *)
(***************************************************************************)
CONSTANTS
    Request,      \* requests of operators
    Widget,       \* widget ids
    Title, Board,
    DefaultTitle, \* "Widget"
    Blank,        \* the title of a request that names none
    Gone          \* there is no row, or no widget in hand

ASSUME WidgetsAssumption ==
    /\ DefaultTitle \in Title /\ Blank \notin Title
    /\ Gone \notin [title : Title, board : Board] /\ Gone \notin Widget

VARIABLES
    rows,      \* dashboard_widgets
    used,      \* ids that were ever handed out (uuid4)
    pc, target, title, board, \* per request: its place, widget and body
    kept,      \* the title its lookup found
    loaded,    \* the row its own transaction loaded
    answer,
    \* history: what committed on the widget while the request was under way,
    \* the save committed last, rows written by overtaken saves, ids whose
    \* deletion was answered, ids that an overtaken save brought back
    crossed, lastSave, mixed, deleted, revived

reqVars  == <<pc, target, title, board, kept, loaded, answer>>
histVars == <<crossed, lastSave, mixed, deleted, revived>>
vars     == <<rows, used, reqVars, histVars>>

-----------------------------------------------------------------------------
Row == [title : Title, board : Board]

Init ==
    /\ rows = [w \in Widget |-> Gone] /\ used = {}
    /\ pc = [r \in Request |-> "idle"]
    /\ target = [r \in Request |-> Gone]
    /\ title = [r \in Request |-> Blank]
    /\ board = [r \in Request |-> Gone]
    /\ kept = [r \in Request |-> Blank]
    /\ loaded = [r \in Request |-> Gone]
    /\ answer = [r \in Request |-> "none"]
    /\ crossed = [r \in Request |-> {}]
    /\ lastSave = [w \in Widget |-> Gone]
    /\ mixed = {} /\ deleted = {} /\ revived = {}

Answer(r, a) ==
    /\ pc' = [pc EXCEPT ![r] = "done"]
    /\ answer' = [answer EXCEPT ![r] = a]

\* A PUT between its lookup and its commit sees, or misses, what others commit.
UnderWay(q, w) == target[q] = w /\ pc[q] \in {"upsert", "commit"}
Crossing(q, kind) == IF kind = "save" /\ pc[q] = "commit" THEN {"save", "overwrite"} ELSE {kind}
Cross(r, w, kind) ==
    crossed' = [q \in Request |-> IF q # r /\ UnderWay(q, w)
                                  THEN crossed[q] \cup Crossing(q, kind) ELSE crossed[q]]

-----------------------------------------------------------------------------
\* A uuid4 is new.  Mutant: ids that no row has are used again.
Unoccupied(w) == rows[w] = Gone
Fresh(w) == w \notin used

\* create_widget: the insert of a row with a new id, in one transaction.
Create(r, w, t, b) ==
    LET row == [title |-> IF t = Blank THEN DefaultTitle ELSE t, board |-> b] IN
    /\ pc[r] = "idle" /\ Fresh(w)
    /\ rows' = [rows EXCEPT ![w] = row]
    /\ lastSave' = [lastSave EXCEPT ![w] = row]
    /\ used' = used \cup {w}
    /\ Answer(r, "ok")
    /\ UNCHANGED <<target, title, board, kept, loaded, crossed, mixed, deleted, revived>>

\* update_widget looks the widget up ...
Update(r, w, t, b) ==
    /\ pc[r] = "idle" /\ w \in used
    /\ IF rows[w] # Gone
       THEN /\ pc' = [pc EXCEPT ![r] = "upsert"]
            /\ target' = [target EXCEPT ![r] = w]
            /\ title' = [title EXCEPT ![r] = t]
            /\ board' = [board EXCEPT ![r] = b]
            /\ kept' = [kept EXCEPT ![r] = rows[w].title]
            /\ UNCHANGED answer
       ELSE Answer(r, "missing") /\ UNCHANGED <<target, title, board, kept>>
    /\ UNCHANGED <<rows, used, loaded, histVars>>

\* ... and upsert_widget loads it again.
Load(w) == rows[w]

UpsertLoad(r) ==
    /\ pc[r] = "upsert"
    /\ loaded' = [loaded EXCEPT ![r] = Load(target[r])]
    /\ pc' = [pc EXCEPT ![r] = "commit"]
    /\ UNCHANGED <<rows, used, target, title, board, kept, answer, histVars>>

\* What the request asks for; a blank title keeps the one the lookup found.
\* Mutant: a blank title resets it.
WantedDefault(r) ==
    [title |-> IF title[r] = Blank THEN DefaultTitle ELSE title[r], board |-> board[r]]
Wanted(r) == [title |-> IF title[r] = Blank THEN kept[r] ELSE title[r], board |-> board[r]]

\* A session writes only the columns whose value differs from what it loaded.
\* Mutant: the columns of the board are forgotten.
FlushTitle(old, current, new) ==
    [title |-> IF old.title = new.title THEN current.title ELSE new.title, board |-> current.board]
Flush(old, current, new) ==
    [title |-> IF old.title = new.title THEN current.title ELSE new.title,
     board |-> IF old.board = new.board THEN current.board ELSE new.board]

\* The commit inserts if the load found nothing and updates otherwise: an
\* insert over a row that came back violates the primary key, an update of a
\* row that went matches nothing; both answer 500.
UpsertCommit(r) ==
    LET w == target[r] IN
    /\ pc[r] = "commit"
    /\ IF loaded[r] = Gone <=> rows[w] = Gone
       THEN /\ rows' = [rows EXCEPT ![w] = IF loaded[r] = Gone THEN Wanted(r)
                                           ELSE Flush(loaded[r], rows[w], Wanted(r))]
            /\ lastSave' = [lastSave EXCEPT ![w] = Wanted(r)]
            /\ mixed' = IF "overwrite" \in crossed[r] THEN mixed \cup {w} ELSE mixed \ {w}
            /\ revived' = IF rows[w] = Gone /\ "delete" \in crossed[r]
                          THEN revived \cup {w} ELSE revived
            /\ Cross(r, w, "save")
            /\ Answer(r, "ok")
       ELSE Answer(r, "error") /\ UNCHANGED <<rows, lastSave, mixed, revived, crossed>>
    /\ UNCHANGED <<used, target, title, board, kept, loaded, deleted>>

\* delete_widget: load, and delete at commit; a row that is gone by then is
\* no error.
Delete(r, w) ==
    /\ pc[r] = "idle" /\ w \in used
    /\ IF rows[w] = Gone
       THEN Answer(r, "missing") /\ UNCHANGED target
       ELSE /\ pc' = [pc EXCEPT ![r] = "delete"]
            /\ target' = [target EXCEPT ![r] = w]
            /\ UNCHANGED answer
    /\ UNCHANGED <<rows, used, title, board, kept, loaded, histVars>>

DeleteCommit(r) ==
    LET w == target[r] IN
    /\ pc[r] = "delete"
    /\ rows' = [rows EXCEPT ![w] = Gone]
    /\ deleted' = deleted \cup {w}
    /\ revived' = revived \ {w}
    /\ Cross(r, w, "delete")
    /\ Answer(r, "ok")
    /\ UNCHANGED <<used, target, title, board, kept, loaded, lastSave, mixed>>

Next ==
    \/ \E r \in Request, w \in Widget, t \in Title \cup {Blank}, b \in Board :
          Create(r, w, t, b) \/ Update(r, w, t, b)
    \/ \E r \in Request, w \in Widget : Delete(r, w)
    \/ \E r \in Request : UpsertLoad(r) \/ UpsertCommit(r) \/ DeleteCommit(r)

Spec == Init /\ [][Next]_vars

-----------------------------------------------------------------------------
(* Properties *)

Place == {"idle", "upsert", "commit", "delete", "done"}

TypeOK ==
    /\ rows \in [Widget -> Row \cup {Gone}] /\ used \subseteq Widget
    /\ pc \in [Request -> Place] /\ target \in [Request -> Widget \cup {Gone}]
    /\ title \in [Request -> Title \cup {Blank}] /\ board \in [Request -> Board \cup {Gone}]
    /\ kept \in [Request -> Title \cup {Blank}] /\ loaded \in [Request -> Row \cup {Gone}]
    /\ answer \in [Request -> {"none", "ok", "missing", "error"}]
    /\ crossed \in [Request -> SUBSET {"save", "overwrite", "delete"}]
    /\ lastSave \in [Widget -> Row \cup {Gone}]
    /\ mixed \subseteq Widget /\ deleted \subseteq Widget /\ revived \subseteq Widget

\* A widget shows the title and the board of one save, the last one to commit,
\* unless that save loaded the row before another save committed: then columns
\* it left as it had loaded them keep the other's values (upsert_widget).
RowIsLastSave == \A w \in Widget : rows[w] \in {Gone, lastSave[w]} \/ w \in mixed

\* A widget whose deletion was answered exists only if a PUT that had found it
\* before the deletion committed after it and inserted it anew.
StaysDeleted == \A w \in deleted : rows[w] # Gone => w \in revived

\* A save without a title leaves the title alone, unless another save committed
\* since its lookup: then it writes the older title back (update_widget).
BlankKeepsTitle ==
    [][\A r \in Request :
          pc[r] = "commit" /\ pc'[r] = "done" /\ answer'[r] = "ok"
             /\ title[r] = Blank /\ crossed[r] = {}
          => rows'[target[r]].title = rows[target[r]].title]_vars

\* A request fails with 500 only if the widget was deleted under it.
ErrorsRaced == \A r \in Request : answer[r] = "error" => "delete" \in crossed[r]

-----------------------------------------------------------------------------
(* The strengthening that makes the safety invariants inductive. *)

\* Ids not handed out have no row, nor a request on its way to one.
FreshIds ==
    /\ \A w \in Widget : w \notin used => rows[w] = Gone /\ w \notin deleted
    /\ \A r \in Request : pc[r] \in {"upsert", "commit", "delete"} => target[r] \in used
    /\ \A r \in Request : pc[r] \in {"upsert", "commit"} => board[r] \in Board /\ kept[r] \in Title

\* A save that nothing crossed has the row as it found it.
Uncrossed ==
    \A r \in Request : pc[r] \in {"upsert", "commit"} =>
        LET w == target[r] IN
        /\ "delete" \notin crossed[r] => rows[w] # Gone
        /\ crossed[r] = {} => kept[r] = rows[w].title
        /\ pc[r] = "commit" =>
              /\ loaded[r] = Gone => "delete" \in crossed[r]
              /\ loaded[r] # Gone /\ crossed[r] \cap {"overwrite", "delete"} = {}
                    => loaded[r] = rows[w]
              /\ loaded[r] # Gone /\ "overwrite" \notin crossed[r]
                    => rows[w] \in {Gone, loaded[r]}

IInv == TypeOK /\ FreshIds /\ Uncrossed /\ RowIsLastSave /\ StaysDeleted /\ ErrorsRaced
=============================================================================
