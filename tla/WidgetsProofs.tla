---------------------------- MODULE WidgetsProofs ----------------------------
(* Theorems about Widgets, for every number of requests, widgets and values. *)
EXTENDS Widgets, TLAPS

Saving(r) == pc[r] \in {"upsert", "commit"}

\* The conjuncts of FreshIds and Uncrossed about one request.
Prepared(r) ==
    /\ pc[r] \in {"upsert", "commit", "delete"} => target[r] \in used
    /\ Saving(r) => board[r] \in Board /\ kept[r] \in Title

UncrossedAt(r) ==
    Saving(r) =>
        LET w == target[r] IN
        /\ "delete" \notin crossed[r] => rows[w] # Gone
        /\ crossed[r] = {} => kept[r] = rows[w].title
        /\ pc[r] = "commit" =>
              /\ loaded[r] = Gone => "delete" \in crossed[r]
              /\ loaded[r] # Gone /\ crossed[r] \cap {"overwrite", "delete"} = {}
                    => loaded[r] = rows[w]
              /\ loaded[r] # Gone /\ "overwrite" \notin crossed[r]
                    => rows[w] \in {Gone, loaded[r]}

LEMMA ByRequest ==
  /\ FreshIds <=> /\ \A w \in Widget : w \notin used => rows[w] = Gone /\ w \notin deleted
                  /\ \A r \in Request : Prepared(r)
  /\ Uncrossed <=> \A r \in Request : UncrossedAt(r)
BY DEF FreshIds, Prepared, Saving, Uncrossed, UncrossedAt

LEMMA RowFacts == ASSUME NEW x \in Row PROVE x # Gone /\ x.title \in Title /\ x.board \in Board
BY WidgetsAssumption DEF Row

\* A request that saves has a widget, a whole body and a whole row to write.
LEMMA WantedIsRow ==
  ASSUME TypeOK, FreshIds, NEW r \in Request, Saving(r)
  PROVE  target[r] \in Widget /\ Wanted(r) \in Row
<1>1. Prepared(r)
  BY ByRequest
<1>2. target[r] \in Widget
  BY <1>1 DEF Prepared, Saving, TypeOK
<1>3. title[r] \in Title \/ title[r] = Blank
  BY DEF TypeOK
<1> QED BY <1>1, <1>2, <1>3 DEF Prepared, Wanted, Row

LEMMA FlushIsRow ==
  ASSUME NEW a \in Row, NEW b \in Row, NEW c \in Row
  PROVE  Flush(a, b, c) \in Row /\ Flush(a, a, c) = c
BY DEF Flush, Row

-----------------------------------------------------------------------------
(* Each action preserves the types. *)

LEMMA NextTypeOK == TypeOK /\ FreshIds /\ [Next]_vars => TypeOK'
<1> SUFFICES ASSUME TypeOK, FreshIds, [Next]_vars PROVE TypeOK'
  OBVIOUS
<1> USE DEF TypeOK, Place
<1>1. ASSUME NEW r \in Request, NEW w \in Widget, NEW t \in Title \cup {Blank}, NEW b \in Board,
             Create(r, w, t, b)
      PROVE  TypeOK'
  <2>1. [title |-> IF t = Blank THEN DefaultTitle ELSE t, board |-> b] \in Row
    BY WidgetsAssumption DEF Row
  <2> QED BY <1>1, <2>1 DEF Create, Answer
<1>2. ASSUME NEW r \in Request, NEW w \in Widget, NEW t \in Title \cup {Blank}, NEW b \in Board,
             Update(r, w, t, b)
      PROVE  TypeOK'
  <2>1. CASE rows[w] = Gone
    BY <1>2, <2>1 DEF Update, Answer, histVars
  <2>2. CASE rows[w] # Gone
    <3>1. rows[w].title \in Title
      BY <2>2, RowFacts
    <3> QED BY <1>2, <2>2, <3>1 DEF Update, histVars
  <2> QED BY <2>1, <2>2
<1>3. ASSUME NEW r \in Request, NEW w \in Widget, Delete(r, w) PROVE TypeOK'
  BY <1>3 DEF Delete, Answer, histVars
<1>4. ASSUME NEW r \in Request, UpsertLoad(r) PROVE TypeOK'
  <2>1. target[r] \in Widget
    BY <1>4, WantedIsRow DEF UpsertLoad, Saving
  <2> QED BY <1>4, <2>1 DEF UpsertLoad, Load, histVars
<1>5. ASSUME NEW r \in Request, NEW w, NEW kind \in {"save", "delete"}, Cross(r, w, kind)
      PROVE  crossed' \in [Request -> SUBSET {"save", "overwrite", "delete"}]
  BY <1>5 DEF Cross, Crossing
<1>6. ASSUME NEW r \in Request, UpsertCommit(r) PROVE TypeOK'
  <2>1. target[r] \in Widget /\ Wanted(r) \in Row
    BY <1>6, WantedIsRow DEF UpsertCommit, Saving
  <2>2. CASE loaded[r] = Gone <=> rows[target[r]] = Gone
    <3>1. rows' \in [Widget -> Row \cup {Gone}] /\ lastSave' \in [Widget -> Row \cup {Gone}]
      BY <1>6, <2>1, <2>2, FlushIsRow DEF UpsertCommit
    <3>2. crossed' \in [Request -> SUBSET {"save", "overwrite", "delete"}]
      BY <1>5, <1>6, <2>2 DEF UpsertCommit
    <3>3. mixed' \subseteq Widget /\ revived' \subseteq Widget
      BY <1>6, <2>1, <2>2 DEF UpsertCommit
    <3> QED BY <1>6, <2>2, <3>1, <3>2, <3>3 DEF UpsertCommit, Answer
  <2>3. CASE ~(loaded[r] = Gone <=> rows[target[r]] = Gone)
    BY <1>6, <2>3 DEF UpsertCommit, Answer
  <2> QED BY <2>2, <2>3
<1>7. ASSUME NEW r \in Request, DeleteCommit(r) PROVE TypeOK'
  <2>1. target[r] \in Widget
    BY <1>7, ByRequest DEF DeleteCommit, Prepared
  <2>2. crossed' \in [Request -> SUBSET {"save", "overwrite", "delete"}]
    BY <1>5, <1>7 DEF DeleteCommit
  <2> QED BY <1>7, <2>1, <2>2 DEF DeleteCommit, Answer
<1>8. CASE UNCHANGED vars
  BY <1>8 DEF vars, reqVars, histVars
<1> QED BY <1>1, <1>2, <1>3, <1>4, <1>6, <1>7, <1>8 DEF Next

-----------------------------------------------------------------------------
(* What the steps of one request mean for the others. *)

\* A request's step leaves the memory of the others alone.
LEMMA OthersStay ==
  ASSUME TypeOK, [Next]_vars, NEW q \in Request, pc'[q] = pc[q]
  PROVE  /\ UNCHANGED <<target[q], title[q], board[q], kept[q], loaded[q]>>
         /\ crossed[q] \subseteq crossed'[q]
BY DEF TypeOK, Next, Create, Update, Delete, UpsertLoad, UpsertCommit, DeleteCommit, Answer,
   Cross, vars, reqVars, histVars

LEMMA UsedGrows == ASSUME [Next]_vars PROVE used \subseteq used'
BY DEF Next, Create, Update, Delete, UpsertLoad, UpsertCommit, DeleteCommit, vars

\* Rows change in three ways, and requests under way on the widget notice two.
LEMMA RowsFrame ==
  ASSUME TypeOK, FreshIds, [Next]_vars, NEW w \in Widget, rows'[w] # rows[w]
  PROVE  \/ w \notin used
         \/ \E r \in Request : UpsertCommit(r) /\ target[r] = w /\ Cross(r, w, "save") /\ rows'[w] # Gone
         \/ \E r \in Request : DeleteCommit(r) /\ target[r] = w /\ Cross(r, w, "delete") /\ rows'[w] = Gone
<1> USE DEF TypeOK
<1>1. ASSUME NEW r \in Request, UpsertCommit(r)
      PROVE  target[r] = w /\ Cross(r, w, "save") /\ rows'[w] # Gone
  <2>1. Wanted(r) \in Row /\ target[r] \in Widget
    BY <1>1, WantedIsRow DEF UpsertCommit, Saving
  <2>2. target[r] = w /\ (loaded[r] = Gone <=> rows[w] = Gone)
    BY <1>1 DEF UpsertCommit
  <2>3. rows'[w] \in Row
    BY <1>1, <2>1, <2>2, FlushIsRow DEF UpsertCommit
  <2> QED BY <1>1, <2>2, <2>3, RowFacts DEF UpsertCommit
<1>2. ASSUME NEW r \in Request, DeleteCommit(r)
      PROVE  target[r] = w /\ Cross(r, w, "delete") /\ rows'[w] = Gone
  BY <1>2 DEF DeleteCommit
<1>3. ASSUME NEW r \in Request, NEW v \in Widget, NEW t, NEW b, Create(r, v, t, b)
      PROVE  w \notin used
  BY <1>3 DEF Create, Fresh
<1>4. CASE rows' = rows
  BY <1>4
<1> QED BY <1>1, <1>2, <1>3, <1>4 DEF Next, Update, Delete, UpsertLoad, vars

LEMMA NextFreshIds == TypeOK /\ FreshIds /\ [Next]_vars => FreshIds'
<1> SUFFICES ASSUME TypeOK, FreshIds, [Next]_vars PROVE FreshIds'
  OBVIOUS
<1> USE DEF TypeOK
<1>1. ASSUME NEW r \in Request PROVE Prepared(r)'
  <2>1. Prepared(r)
    BY ByRequest
  <2>2. CASE pc'[r] = pc[r]
    BY <2>1, <2>2, OthersStay, UsedGrows DEF Prepared, Saving
  <2>3. CASE pc'[r] # pc[r]
    <3>1. ASSUME NEW q \in Request, NEW w \in Widget, NEW t \in Title \cup {Blank},
                 NEW b \in Board, Update(q, w, t, b)
          PROVE  Prepared(r)'
      <4>1. q = r
        BY <2>3, <3>1 DEF Update, Answer
      <4>2. CASE rows[w] = Gone
        BY <3>1, <4>1, <4>2 DEF Update, Answer, Prepared, Saving
      <4>3. CASE rows[w] # Gone
        BY <3>1, <4>1, <4>3, RowFacts DEF Update, Prepared, Saving
      <4> QED BY <4>2, <4>3
    <3>2. ASSUME NEW q \in Request, NEW w \in Widget, Delete(q, w) PROVE Prepared(r)'
      BY <2>3, <3>2 DEF Delete, Answer, Prepared, Saving
    <3>3. ASSUME NEW q \in Request, UpsertLoad(q) PROVE Prepared(r)'
      BY <2>1, <2>3, <3>3 DEF UpsertLoad, Prepared, Saving
    <3>4. CASE pc'[r] = "done"
      BY <3>4 DEF Prepared, Saving
    <3> QED
      BY <2>3, <3>1, <3>2, <3>3, <3>4
      DEF Next, Create, UpsertCommit, DeleteCommit, Answer, vars, reqVars
  <2> QED BY <2>2, <2>3
<1>2. ASSUME NEW w \in Widget, w \notin used' PROVE rows'[w] = Gone /\ w \notin deleted'
  <2>1. w \notin used /\ rows[w] = Gone /\ w \notin deleted
    BY <1>2, UsedGrows, ByRequest
  <2>2. ASSUME NEW r \in Request, UpsertCommit(r) \/ DeleteCommit(r) PROVE target[r] # w
    BY <2>1, <2>2, ByRequest DEF UpsertCommit, DeleteCommit, Prepared
  <2>3. deleted' = deleted \/ \E r \in Request : DeleteCommit(r) /\ deleted' = deleted \cup {target[r]}
    BY DEF Next, Create, Update, Delete, UpsertLoad, UpsertCommit, DeleteCommit, vars, histVars
  <2>4. rows'[w] = rows[w]
    <3>1. ASSUME NEW r \in Request, NEW v \in Widget, NEW t, NEW b, Create(r, v, t, b)
          PROVE  rows'[w] = rows[w]
      BY <1>2, <3>1 DEF Create
    <3> QED
      BY <2>2, <3>1 DEF Next, Update, Delete, UpsertLoad, UpsertCommit, DeleteCommit, vars
  <2> QED BY <2>1, <2>2, <2>3, <2>4
<1>3. FreshIds' <=> /\ \A w \in Widget : w \notin used' => rows'[w] = Gone /\ w \notin deleted'
                    /\ \A r \in Request : Prepared(r)'
  BY DEF FreshIds, Prepared, Saving
<1> QED BY <1>1, <1>2, <1>3

LEMMA NextUncrossed == TypeOK /\ FreshIds /\ Uncrossed /\ [Next]_vars => Uncrossed'
<1> SUFFICES ASSUME TypeOK, FreshIds, Uncrossed, [Next]_vars, NEW q \in Request, Saving(q)'
             PROVE  UncrossedAt(q)'
  BY DEF Uncrossed, UncrossedAt, Saving
<1> USE DEF TypeOK
<1>0. UncrossedAt(q)
  BY ByRequest
\* The request stands still: only the row under it may change.
<1>1. CASE pc'[q] = pc[q]
  <2> DEFINE w == target[q]
  <2>1. UNCHANGED <<target[q], kept[q], loaded[q]>> /\ crossed[q] \subseteq crossed'[q]
    BY <1>1, OthersStay
  <2>2. Saving(q) /\ w \in Widget /\ w \in used
    BY <1>1, WantedIsRow, ByRequest DEF Saving, Prepared
  <2>3. CASE rows'[w] = rows[w]
    BY <1>0, <1>1, <2>1, <2>2, <2>3 DEF UncrossedAt, Saving
  <2>4. ASSUME NEW r \in Request, UpsertCommit(r), target[r] = w, Cross(r, w, "save"), rows'[w] # Gone
        PROVE  UncrossedAt(q)'
    <3>1. r # q
      BY <1>1, <2>4 DEF UpsertCommit, Answer
    <3>2. crossed'[q] = crossed[q] \cup Crossing(q, "save")
      BY <2>2, <2>4, <3>1 DEF Cross, UnderWay, Saving
    <3> QED BY <1>0, <1>1, <2>1, <2>2, <2>4, <3>2 DEF UncrossedAt, Saving, Crossing
  <2>5. ASSUME NEW r \in Request, DeleteCommit(r), target[r] = w, Cross(r, w, "delete"), rows'[w] = Gone
        PROVE  UncrossedAt(q)'
    <3>1. r # q
      BY <1>1, <2>5 DEF DeleteCommit, Answer
    <3>2. crossed'[q] = crossed[q] \cup {"delete"}
      BY <2>2, <2>5, <3>1 DEF Cross, UnderWay, Saving, Crossing
    <3> QED BY <1>0, <1>1, <2>1, <2>2, <2>5, <3>2 DEF UncrossedAt, Saving
  <2> QED BY <2>2, <2>3, <2>4, <2>5, RowsFrame
\* It has just found the widget ...
<1>2. ASSUME NEW r \in Request, NEW w \in Widget, NEW t, NEW b, Update(r, w, t, b), pc'[q] # pc[q]
      PROVE  UncrossedAt(q)'
  <2>1. q = r
    BY <1>2 DEF Update, Answer
  <2>2. rows[w] # Gone
    BY <1>2, <2>1 DEF Update, Answer, Saving
  <2> QED BY <1>2, <2>1, <2>2 DEF Update, UncrossedAt, Saving
\* ... or just loaded its row.
<1>3. ASSUME NEW r \in Request, UpsertLoad(r), pc'[q] # pc[q] PROVE UncrossedAt(q)'
  <2>1. q = r /\ pc[q] = "upsert"
    BY <1>3 DEF UpsertLoad
  <2>2. target[q] \in Widget
    BY <2>1, WantedIsRow DEF Saving
  <2> QED BY <1>0, <1>3, <2>1, <2>2 DEF UpsertLoad, Load, UncrossedAt, Saving, histVars
<1> QED
  BY <1>1, <1>2, <1>3
  DEF Next, Create, Delete, UpsertCommit, DeleteCommit, Answer, vars, reqVars, Saving

-----------------------------------------------------------------------------
(* The properties *)

LEMMA NextRowIsLastSave ==
  TypeOK /\ FreshIds /\ Uncrossed /\ RowIsLastSave /\ [Next]_vars => RowIsLastSave'
<1> SUFFICES ASSUME TypeOK, FreshIds, Uncrossed, RowIsLastSave, [Next]_vars, NEW w \in Widget
             PROVE  rows'[w] \in {Gone, lastSave'[w]} \/ w \in mixed'
  BY DEF RowIsLastSave
<1> USE DEF TypeOK
<1>1. ASSUME NEW r \in Request, NEW v \in Widget, NEW t, NEW b, Create(r, v, t, b)
      PROVE  rows'[w] \in {Gone, lastSave'[w]} \/ w \in mixed'
  BY <1>1 DEF Create, RowIsLastSave
<1>2. ASSUME NEW r \in Request, UpsertCommit(r)
      PROVE  rows'[w] \in {Gone, lastSave'[w]} \/ w \in mixed'
  <2>1. CASE target[r] = w /\ (loaded[r] = Gone <=> rows[w] = Gone)
    <3>1. rows'[w] = IF loaded[r] = Gone THEN Wanted(r) ELSE Flush(loaded[r], rows[w], Wanted(r))
      BY <1>2, <2>1 DEF UpsertCommit
    <3>2. lastSave'[w] = Wanted(r) /\ ("overwrite" \in crossed[r] => w \in mixed')
      BY <1>2, <2>1 DEF UpsertCommit
    <3>3. ASSUME loaded[r] # Gone, "overwrite" \notin crossed[r]
          PROVE  Flush(loaded[r], rows[w], Wanted(r)) = Wanted(r)
      <4>1. Wanted(r) \in Row /\ loaded[r] \in Row
        BY <1>2, <3>3, WantedIsRow DEF UpsertCommit, Saving
      <4>2. rows[w] = loaded[r]
        BY <1>2, <2>1, <3>3 DEF UpsertCommit, Uncrossed
      <4> QED BY <4>1, <4>2, FlushIsRow
    <3> QED BY <3>1, <3>2, <3>3
  <2>2. CASE ~(target[r] = w /\ (loaded[r] = Gone <=> rows[w] = Gone))
    BY <1>2, <2>2 DEF UpsertCommit, RowIsLastSave
  <2> QED BY <2>1, <2>2
<1>3. ASSUME NEW r \in Request, DeleteCommit(r)
      PROVE  rows'[w] \in {Gone, lastSave'[w]} \/ w \in mixed'
  BY <1>3 DEF DeleteCommit, RowIsLastSave
<1>4. CASE UNCHANGED <<rows, lastSave, mixed>>
  BY <1>4 DEF RowIsLastSave
<1> QED BY <1>1, <1>2, <1>3, <1>4 DEF Next, Update, Delete, UpsertLoad, vars, histVars

LEMMA NextStaysDeleted ==
  TypeOK /\ FreshIds /\ Uncrossed /\ StaysDeleted /\ [Next]_vars => StaysDeleted'
<1> SUFFICES ASSUME TypeOK, FreshIds, Uncrossed, StaysDeleted, [Next]_vars,
                    NEW w \in deleted', rows'[w] # Gone
             PROVE  w \in revived'
  BY DEF StaysDeleted
<1> USE DEF TypeOK
<1>1. ASSUME NEW r \in Request, NEW v \in Widget, NEW t, NEW b, Create(r, v, t, b)
      PROVE  w \in revived'
  BY <1>1 DEF Create, Fresh, StaysDeleted, FreshIds
<1>2. ASSUME NEW r \in Request, UpsertCommit(r) PROVE w \in revived'
  <2>1. deleted' = deleted /\ revived \subseteq revived'
    BY <1>2 DEF UpsertCommit
  <2>2. CASE rows[w] # Gone
    BY <2>1, <2>2 DEF StaysDeleted
  <2>3. CASE rows[w] = Gone
    <3>1. target[r] = w /\ loaded[r] = Gone
      BY <1>2, <2>1, <2>3 DEF UpsertCommit
    <3>2. "delete" \in crossed[r]
      BY <1>2, <3>1 DEF UpsertCommit, Uncrossed
    <3> QED BY <1>2, <2>3, <3>1, <3>2 DEF UpsertCommit
  <2> QED BY <2>2, <2>3
<1>3. ASSUME NEW r \in Request, DeleteCommit(r) PROVE w \in revived'
  <2>1. target[r] \in Widget
    BY <1>3, ByRequest DEF DeleteCommit, Prepared
  <2> QED BY <1>3, <2>1 DEF DeleteCommit, StaysDeleted
<1>4. CASE UNCHANGED <<rows, deleted, revived>>
  BY <1>4 DEF StaysDeleted
<1> QED BY <1>1, <1>2, <1>3, <1>4 DEF Next, Update, Delete, UpsertLoad, vars, histVars

LEMMA NextErrorsRaced ==
  TypeOK /\ FreshIds /\ Uncrossed /\ ErrorsRaced /\ [Next]_vars => ErrorsRaced'
<1> SUFFICES ASSUME TypeOK, FreshIds, Uncrossed, ErrorsRaced, [Next]_vars,
                    NEW q \in Request, answer'[q] = "error"
             PROVE  "delete" \in crossed'[q]
  BY DEF ErrorsRaced
<1> USE DEF TypeOK
<1>1. crossed[q] \subseteq crossed'[q]
  BY DEF Next, Create, Update, Delete, UpsertLoad, UpsertCommit, DeleteCommit, Cross, vars, histVars
<1>2. CASE answer[q] = "error"
  BY <1>1, <1>2 DEF ErrorsRaced
<1>3. ASSUME NEW r \in Request, UpsertCommit(r), answer[q] # "error" PROVE "delete" \in crossed[q]
  <2>1. q = r /\ ~(loaded[r] = Gone <=> rows[target[r]] = Gone)
    BY <1>3 DEF UpsertCommit, Answer
  <2> QED BY <1>3, <2>1 DEF UpsertCommit, Uncrossed
<1> QED
  BY <1>1, <1>2, <1>3
  DEF Next, Create, Update, Delete, UpsertLoad, DeleteCommit, Answer, vars, reqVars

LEMMA InitIInv == Init => IInv
<1> SUFFICES ASSUME Init PROVE IInv
  OBVIOUS
<1> USE DEF Init
<1>1. TypeOK
  BY DEF TypeOK, Place
<1>2. FreshIds /\ Uncrossed /\ RowIsLastSave /\ StaysDeleted /\ ErrorsRaced
  BY DEF FreshIds, Uncrossed, RowIsLastSave, StaysDeleted, ErrorsRaced
<1> QED BY <1>1, <1>2 DEF IInv

LEMMA NextIInv == IInv /\ [Next]_vars => IInv'
BY NextTypeOK, NextFreshIds, NextUncrossed, NextRowIsLastSave, NextStaysDeleted, NextErrorsRaced
DEF IInv

\* The inductive invariant of the widgets, for any number of requests.
THEOREM WidgetsInvariant == Spec => []IInv
<1> QED BY InitIInv, NextIInv, PTL DEF Spec

\* What a widget shows is the last save, or a named mixture (upsert_widget).
THEOREM LastSaveShows == Spec => []RowIsLastSave
<1>1. IInv => RowIsLastSave
  BY DEF IInv
<1> QED BY <1>1, WidgetsInvariant, PTL

\* Deleted widgets return only through overtaken saves (update_widget).
THEOREM DeletedStaysDeleted == Spec => []StaysDeleted
<1>1. IInv => StaysDeleted
  BY DEF IInv
<1> QED BY <1>1, WidgetsInvariant, PTL

\* A 500 means that the widget was deleted under the request (upsert_widget).
THEOREM ErrorsAreRaces == Spec => []ErrorsRaced
<1>1. IInv => ErrorsRaced
  BY DEF IInv
<1> QED BY <1>1, WidgetsInvariant, PTL

\* A save without a title leaves the title as it is (update_widget).
THEOREM TitlesKept == Spec => BlankKeepsTitle
<1> DEFINE Step == \A r \in Request :
                      pc[r] = "commit" /\ pc'[r] = "done" /\ answer'[r] = "ok"
                         /\ title[r] = Blank /\ crossed[r] = {}
                      => rows'[target[r]].title = rows[target[r]].title
<1>1. IInv /\ [Next]_vars => [Step]_vars
  <2> SUFFICES ASSUME IInv, [Next]_vars, NEW q \in Request, pc[q] = "commit", pc'[q] = "done",
                      answer'[q] = "ok", title[q] = Blank, crossed[q] = {}
               PROVE  rows'[target[q]].title = rows[target[q]].title
    OBVIOUS
  <2> USE DEF IInv, TypeOK
  <2>1. UpsertCommit(q)
    BY DEF Next, Create, Update, Delete, UpsertLoad, UpsertCommit, DeleteCommit, Answer, vars, reqVars
  <2>2. target[q] \in Widget
    BY WantedIsRow DEF Saving
  <2>3. loaded[q] # Gone /\ loaded[q] = rows[target[q]] /\ kept[q] = rows[target[q]].title
    BY DEF Uncrossed
  <2>4. rows'[target[q]] = Flush(rows[target[q]], rows[target[q]], Wanted(q))
    BY <2>1, <2>2, <2>3 DEF UpsertCommit
  <2> QED BY <2>3, <2>4 DEF Flush, Wanted
<1> QED BY <1>1, WidgetsInvariant, PTL DEF Spec, BlankKeepsTitle
=============================================================================
