----------------------------- MODULE TaskPages -----------------------------
(***************************************************************************)
(* Listing tasks page by page (TaskStore.List, a2aserver/taskstore.go)     *)
(* while they are created and updated.                                     *)
(*                                                                         *)
(* A page is a count and a query under one write lock; between two pages   *)
(* anything may happen. The page token is the (last_updated, id) of the    *)
(* last row shown. Rows are stamped with the wall clock, which may be set  *)
(* back. Each Create and Update is one step here: TaskStore shows that     *)
(* their transactions do not overlap.                                      *)
(*                                                                         *)
(* A definition Name_Fault is Name as a plausible slip would have left it;  *)
(* nothing uses it but a check that some property notices the slip.        *)
(***************************************************************************)
EXTENDS Integers, FiniteSets

CONSTANTS
  TaskIds,       \* task ids, ordered as SQLite orders them
  Callers, Nobody,
  CreatorOf,     \* id -> the caller that would create it
  Kinds,         \* what the filters tell apart: tenant, context, state, status time
  Filters,       \* each the kinds one request accepts
  Walkers,       \* clients that list tasks page by page
  CallerOf,      \* walker -> its caller, or Nobody
  RequestSizes, DefaultPageSize, MaxPageSize,
  NoRow,
  MaxTime        \* bound: of the clock

\* How the constants fit together.
PagesAssumption ==
  /\ TaskIds \subseteq Nat /\ IsFiniteSet(TaskIds)
  /\ CreatorOf \in [TaskIds -> Callers]
  /\ Filters \subseteq SUBSET Kinds
  /\ CallerOf \in [Walkers -> Callers \cup {Nobody}]
  /\ RequestSizes \subseteq Int
  /\ MaxPageSize \in Nat /\ DefaultPageSize \in 1..MaxPageSize
  /\ MaxTime \in Nat
  \* NoRow is neither a walker, nor a row, nor a place in a list.
  /\ NoRow \notin Walkers
  /\ NoRow \notin [kind: Kinds, updated: 0..MaxTime]
  /\ NoRow \notin [updated: 0..MaxTime, id: TaskIds]

VARIABLES
  rows,     \* id -> its row, or NoRow
  clock,    \* time.Now
  stepped,  \* history: the clock has been set back
  reader,   \* the walker holding SQLite's write lock, or NoRow
  walk      \* walker -> the listing it makes

pagesVars == <<rows, clock, stepped, reader, walk>>

Row == [kind: Kinds, updated: 0..MaxTime]

Walk == [pc: {"idle", "begin", "count", "page", "token", "done"},
         filter: Filters \cup {{}},
         size: Int,
         cursor: [updated: 0..MaxTime, id: TaskIds] \cup {NoRow},
         total: Nat,             \* TotalSize of the page being made, then of the last one
         page: SUBSET TaskIds,   \* the tasks of the last page
         seen: SUBSET TaskIds,   \* history: the tasks of all its pages
         again: SUBSET TaskIds,  \* history: those on two of them
         still: SUBSET TaskIds]  \* history: matched at the start, not updated since

PagesTypeOK ==
  /\ rows \in [TaskIds -> Row \cup {NoRow}]
  /\ clock \in 0..MaxTime
  /\ stepped \in BOOLEAN
  /\ reader \in Walkers \cup {NoRow}
  /\ walk \in [Walkers -> Walk]
  /\ \A w \in Walkers : Cardinality(walk[w].page) <= MaxPageSize

NewWalk(pc) == [pc |-> pc, filter |-> {}, size |-> 0, cursor |-> NoRow, total |-> 0,
              page |-> {}, seen |-> {}, again |-> {}, still |-> {}]

PagesInit ==
  /\ rows = [i \in TaskIds |-> NoRow]
  /\ clock = 0
  /\ stepped = FALSE
  /\ reader = NoRow
  /\ walk = [w \in Walkers |-> NewWalk("idle")]

-----------------------------------------------------------------------------
(* The writers and the clock *)

Stamp(i, kind) ==
  /\ rows' = [rows EXCEPT ![i] = [kind |-> kind, updated |-> clock]]
  /\ walk' = [w \in Walkers |-> [walk[w] EXCEPT !.still = @ \ {i}]]
  /\ UNCHANGED <<clock, stepped, reader>>

Create(i, kind) == reader = NoRow /\ rows[i] = NoRow /\ Stamp(i, kind)

Update(i, kind) == reader = NoRow /\ rows[i] # NoRow /\ Stamp(i, kind)

Tick ==
  /\ clock < MaxTime
  /\ clock' = clock + 1
  /\ UNCHANGED <<rows, stepped, reader, walk>>

StepBack ==
  /\ clock > 0
  /\ clock' = clock - 1
  /\ stepped' = TRUE
  /\ UNCHANGED <<rows, reader, walk>>

-----------------------------------------------------------------------------
(* The queries *)

Mine(w, i) == rows[i] # NoRow /\ CreatorOf[i] = CallerOf[w]

\* taskFilterClause
Matching(w) == {i \in TaskIds : Mine(w, i) /\ rows[i].kind \in walk[w].filter}

Key(i) == [updated |-> rows[i].updated, id |-> i]

\* The listing order is last_updated, then id, both descending.
Below(a, b) == a.updated < b.updated \/ (a.updated = b.updated /\ a.id < b.id)

PastCursor_TimeOnly(i, cursor) == cursor = NoRow \/ rows[i].updated < cursor.updated

PastCursor(i, cursor) == cursor = NoRow \/ Below(Key(i), cursor)

\* ORDER BY ... LIMIT n of the matching rows past the cursor
PageOf(w, n) ==
  LET past == {i \in Matching(w) : PastCursor(i, walk[w].cursor)}
  IN {i \in past : Cardinality({j \in past : Below(Key(i), Key(j))}) < n}

\* The size of the page a request asks for; 0 is refused.
PageSize(size) ==
  IF size = 0 THEN DefaultPageSize
  ELSE IF size \in 1..MaxPageSize THEN size ELSE 0

-----------------------------------------------------------------------------
(* List *)

\* A request for the first page; the caller must be named and the size in range.
List(w, filter, size) ==
  /\ walk[w].pc \in {"idle", "done"}
  /\ walk' = [walk EXCEPT ![w] =
       IF CallerOf[w] = Nobody \/ PageSize(size) < 1 THEN NewWalk("idle")
       ELSE [NewWalk("begin") EXCEPT !.filter = filter, !.size = PageSize(size),
               !.still = {i \in TaskIds : Mine(w, i) /\ rows[i].kind \in filter}]]
  /\ UNCHANGED <<rows, clock, stepped, reader>>

\* A request for the page after the token, of any size.
ListOn(w, size) ==
  /\ walk[w].pc = "token"
  /\ PageSize(size) >= 1
  /\ walk' = [walk EXCEPT ![w].pc = "begin", ![w].size = PageSize(size)]
  /\ UNCHANGED <<rows, clock, stepped, reader>>

BeginList(w) ==
  /\ walk[w].pc = "begin"
  /\ reader = NoRow
  /\ reader' = w
  /\ walk' = [walk EXCEPT ![w].pc = "count"]
  /\ UNCHANGED <<rows, clock, stepped>>

CountTasks(w) ==
  /\ walk[w].pc = "count"
  /\ walk' = [walk EXCEPT ![w].pc = "page", ![w].total = Cardinality(Matching(w))]
  /\ UNCHANGED <<rows, clock, stepped, reader>>

\* One row beyond the page says whether there is another; the token names the
\* last row of this one.
ListTasks(w) ==
  LET page == PageOf(w, walk[w].size)
      more == PageOf(w, walk[w].size + 1) # page
      last == CHOOSE i \in page : \A j \in page \ {i} : Below(Key(i), Key(j))
  IN
  /\ walk[w].pc = "page"
  /\ walk' = [walk EXCEPT ![w] =
       [walk[w] EXCEPT !.pc = IF more THEN "token" ELSE "done",
                       !.cursor = IF more THEN Key(last) ELSE @,
                       !.page = page,
                       !.seen = @ \cup page,
                       !.again = @ \cup (walk[w].seen \cap page)]]
  /\ reader' = NoRow
  /\ UNCHANGED <<rows, clock, stepped>>

\* A statement fails or the lock stays busy: the transaction is rolled back and
\* the client is told.
FailList(w) ==
  /\ walk[w].pc \in {"begin", "count", "page"}
  /\ walk' = [walk EXCEPT ![w] = NewWalk("idle")]
  /\ reader' = IF reader = w THEN NoRow ELSE reader
  /\ UNCHANGED <<rows, clock, stepped>>

ProceedList(w) ==
  \/ \E size \in RequestSizes : ListOn(w, size)
  \/ BeginList(w) \/ CountTasks(w) \/ ListTasks(w)

PagesNext ==
  \/ \E i \in TaskIds, kind \in Kinds : Create(i, kind) \/ Update(i, kind)
  \/ Tick \/ StepBack
  \/ \E w \in Walkers :
       \/ \E filter \in Filters, size \in RequestSizes : List(w, filter, size)
       \/ ProceedList(w) \/ FailList(w)

PagesSpec == PagesInit /\ [][PagesNext]_pagesVars

-----------------------------------------------------------------------------
(* Properties *)

\* A client that walks the pages to the end has been shown every task that
\* matched when it began and was not updated meanwhile, however many tasks share
\* a timestamp and whatever the clock does.
NothingMissed ==
  /\ PagesTypeOK
  /\ \A w \in Walkers : walk[w].pc = "done" => walk[w].still \subseteq walk[w].seen

\* No task is shown twice: none that was left alone, and none at all, an update
\* being newer than every token, unless the clock was set back.
NoneTwice == \A w \in Walkers :
  /\ walk[w].again \cap walk[w].still = {}
  /\ ~stepped => walk[w].again = {}

\* "A caller can tell 'one page of many' from 'one page in total'" (List): a
\* walk of one page has shown all of TotalSize, and a page with a token never
\* has.
TotalDescribesPage == \A w \in Walkers :
  LET shown == Cardinality(walk[w].page) IN
  /\ walk[w].pc = "done" /\ walk[w].cursor = NoRow => walk[w].total = shown
  /\ walk[w].pc = "token" => walk[w].total > shown

\* A walk is complete, shows nothing twice and tells how much there was.
WalksAreExact == NothingMissed /\ NoneTwice /\ TotalDescribesPage
=============================================================================
