------------------------------ MODULE SessionList ------------------------------
(***************************************************************************)
(* The Sessions tab (client/tui/sessions_screen.py) over the sessions a    *)
(* server lists (get_sessions of client/api.py): refreshes and "load more" *)
(* pages by worker threads, the filter, and what the detail screen does to *)
(* a session of the list (detail_screen.py).  Module Accounts says which   *)
(* client a thread asks and whether it is answered.                        *)
(***************************************************************************)
EXTENDS Accounts, FiniteSetsExt, SequencesExt

CONSTANTS
  AtFirst,   \* team -> its sessions at the start; sessions are numbered by age
  Mine,      \* the sessions that the filter keeps
  PageSize,
  MaxMade,   \* bound: the last session
  MaxGone,   \* bound: sessions deleted or moved
  MaxLists   \* bound: refreshes

ASSUME SessionListAssumption ==
  /\ MaxMade \in Nat /\ AtFirst \in [Teams -> SUBSET (1..MaxMade)]
  /\ PageSize \in Nat \ {0}

VARIABLES
  held,     \* team -> the sessions the server lists
  filter,   \* SessionsBody._filters: are they set?
  rows, hasMore, loadingMore,  \* SessionsBody
  page,     \* what each request asks for, and its answer
  moved,    \* does the detail screen know of a move it asked for?
  view,     \* the team and the filter the rows are of
  promise,  \* what that list held when it was last refreshed
  mixed,    \* has the list lost one of them or of the rows since, or got a page asked for before?
  made, gone, lists

screenVars == <<filter, rows, hasMore, loadingMore, moved, view, promise, mixed>>
listVars == <<held, screenVars, page, made, gone, lists>>

SessionListInit ==
  /\ AccountsInit
  /\ held = AtFirst /\ page = [j \in Jobs |-> NoOne]
  /\ filter = FALSE /\ rows = <<>> /\ hasMore = FALSE /\ loadingMore = FALSE /\ moved = FALSE
  /\ view = NoOne /\ promise = {} /\ mixed = FALSE
  /\ made = Cardinality(UNION {AtFirst[t] : t \in Teams}) /\ gone = 0 /\ lists = 0

\* The list is sorted by age, the newest first: how many stand before x, and the
\* sequence.
Before(x, S) == Cardinality({y \in S : y > x})
NewestFirst(S) == [i \in 1..Cardinality(S) |-> CHOOSE x \in S : Before(x, S) = i - 1]

Listed(v) == IF v.filter THEN held[v.team] \cap Mine ELSE held[v.team]
Page(all, offset) == {x \in all : Before(x, all) \in offset..(offset + PageSize - 1)}
Asked(offset) == [offset |-> offset, view |-> NoOne, answer |-> {}, all |-> {}, stale |-> FALSE]

-----------------------------------------------------------------------------
(* Requests. *)

\* A thread of its own; the one before is told to stop, and looks only before
\* it tries again.
Refresh(j) ==
  /\ call[j] = NoOne
  /\ lists < MaxLists /\ lists' = lists + 1
  /\ call' = [i \in Jobs |-> IF i = j THEN Start(j, "refresh")
                             ELSE IF Is(i, "refresh") THEN [call[i] EXCEPT !.cancelled = TRUE] ELSE call[i]]
  /\ page' = [page EXCEPT ![j] = Asked(0)]

\* ctrl+l, the tab, an upload that has ended, or the session moved away.
RefreshNow(j) ==
  /\ Refresh(j)
  /\ moved' = FALSE
  /\ UNCHANGED <<appVars, asker, fileVars, serverVars, boundVars>>
  /\ UNCHANGED <<held, filter, rows, hasMore, loadingMore, view, promise, mixed, made, gone>>

FilterChosen(j) ==
  /\ Refresh(j) /\ filter' = ~filter
  /\ UNCHANGED <<appVars, asker, fileVars, serverVars, boundVars>>
  /\ UNCHANGED <<held, rows, hasMore, loadingMore, moved, view, promise, mixed, made, gone>>

SwitchTeam(a, j) ==
  /\ Switched(a) /\ Refresh(j)
  /\ UNCHANGED <<held, screenVars, made, gone>>

LoadMore(j) ==
  /\ call[j] = NoOne /\ ~loadingMore /\ hasMore
  /\ loadingMore' = TRUE
  /\ call' = [call EXCEPT ![j] = Start(j, "more")]
  /\ page' = [page EXCEPT ![j] = Asked(Len(rows))]
  /\ UNCHANGED <<appVars, asker, fileVars, serverVars, boundVars>>
  /\ UNCHANGED <<held, filter, rows, hasMore, moved, view, promise, mixed, made, gone, lists>>

\* The thread reads the filters when it asks; the answer is a page of the list
\* as it is then.
Reach(j) ==
  /\ Ask(j) \/ Again(j)
  /\ LET c == clients[call'[j].client]
         v == IF At(j, "start") THEN [team |-> c.team, filter |-> filter] ELSE page[j].view
         ok == call'[j].step = "served" IN
     page' = IF call[j].kind = "teams" THEN page
             ELSE [page EXCEPT ![j].view = v,
                               ![j].answer = IF ok THEN Page(Listed(v), page[j].offset) ELSE {},
                               ![j].all = IF ok THEN Listed(v) ELSE {}]
  /\ UNCHANGED <<held, screenVars, made, gone, lists>>

-----------------------------------------------------------------------------
(* Messages. *)

MoreIfNew(answer, new) == Cardinality(new) = PageSize

\* A full page means that there may be more.
MoreAfter(answer, new) == Cardinality(answer) = PageSize

OnSessionsRefreshed(j) ==
  /\ At(j, "served") /\ call[j].kind \in {"refresh", "more"}
  /\ LET p == page[j]
         new == p.answer \ ToSet(rows) IN
     IF Is(j, "more")
     THEN /\ rows' = rows \o NewestFirst(new)
          /\ hasMore' = MoreAfter(p.answer, new)
          /\ mixed' = (mixed \/ p.stale \/ p.view # view)
          /\ page' = [page EXCEPT ![j] = NoOne]
          /\ UNCHANGED <<view, promise>>
     ELSE /\ rows' = NewestFirst(p.answer)
          /\ hasMore' = MoreAfter(p.answer, p.answer)
          /\ view' = p.view /\ promise' = p.all /\ mixed' = p.stale
          /\ page' = [i \in Jobs |-> IF i = j THEN NoOne
                                     ELSE IF Is(i, "more") THEN [page[i] EXCEPT !.stale = TRUE] ELSE page[i]]
  /\ loadingMore' = FALSE
  /\ call' = [call EXCEPT ![j] = NoOne]
  /\ UNCHANGED <<appVars, asker, fileVars, serverVars, boundVars>>
  /\ UNCHANGED <<held, filter, moved, made, gone, lists>>

OnRefreshFailed(j) ==
  /\ At(j, "failed") /\ call[j].kind \in {"refresh", "more"}
  /\ loadingMore' = FALSE
  /\ call' = [call EXCEPT ![j] = NoOne] /\ page' = [page EXCEPT ![j] = NoOne]
  /\ UNCHANGED <<appVars, asker, fileVars, serverVars, boundVars>>
  /\ UNCHANGED <<held, filter, rows, hasMore, moved, view, promise, mixed, made, gone, lists>>

-----------------------------------------------------------------------------
(* The server's list changes. *)

\* Somebody uploads a session to a team.
Made(t) ==
  /\ made < MaxMade /\ made' = made + 1
  /\ held' = [held EXCEPT ![t] = @ \cup {made'}]
  /\ UNCHANGED <<accountVars, screenVars, page, gone, lists>>

\* Answers of before the session went count it.
Gone(x) ==
  /\ gone < MaxGone /\ gone' = gone + 1
  /\ mixed' = (mixed \/ x \in promise \cup ToSet(rows))
  /\ page' = [j \in Jobs |-> IF (Is(j, "refresh") \/ Is(j, "more")) /\ x \in page[j].all
                             THEN [page[j] EXCEPT !.stale = TRUE] ELSE page[j]]
  /\ UNCHANGED <<accountVars, filter, rows, hasMore, loadingMore, view, promise, made, lists>>

\* The detail screen's delete, or anybody's: it leaves the list as it is.
DeleteSession(x) ==
  /\ Gone(x)
  /\ \E t \in Teams : x \in held[t] /\ held' = [held EXCEPT ![t] = @ \ {x}]
  /\ UNCHANGED moved

\* The detail screen's move: when it hears that it worked, it refreshes the list.
MoveSession(x) ==
  /\ ~moved /\ moved' = TRUE
  /\ Gone(x)
  /\ \E t, u \in Teams :
       /\ x \in held[t] /\ u # t /\ Home[u] = Home[t]
       /\ held' = [held EXCEPT ![t] = @ \ {x}, ![u] = @ \cup {x}]

SessionsNext ==
  \/ \E j \in Jobs : LoadMore(j) \/ FilterChosen(j) \/ Reach(j)
  \/ \E j \in Jobs : RefreshNow(j) \/ OnSessionsRefreshed(j) \/ OnRefreshFailed(j)
  \/ \E a \in Askers : SwitchTo(a) /\ UNCHANGED listVars
  \/ \E a \in Askers, j \in Jobs : SwitchTeam(a, j)
  \/ \E t \in Teams : Made(t)
  \/ \E x \in 1..MaxMade : DeleteSession(x) \/ MoveSession(x)

-----------------------------------------------------------------------------
\* Paging by a number of rows reaches every session although uploads shift the
\* pages meanwhile: once "load more" is no longer offered, the list has all that
\* it had when it was refreshed.  Except when one of these, or of the rows, left
\* the list, or when a page was appended that was asked for before the refresh, of
\* another team or with another filter: then one may be skipped (see the README).
\* Shown twice is none, ever (sessions_screen.py: "De-dupe defensively").
NothingIsSkipped ==
  /\ ~hasMore /\ ~mixed => promise \subseteq ToSet(rows)
  /\ Cardinality(ToSet(rows)) = Len(rows)

\* on_sessions_refreshed: when nothing is under way, the rows are those of the
\* team and the filter chosen last, if they ever came.
Quiet == \A j \in Jobs : ~Is(j, "refresh") /\ ~Is(j, "more")
ShowsTheChoice ==
  Quiet /\ view # NoOne => view = [team |-> clients[api].team, filter |-> filter]

-----------------------------------------------------------------------------
(* Why nothing is skipped.                                                 *)

Numbers == 1..MaxMade
Views == [team: Teams, filter: BOOLEAN]
Pages == [offset: Nat, view: Views \cup {NoOne}, answer: SUBSET Numbers, all: SUBSET Numbers,
          stale: BOOLEAN]
Asks(j) == Is(j, "refresh") \/ Is(j, "more")

ListTypeOK ==
  /\ held \in [Teams -> SUBSET Numbers] /\ made \in Nat
  /\ filter \in BOOLEAN /\ rows \in Seq(Numbers) /\ promise \in SUBSET Numbers
  /\ hasMore \in BOOLEAN /\ mixed \in BOOLEAN
  /\ view \in Views \cup {NoOne}
  /\ DOMAIN page = Jobs /\ \A j \in Jobs : Asks(j) => page[j] \in Pages

\* An answer is a page of the list as it was then; the list still has all of
\* that, or the page is marked.
PagesAreSound ==
  \A j \in Jobs : Asks(j) =>
    /\ Is(j, "refresh") => page[j].offset = 0
    /\ call[j].step \in Asking \cup {"served"} => page[j].view \in Views
    /\ call[j].step = "served" =>
         /\ page[j].answer = Page(page[j].all, page[j].offset)
         /\ ~page[j].stale => page[j].all \subseteq Listed(page[j].view)

\* A page of older sessions begins above all that is still missing.
MoreIsSound ==
  \A j \in Jobs : Is(j, "more") /\ ~page[j].stale =>
    /\ page[j].offset <= Len(rows)
    /\ call[j].step = "served" /\ page[j].view = view /\ ~mixed =>
         /\ promise \subseteq page[j].all
         /\ \A x \in promise \ ToSet(rows) : Before(x, page[j].all) >= page[j].offset

\* What is missing of the promise is older than every row.
RowsAreSound ==
  /\ Cardinality(ToSet(rows)) = Len(rows)
  /\ ~mixed =>
       /\ view \in Views => promise \cup ToSet(rows) \subseteq Listed(view)
       /\ view \notin Views => promise = {} /\ rows = <<>>
       /\ \A x \in promise \ ToSet(rows), r \in ToSet(rows) : r > x
       /\ ~hasMore => promise \subseteq ToSet(rows)

ListInvariant == ListTypeOK /\ PagesAreSound /\ MoreIsSound /\ RowsAreSound
=============================================================================
