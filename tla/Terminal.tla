------------------------------ MODULE Terminal ------------------------------
(***************************************************************************)
(* The terminal view: tui/tui.go (Model, Run) and cli/tui.go (runTerminal).*)
(* The collection sends windows of retained events over a channel of one   *)
(* that keeps the newest; the interface loop takes one message, renders    *)
(* and handles keys; searches run in goroutines of their own over a window *)
(* frozen at their start, and a new one supersedes the old.                *)
(*                                                                         *)
(* Left out: the text of lines and messages, the width of characters, the  *)
(* scroll positions (a click selects any row), the mode and the editing of *)
(* a query, the completion message, which changes the status line only,    *)
(* and what a search decides (SearchRun, which has none of the names used  *)
(* here, so that one module can prove about both).                         *)
(***************************************************************************)
EXTENDS Integers, Sequences, FiniteSetsExt

CONSTANTS
  Windows,      \* what the collection sends, in order: sequences of events
  Page,         \* rows a page key moves by (10)
  MaxRow,       \* the last row of the screen
  MaxSearches, MaxKeys  \* bounds on searches, and on keys between two frames

ASSUME TerminalAssumption ==
  /\ {Page, MaxRow, MaxSearches} \subseteq Nat /\ MaxKeys \in Nat \ {0}
  /\ Windows \in Seq(Seq([id : Nat \ {0}, text : STRING, importance : STRING]))

VARIABLES
  sent,        \* windows sent
  updates,     \* the channel of windows, of capacity one
  collection,  \* "running" or "over"
  loop,        \* the interface: "select", "input", "closing" or "exited"
  keys,        \* keys handled since the last frame
  m,           \* the Model
  searches,    \* the searches started
  finished     \* searchDone, of capacity one

terminalVars == <<sent, updates, collection, loop, keys, m, searches, finished>>

None == [event |-> [id |-> 0, text |-> "none", importance |-> "none"], ids |-> {}]
SearchTab == 4

-----------------------------------------------------------------------------
(* Model.                                                                  *)

New ==
  [events |-> <<>>, results |-> <<>>, tab |-> 0, selected |-> 0, grouped |-> TRUE,
   detail |-> FALSE, frozen |-> None, evidence |-> <<>>, search |-> 0,
   editing |-> FALSE]

InTab(tab, e) ==
  \/ tab >= 3
  \/ tab = 0 /\ e.importance = "important"
  \/ tab = 1 /\ e.importance = "routine"
  \/ tab = 2 /\ e.importance \in {"unknown", "uncertain", "pending"}

Shown(x) == IF x.tab = SearchTab THEN x.results ELSE x.events

\* The nth of a set of indices.
Nth(indices, n) ==
  CHOOSE i \in indices : Cardinality({j \in indices : j <= i}) = n

\* The rows of a list: the events of the tab, equal ones in the row of the first
\* of them when grouped.
RowsOf(list, tab, grouped) ==
  LET listed == {i \in DOMAIN list : InTab(tab, list[i])}
      same(i, j) == /\ list[i].text = list[j].text
                    /\ list[i].importance = list[j].importance
      firsts == {i \in listed : grouped => \A j \in listed : j < i => ~same(i, j)}
      row(i) == {j \in listed : IF grouped THEN same(i, j) ELSE j = i}
  IN  [n \in 1..Cardinality(firsts) |->
         [event |-> list[Nth(firsts, n)],
          ids |-> {list[j].id : j \in row(Nth(firsts, n))}]]

Rows(x) == RowsOf(Shown(x), x.tab, x.grouped)

\* The event under the selection; 0 when there is none.
SelectedID(x) ==
  IF x.selected < Len(Rows(x)) THEN Rows(x)[x.selected + 1].event.id ELSE 0

RowsWith(x, id) == {i \in DOMAIN Rows(x) : id \in Rows(x)[i].ids}

UpdateInPlace(x, window) == [x EXCEPT !.events = window]

\* Update: a new window; the selection follows its event.
Update(x, window) ==
  LET y == [x EXCEPT !.events = window]
      found == RowsWith(y, SelectedID(x))
  IN  IF found = {} THEN y ELSE [y EXCEPT !.selected = Min(found) - 1]

\* What a search over frozen evidence leaves listed: every occurrence of what
\* it found.
Results(run) ==
  LET hits == {i \in DOMAIN run.window : run.window[i].text \in run.found}
  IN  [n \in 1..Cardinality(hits) |-> run.window[Nth(hits, n)]]

\* refreshSearch
Refresh(x) ==
  IF x.search = 0 THEN x ELSE [x EXCEPT !.results = Results(searches[x.search])]

\* Render puts the selection within bounds.
Render(x) == [x EXCEPT !.selected = Max({0, Min({@, Len(Rows(x)) - 1})})]

FreezeRetained(x) ==
  IF x.selected >= Len(Rows(x)) THEN x
  ELSE [x EXCEPT !.frozen = Rows(x)[x.selected + 1], !.evidence = x.events]

\* freezeDetail: what the detail shows from now on.
FreezeDetail(x) ==
  IF x.selected >= Len(Rows(x)) THEN x
  ELSE [x EXCEPT !.frozen = Rows(x)[x.selected + 1], !.evidence = Shown(x)]

ToTab(x, tab) == [x EXCEPT !.tab = tab, !.selected = 0, !.detail = FALSE]

Move(x, by) ==
  IF x.detail THEN x ELSE [x EXCEPT !.selected = Max({0, @ + by})]

Enter(x) ==
  IF x.detail THEN [x EXCEPT !.detail = FALSE]
  ELSE FreezeDetail([x EXCEPT !.detail = TRUE])

\* The i key shows the occurrences, in the detail it opens if need be.
Instances(x) == IF x.detail THEN x ELSE [FreezeDetail(x) EXCEPT !.detail = TRUE]

\* A click on a row, of the list or not, whatever else is going on.
Clicked(x) ==
  {[x EXCEPT !.selected = row] : row \in 0..Max({MaxRow, Len(Rows(x)) - 1})}

\* Key outside of editing, and the mouse: its wheel and its tabs are keys too.
Keyed(x) ==
  {ToTab(x, t) : t \in 0..4} \cup {Move(x, by) : by \in {-Page, -1, 1, Page}}
  \cup {Enter(x), Instances(x), [x EXCEPT !.detail = FALSE]}
  \cup Clicked(x)
  \cup {[x EXCEPT !.grouped = ~@, !.selected = 0]}
  \cup {[x EXCEPT !.editing = TRUE]}

\* Key while a query is edited, and the mouse: the wheel and the tabs type into the
\* query, a click on a row selects it.
Edited(x) == {x, [x EXCEPT !.editing = FALSE]} \cup Clicked(x)

-----------------------------------------------------------------------------
TerminalInit ==
  /\ sent = 0 /\ updates = <<>> /\ collection = "running"
  /\ loop = "select" /\ keys = 0 /\ searches = <<>> /\ finished = <<>>
  /\ m = New

ui == <<loop, keys, m>>

SentIfRoom(window) == IF updates = <<>> THEN <<window>> ELSE updates

\* send: a window that was not taken is replaced by the newer one.
Sent(window) == <<window>>

\* The collection sends a window (update, at last finished).
Send ==
  /\ collection = "running" /\ sent < Len(Windows)
  /\ sent' = sent + 1 /\ updates' = Sent(Windows[sent'])
  /\ UNCHANGED <<collection, ui, searches, finished>>

\* runWith returns; it does when ctx is cancelled.
CollectionEnds ==
  /\ collection = "running" /\ collection' = "over"
  /\ UNCHANGED <<sent, updates, ui, searches, finished>>

\* One turn of the loop up to the frame: a message, if there is one.
Framed(x) ==
  /\ loop' = "input" /\ UNCHANGED keys /\ m' = Render(Refresh(x))

Frame ==
  /\ loop = "select"
  /\ \/ /\ updates # <<>> /\ updates' = <<>> /\ Framed(Update(m, Head(updates)))
        /\ UNCHANGED finished
     \/ /\ finished # <<>> /\ finished' = <<>>
        /\ IF m.search = Head(finished) THEN Framed(m) ELSE UNCHANGED ui
        /\ UNCHANGED updates
     \/ /\ updates = <<>> /\ finished = <<>> /\ Framed(m)
        /\ UNCHANGED <<updates, finished>>
  /\ UNCHANGED <<sent, collection, searches>>

\* A key of the input that was read; after it there may be another.
Pressed ==
  /\ loop = "input" /\ keys' = (keys + 1) % MaxKeys
  /\ loop' = IF keys' = 0 THEN "select" ELSE "input"

KeyPressed ==
  /\ Pressed
  /\ m' \in IF ~m.editing THEN Keyed(m) ELSE Edited(m)
  /\ UNCHANGED <<sent, updates, collection, searches, finished>>

StoppedNone == searches

\* stopSearch: the newest search is cancelled, running or not.
Stopped ==
  [i \in DOMAIN searches |->
     [searches[i] EXCEPT !.cancelled = @ \/ i = Len(searches)]]

\* x in the search tab.
StopSearch ==
  /\ Pressed /\ ~m.editing /\ m.tab = SearchTab /\ searches # <<>>
  /\ searches' = Stopped
  /\ UNCHANGED <<sent, updates, collection, m, finished>>

\* A submitted query stops the search before it; then it may turn out to be
\* empty, or offline or without credentials, and nothing is started.  Nobody
\* reads what a superseded search was about any more.
Submit ==
  /\ Pressed /\ m.editing
  /\ \/ /\ m' = [m EXCEPT !.editing = FALSE] /\ searches' = Stopped
     \/ /\ Len(searches) < MaxSearches
        /\ searches' = Append([i \in DOMAIN searches |->
                              [Stopped[i] EXCEPT !.window = <<>>, !.found = {}]],
                            [window |-> m.events, found |-> {},
                             cancelled |-> FALSE, at |-> "running"])
        /\ m' = [m EXCEPT !.editing = FALSE, !.search = Len(searches'), !.detail = FALSE,
                          !.tab = SearchTab, !.results = <<>>]
  /\ UNCHANGED <<sent, updates, collection, finished>>

InputEnds ==
  /\ loop = "input" /\ loop' = "select" /\ keys' = 0
  /\ UNCHANGED <<sent, updates, collection, m, searches, finished>>

\* q, ctrl-C, a failing terminal or the end of ctx: the Model is gone, and the
\* deferred functions cancel what the loop started.
Quit ==
  /\ loop \in {"select", "input"} /\ loop' = "closing"
  /\ keys' = 0 /\ m' = New
  /\ searches' = [i \in DOMAIN searches |-> [searches[i] EXCEPT !.cancelled = TRUE]]
  /\ UNCHANGED <<sent, updates, collection, finished>>

\* A search finds the occurrences of one text, and ends.
SearchFinds(i) ==
  /\ searches[i].at = "running" /\ i = m.search
  /\ \E k \in DOMAIN searches[i].window : searches[i].window[k].text \notin searches[i].found /\
       searches' = [searches EXCEPT ![i].found = @ \cup {searches[i].window[k].text}]
  /\ UNCHANGED <<sent, updates, collection, ui, finished>>

ReleasedNever(i) == FALSE

\* The end of ctx releases a search that nobody takes the result of.
Released(i) == searches[i].at = "sending" /\ loop = "closing"

SearchReturns(i) ==
  /\ \/ /\ searches[i].at = "running"
        /\ searches' = [searches EXCEPT ![i].at = "sending"]
        /\ UNCHANGED finished
     \/ /\ searches[i].at = "sending" /\ finished = <<>>
        /\ finished' = <<i>> /\ searches' = [searches EXCEPT ![i].at = "done"]
     \/ /\ Released(i)
        /\ searches' = [searches EXCEPT ![i].at = "done"] /\ UNCHANGED finished
  /\ UNCHANGED <<sent, updates, collection, ui>>

\* The workers are joined, the terminal is restored, and runTerminal waits
\* for the collection it cancelled.
Exit ==
  /\ loop = "closing" /\ collection = "over"
  /\ \A i \in DOMAIN searches : searches[i].at = "done"
  /\ loop' = "exited"
  /\ UNCHANGED <<sent, updates, collection, keys, m, searches, finished>>

Loop == Frame \/ KeyPressed \/ StopSearch \/ Submit \/ InputEnds \/ Quit \/ Exit
TerminalNext ==
  \/ Send \/ CollectionEnds \/ Loop
  \/ \E i \in DOMAIN searches : SearchFinds(i) \/ SearchReturns(i)

TerminalSpec == TerminalInit /\ [][TerminalNext]_terminalVars

\* A search comes to its end and a cancelled collection returns; nothing is
\* asked of the loop, which may stay where it is.
TerminalFairSpec ==
  /\ TerminalSpec /\ WF_terminalVars(Exit)
  /\ WF_terminalVars(loop = "closing" /\ CollectionEnds)
  /\ \A i \in 1..MaxSearches : WF_terminalVars(i \in DOMAIN searches /\ SearchReturns(i))

-----------------------------------------------------------------------------
IDs(events) == {events[i].id : i \in DOMAIN events}

\* Whatever is in the channel is the newest window, and with nothing in it the
\* newest window is on the screen: none is lost by a slow terminal (cli/tui.go).
NewestShown ==
  sent > 0 /\ loop \in {"select", "input"} =>
    Windows[sent] = IF updates = <<>> THEN m.events ELSE Head(updates)

\* An open detail has the evidence of each occurrence it counts, also those that
\* were evicted since (docs/usage.md:29: "Open details and search results retain
\* their original evidence when live events are evicted").
DetailComplete ==
  m.detail /\ m.frozen # None => m.frozen.ids \subseteq IDs(m.evidence)

\* What is on the screen is the newest window and its whole evidence.
ViewComplete == NewestShown /\ DetailComplete

\* A superseded search was cancelled: at most the newest is going on and not
\* stopped, it is the one whose results are shown, and none outlives the view.
OneActiveSearch ==
  /\ \A i \in DOMAIN searches :
       searches[i].at = "running" /\ ~searches[i].cancelled => i = m.search
  /\ loop = "exited" => \A i \in DOMAIN searches : searches[i].at = "done"

\* A new window leaves the selection on its event while that event is listed, and
\* never changes an open detail.  (In the search tab new results shift the rows.)
SelectionKept ==
  [][loop = "select" /\ loop' # "closing" =>
       /\ SelectedID(m) # 0 /\ m.tab # SearchTab /\ RowsWith(m', SelectedID(m)) # {}
            => SelectedID(m) \in Rows(m')[m'.selected + 1].ids
       /\ m.detail => <<m'.detail, m'.frozen, m'.evidence>>
                        = <<m.detail, m.frozen, m.evidence>>]_terminalVars

\* A terminal that is left ends: searches and collection are joined
\* (docs/usage.md:29, "Quit and signals join collection/search workers").
QuitEnds == loop = "closing" ~> loop = "exited"
=============================================================================
