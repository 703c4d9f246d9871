------------------------------- MODULE Search --------------------------------
(***************************************************************************)
(* Searching: the search box of the Angular library (SearchComponent) and  *)
(* what the search service keeps of it, the recent searches of its user    *)
(* (RecentSearchRepository).  The box sends searches and asks for the      *)
(* recent ones; nothing cancels a request that has been overtaken.  The    *)
(* service handles a request one awaited statement at a time.              *)
(*                                                                         *)
(* There is one user, whose requests are numbered in the order they are    *)
(* sent; a row is named after the request that inserts it.  A suggestion   *)
(* stands for the text and category it answers.  Texts are trimmed, and    *)
(* two that differ in case only are one.  What is folded out or disabled   *)
(* on the page is left out.                                                *)
(***************************************************************************)
EXTENDS Naturals, FiniteSetsExt

CONSTANTS
  Text,
  NoText,          \* the empty box
  Category,        \* the label All and the names of the models
  All,             \* ALL_LABEL
  RecentCount,     \* config.controller.recentCount
  MaxLookups,      \* bound: how many requests the box sends in all
  MaxRash,         \* bound: the same, where the user does not wait
  MaxLookupsAtOnce \* bound: how many of them are under way at the same time

Lookups == 1 .. MaxLookups

ASSUME SearchAssumption ==
  /\ NoText \notin Text /\ All \in Category
  /\ RecentCount \in Nat \ {0} /\ MaxLookups \in Nat /\ MaxRash \in 0 .. MaxLookups
  /\ MaxLookupsAtOnce \in Nat

VARIABLES
  patient,      \* whether the user waits until nothing is under way, and then
                \* only the search itself fails, if anything does
  onlyOnEnter,  \* config: searchOnlyOnEnter
  saveOnEnter,  \* config: saveInRecents and saveInRecentsOnlyOnEnter are set
  box,          \* searchBoxInput
  category,
  typed,        \* what the debounce of searchRequest$ holds back
  suggestions,
  searching,
  recents,      \* recentSearches
  lookup,       \* what each request asks for
  lane,         \* the awaited statement each request is at
  owners,       \* table recent_search
  queries,      \* table search_query
  mine,         \* the row of recent_search each request has found or inserted
  previous      \* the rows of search_query it has found

settings == <<patient, onlyOnEnter, saveOnEnter>>
screen == <<box, category, typed, suggestions, searching, recents>>
tables == <<owners, queries>>
searchVars ==
  <<settings, screen, tables, lookup, lane, mine, previous>>

NoTyping == [text |-> NoText, key |-> "none"]
NoSuggestions == [text |-> NoText, category |-> "none"]
NoLookup == [op |-> "none", text |-> NoText, category |-> "none", save |-> FALSE]

UnderWay == {r \in Lookups : lane[r] \notin {"idle", "done", "failed"}}
Quiet == typed = NoTyping /\ UnderWay = {}
Free == patient => Quiet
QueriesOf(o) == {q \in queries : q.owner = o}

\* ORDER BY created_on DESC LIMIT recentCount
Newest(rows) == {q \in rows : Cardinality({p \in rows : p.on > q.on}) < RecentCount}

-----------------------------------------------------------------------------
(* The box. *)

\* getSuggestions and getRecentSearches: searchApiRequest, which is saved
\* among the recent ones or not, and recentSearchApiRequest.
SearchFor(t, c, key) ==
  [op |-> "search", text |-> t, category |-> c,
   save |-> saveOnEnter => key \in {"enter", "category"}]
ListRecents == [op |-> "list", text |-> NoText, category |-> "none", save |-> FALSE]

Send(calls) ==
  LET sent == {r \in Lookups : lane[r] # "idle"}
      fresh == {Cardinality(sent) + i : i \in DOMAIN calls}
      call(r) == calls[r - Cardinality(sent)] IN
    /\ fresh \subseteq 1 .. (IF patient THEN MaxLookups ELSE MaxRash)
    /\ Cardinality(UnderWay) + Cardinality(fresh) <= MaxLookupsAtOnce
    /\ lookup' = [r \in Lookups |-> IF r \in fresh THEN call(r) ELSE lookup[r]]
    /\ lane' = [r \in Lookups |-> IF r \notin fresh THEN lane[r]
                                  ELSE IF call(r).op = "list" THEN "listOwner"
                                  ELSE IF call(r).save THEN "owner" ELSE "query"]
    /\ searching' = (searching \/ \E r \in fresh : call(r).op = "search")
    /\ UNCHANGED <<settings, tables, mine, previous, recents>>

SendNothing == UNCHANGED <<settings, tables, mine, previous, recents, lookup, lane, searching>>

\* hitSearchApi after a key: the text is erased, or held back for a second, or
\* searched for at once by enter where only enter searches.  resetInput clears
\* the box in the same way.
Erase ==
  /\ Free
  /\ box' = NoText /\ suggestions' = NoSuggestions
  /\ Send(<<ListRecents>>)
  /\ UNCHANGED <<category, typed>>

Key(t, key) ==
  /\ Free /\ ~onlyOnEnter
  /\ key = "enter" => saveOnEnter /\ t = box     \* else it is like the others
  /\ box' = t
  /\ typed' = [text |-> t, key |-> key] /\ suggestions' = NoSuggestions
  /\ SendNothing
  /\ UNCHANGED category

KeyUnheard(t) ==
  /\ Free /\ onlyOnEnter /\ t # box
  /\ box' = t
  /\ SendNothing
  /\ UNCHANGED <<category, typed, suggestions>>

Enter ==
  /\ Free /\ onlyOnEnter /\ box # NoText
  /\ Send(<<SearchFor(box, category, "enter")>>)
  /\ UNCHANGED <<box, category, typed, suggestions>>

\* The debounce lets the last text through: it is searched for in the category
\* of this moment.
Debounced ==
  /\ typed # NoTyping
  /\ typed' = NoTyping
  /\ Send(<<SearchFor(typed.text, category, typed.key)>>)
  /\ UNCHANGED <<box, category, suggestions>>

CategoryUnsearched(c) ==       \* mutant: a new category is not searched
  /\ Free /\ c # category
  /\ category' = c
  /\ SendNothing
  /\ UNCHANGED <<box, typed, suggestions>>

SetCategory(c) ==
  /\ Free /\ c # category
  /\ category' = c
  /\ IF box = NoText THEN SendNothing
     ELSE Send(<<SearchFor(box, c, "category"), ListRecents>>)
  /\ UNCHANGED <<box, typed, suggestions>>

Focus ==
  /\ Free
  /\ Send(<<ListRecents>>)
  /\ UNCHANGED <<box, category, typed, suggestions>>

\* populateValue and populateValueRecentSearch
Populate(t) ==
  /\ Free /\ suggestions # NoSuggestions /\ box # NoText
  /\ box' = t
  /\ Send(<<SearchFor(t, category, "mouse")>>)
  /\ UNCHANGED <<category, typed, suggestions>>

PopulateRecent(t) ==
  /\ Free /\ t \in recents
  /\ box' = t
  /\ Send(<<SearchFor(t, category, "mouse"), ListRecents>>)
  /\ UNCHANGED <<category, typed, suggestions>>

-----------------------------------------------------------------------------
(* GET /search with saveInRecents: RecentSearchRepository.create. *)

Advance(r, next) ==
  /\ lane' = [lane EXCEPT ![r] = next]
  /\ UNCHANGED <<settings, screen, lookup>>

FindOwner(r) ==
  /\ lane[r] = "owner"
  /\ IF owners = {}
     THEN Advance(r, "newOwner") /\ UNCHANGED mine
     ELSE \E o \in owners :
            mine' = [mine EXCEPT ![r] = o] /\ Advance(r, "previous")
  /\ UNCHANGED <<tables, previous>>

CreateOwner(r) ==
  /\ lane[r] = "newOwner"
  /\ owners' = owners \union {r}
  /\ mine' = [mine EXCEPT ![r] = r]
  /\ Advance(r, "save")
  /\ UNCHANGED <<queries, previous>>

FindPrevious(r) ==
  /\ lane[r] = "previous"
  /\ previous' = [previous EXCEPT ![r] = QueriesOf(mine[r])]
  /\ Advance(r, "same")
  /\ UNCHANGED <<tables, mine>>

\* The rows of the text among those found; the count is that of all found.
DeleteSame(r) ==
  /\ lane[r] = "same"
  /\ queries' = queries \ {q \in previous[r] : q.text = lookup[r].text}
  /\ Advance(r, IF Cardinality(previous[r]) >= RecentCount THEN "old" ELSE "save")
  /\ UNCHANGED <<owners, mine, previous>>

DeleteOld(r) ==
  /\ lane[r] = "old"
  /\ queries' = queries \ (QueriesOf(mine[r]) \ Newest(previous[r]))
  /\ Advance(r, "save")
  /\ UNCHANGED <<owners, mine, previous>>

CreateQuery(r) ==
  /\ lane[r] = "save"
  /\ queries' = queries \union
       {[by |-> r, owner |-> mine[r], text |-> lookup[r].text,
         on |-> 1 + Max({q.on : q \in queries} \union {0})]}
  /\ Advance(r, "query")
  /\ UNCHANGED <<owners, mine, previous>>

-----------------------------------------------------------------------------
(* Answers, in whatever order they come. *)

\* The search itself, and its result or its error in the box.
Answered(r) ==
  /\ lane[r] = "query"
  /\ lane' = [lane EXCEPT ![r] = "done"]
  /\ suggestions' = [text |-> lookup[r].text, category |-> lookup[r].category]
  /\ searching' = FALSE
  /\ UNCHANGED <<settings, tables, mine, previous, lookup, box, category, typed, recents>>

\* GET /search/recents: the row of the user, and the rows it owns.
FindListOwner(r) ==
  /\ lane[r] = "listOwner"
  /\ IF owners = {}
     THEN /\ recents' = {} /\ lane' = [lane EXCEPT ![r] = "done"] /\ UNCHANGED mine
     ELSE /\ \E o \in owners : mine' = [mine EXCEPT ![r] = o]
          /\ lane' = [lane EXCEPT ![r] = "list"] /\ UNCHANGED recents
  /\ UNCHANGED <<settings, tables, previous, lookup, box, category, typed, suggestions,
                 searching>>

ShowRecents(r) ==
  /\ lane[r] = "list"
  /\ recents' = {q.text : q \in Newest(QueriesOf(mine[r]))}
  /\ lane' = [lane EXCEPT ![r] = "done"]
  /\ UNCHANGED <<settings, tables, mine, previous, lookup, box, category, typed, suggestions,
                 searching>>

LookupFails(r) ==
  /\ r \in UnderWay /\ (patient => lane[r] = "query")
  /\ lane' = [lane EXCEPT ![r] = "failed"]
  /\ IF lookup[r].op = "search"
     THEN suggestions' = NoSuggestions /\ searching' = FALSE /\ UNCHANGED recents
     ELSE recents' = {} /\ UNCHANGED <<suggestions, searching>>
  /\ UNCHANGED <<settings, tables, mine, previous, lookup, box, category, typed>>

-----------------------------------------------------------------------------
SearchInit ==
  /\ patient \in BOOLEAN /\ onlyOnEnter \in BOOLEAN /\ saveOnEnter \in BOOLEAN
  /\ box = NoText /\ category = All
  /\ typed = NoTyping /\ suggestions = NoSuggestions /\ searching = FALSE /\ recents = {}
  /\ lookup = [r \in Lookups |-> NoLookup]
  /\ lane = [r \in Lookups |-> "idle"]
  /\ owners = {} /\ queries = {}
  /\ mine = [r \in Lookups |-> 0]
  /\ previous = [r \in Lookups |-> {}]

UserActs ==
  \/ Erase \/ Enter \/ Focus
  \/ \E t \in Text, key \in {"char", "enter"} : Key(t, key)
  \/ \E t \in Text : KeyUnheard(t) \/ Populate(t) \/ PopulateRecent(t)
  \/ \E c \in Category : SetCategory(c)

Serve(r) ==
  \/ FindOwner(r) \/ CreateOwner(r) \/ FindPrevious(r) \/ DeleteSame(r)
  \/ DeleteOld(r) \/ CreateQuery(r)
  \/ Answered(r) \/ FindListOwner(r) \/ ShowRecents(r)

SearchNext ==
  \/ UserActs \/ Debounced
  \/ \E r \in Lookups : Serve(r) \/ LookupFails(r)

SearchSpec == SearchInit /\ [][SearchNext]_searchVars

-----------------------------------------------------------------------------
SearchQuery == [by : Lookups, owner : Lookups, text : Text, on : Lookups]
Asked == [op : {"search", "list"}, text : Text \union {NoText},
          category : Category \union {"none"}, save : BOOLEAN]

SearchTypeOK ==
  /\ settings \in BOOLEAN \X BOOLEAN \X BOOLEAN
  /\ box \in Text \union {NoText} /\ category \in Category
  /\ typed \in [text : Text \union {NoText}, key : {"none", "char", "enter"}]
  /\ suggestions \in [text : Text \union {NoText}, category : Category \union {"none"}]
  /\ searching \in BOOLEAN /\ recents \subseteq Text
  /\ \A r \in Lookups :
       /\ lookup[r] \in Asked \union {NoLookup}
       /\ lane[r] \in {"idle", "owner", "newOwner", "previous", "same", "old", "save",
                      "query", "listOwner", "list", "done", "failed"}
       /\ mine[r] \in Lookups \union {0} /\ previous[r] \subseteq SearchQuery
  /\ owners \subseteq Lookups /\ queries \subseteq SearchQuery

Searches == {r \in Lookups : lookup[r].op = "search"}

\* The last save of every text.
LatestSaves ==
  LET saves == {r \in Searches : lookup[r].save} IN
    {r \in saves : \A s \in saves : s > r => lookup[s].text # lookup[r].text}

\* A user who never acts while something is under way sees in the end what the
\* box says: the suggestions are those of the last search and, unless only enter
\* searches, of the text and category in the box; and the service has in one list
\* the latest of the texts saved, each once, and as many as it shows.  Deleting
\* the row of the same text and the old rows together leaves no gap.
ServesPatient ==
  Quiet =>
    /\ ~searching
    /\ patient =>
         /\ \A s \in Searches : (\A r \in Searches : r <= s) =>
              LET found == [text |-> lookup[s].text, category |-> lookup[s].category] IN
                /\ suggestions # NoSuggestions => suggestions = found
                /\ ~onlyOnEnter /\ box # NoText =>
                     /\ found = [text |-> box, category |-> category]
                     /\ suggestions = IF lane[s] = "done" THEN found ELSE NoSuggestions
         /\ {q.by : q \in UNION {Newest(QueriesOf(o)) : o \in owners}} =
              {r \in LatestSaves :
                 Cardinality({s \in LatestSaves : s > r}) < RecentCount}
         /\ Cardinality(owners) <= 1
=============================================================================
