------------------------- MODULE SearchSuggestions -------------------------
(***************************************************************************)
(* The search field in the header (SearchBar.tsx) with the panel of        *)
(* suggestions under it (SearchSuggestionsPanel.tsx): typing, opening and  *)
(* closing, navigations that write the field, and the debounced requests   *)
(* whose answers come back in any order, or fail.                          *)
(*                                                                         *)
(* The effects of a render are one step with what caused it.  An answer is *)
(* the term it is for and whether it has rows; who may see which row, the  *)
(* filters and the pages of /search are left out, and what is to be found  *)
(* does not change.  The shorter phrases stand for the empty one too.      *)
(***************************************************************************)
EXTENDS Naturals, FiniteSets

CONSTANTS Phrases,      \* what may stand in the field, trimmed
          Searchable,   \* those of them with two characters or more
          NoPhrase,     \* none: no answer, no timer, a page without a q
          MaxSearches   \* requests under way (bound)

ASSUME SearchableAssumption == Searchable \subseteq Phrases /\ NoPhrase \notin Phrases

VARIABLES matched,      \* phrases for which there is something to be found
          entry,        \* what is typed, and whether the panel is open
          panel,        \* results, the phrase they answer, loading
          debounce,     \* the phrase that is about to be searched
          searches,     \* requests under way, also dropped ones
          place,        \* q of the page, and of the one being loaded
          unanswered    \* history: a request failed after the last answer

searching == <<matched, entry, panel, debounce, searches, place, unanswered>>

NoResults == [phrase |-> NoPhrase, hits |-> FALSE]
Visible == entry.open /\ entry.phrase \in Searchable

-----------------------------------------------------------------------------
(* The effect of the field's phrase and of the panel's being open: what was  *)
(* asked before is dropped, and asked anew unless it is too short, closed or *)
(* answered already.                                                         *)
Rendered(phrase, open) ==
    LET same  == phrase = entry.phrase /\ open = entry.open
        short == phrase \notin Searchable
        asks  == ~short /\ open /\ panel.fetched # phrase
    IN  /\ entry' = [phrase |-> phrase, open |-> open]
        /\ IF same THEN UNCHANGED <<panel, debounce, searches>>
           ELSE /\ panel' = [fetched |-> IF short THEN NoPhrase ELSE panel.fetched,
                             results |-> IF short THEN NoResults ELSE panel.results,
                             loading |-> asks]
                /\ debounce' = IF asks THEN phrase ELSE NoPhrase
                /\ searches' = {[r EXCEPT !.live = FALSE] : r \in searches}

TypePhrase(p) == p # entry.phrase /\ Rendered(p, TRUE) /\ UNCHANGED <<matched, place, unanswered>>
FocusField == ~entry.open /\ Rendered(entry.phrase, TRUE) /\ UNCHANGED <<matched, place, unanswered>>

(* Escape, or a click elsewhere. *)
ClosePanel == entry.open /\ Rendered(entry.phrase, FALSE) /\ UNCHANGED <<matched, place, unanswered>>

-----------------------------------------------------------------------------
(* A link, the Back button or Enter starts a navigation; the field and the   *)
(* panel follow when its page has been loaded, whatever is typed by then.  A *)
(* page with the same q may be at the same address: nothing follows then.    *)
GoTo(p) ==
    /\ p \in Phrases \cup {NoPhrase}
    /\ place' = [place EXCEPT !.next = p, !.busy = TRUE]
    /\ UNCHANGED <<matched, entry, panel, debounce, searches, unanswered>>
HandleSubmit ==
    /\ Rendered(entry.phrase, FALSE)
    /\ \/ place' = [place EXCEPT !.next = entry.phrase, !.busy = TRUE]
       \/ entry.phrase \notin Searchable /\ UNCHANGED place
    /\ UNCHANGED <<matched, unanswered>>
ArriveAt ==
    /\ place.busy
    /\ place' = [q |-> place.next, next |-> NoPhrase, busy |-> FALSE]
    /\ \/ Rendered(IF place.next \in {place.q, NoPhrase} THEN entry.phrase ELSE place.next, FALSE)
       \/ place.next = place.q /\ UNCHANGED <<entry, panel, debounce, searches>>
    /\ UNCHANGED <<matched, unanswered>>

-----------------------------------------------------------------------------
TimeOut ==
    /\ debounce # NoPhrase /\ Cardinality(searches) < MaxSearches
    /\ debounce' = NoPhrase
    /\ searches' = searches \cup {[phrase |-> debounce, hits |-> FALSE, at |-> "sent", live |-> TRUE]}
    /\ UNCHANGED <<matched, entry, panel, place, unanswered>>
ServeSearch(r) ==
    /\ r.at = "sent"
    /\ searches' = (searches \ {r}) \cup {[r EXCEPT !.at = "served", !.hits = r.phrase \in matched]}
    /\ UNCHANGED <<matched, entry, panel, debounce, place, unanswered>>

\* Variant with the fault of an answer that is always taken.
StillAsked(r) == r.phrase \in Phrases

Wanted(r) == r.live

SearchAnswer(r) ==
    /\ r.at = "served" /\ searches' = searches \ {r}
    /\ IF Wanted(r)
       THEN /\ panel' = [fetched |-> r.phrase, loading |-> FALSE,
                         results |-> [phrase |-> r.phrase, hits |-> r.hits]]
            /\ unanswered' = FALSE
       ELSE UNCHANGED <<panel, unanswered>>
    /\ UNCHANGED <<matched, entry, debounce, place>>

(* A failed request forgets the results, and not what they were for. *)
SearchFails(r) ==
    /\ searches' = searches \ {r}
    /\ IF Wanted(r) THEN panel' = [panel EXCEPT !.results = NoResults, !.loading = FALSE] /\ unanswered' = TRUE
       ELSE UNCHANGED <<panel, unanswered>>
    /\ UNCHANGED <<matched, entry, debounce, place>>

-----------------------------------------------------------------------------
SearchInit ==
    /\ \E p \in Phrases \cup {NoPhrase} :
          /\ place = [q |-> p, next |-> NoPhrase, busy |-> FALSE]
          /\ entry = [phrase |-> IF p = NoPhrase THEN CHOOSE e \in Phrases \ Searchable : TRUE ELSE p,
                       open |-> FALSE]
    /\ panel = [fetched |-> NoPhrase, results |-> NoResults, loading |-> FALSE]
    /\ debounce = NoPhrase /\ searches = {} /\ unanswered = FALSE
    /\ matched \in SUBSET Searchable

SearchNext ==
    \/ \E p \in Phrases : TypePhrase(p)
    \/ FocusField \/ ClosePanel \/ HandleSubmit \/ ArriveAt \/ TimeOut
    \/ \E p \in Phrases \cup {NoPhrase} : GoTo(p)
    \/ \E r \in searches : ServeSearch(r) \/ SearchAnswer(r) \/ SearchFails(r)

SearchSpec == SearchInit /\ [][SearchNext]_searching

-----------------------------------------------------------------------------
(* What the open panel says, rows or "No results", is the answer to the      *)
(* phrase in the field whenever it is not waiting for one, however typing,   *)
(* closing, navigating and late answers interleave.  Only after a request    *)
(* that failed it may say so of a phrase that has never been answered, or    *)
(* whose answer it has forgotten.                                            *)
SuggestionsAnswerField ==
    Visible /\ ~panel.loading =>
        \/ unanswered
        \/ panel.results = [phrase |-> entry.phrase, hits |-> entry.phrase \in matched]
=============================================================================
