------------------------------ MODULE MCWorkspace ------------------------------
(***************************************************************************)
(* Seventeen parts of the application that share no state with each other, *)
(* in one model: a behaviour is one of the part that focus names, the      *)
(* others keep their initial state.  So the states of the parts add up and *)
(* do not multiply.                                                        *)
(***************************************************************************)
EXTENDS DiscoveryStatus, ChecklistSection, Friends, ChatReads, BrowserSession,
        ProjectLife, ApiTokens, Identities, EditingPage, ItemsPage,
        SigningKeys, AccountSettings, NotificationBell, SearchSuggestions,
        Calendar, VaultRuntime, ProjectCards, TLC

VARIABLE focus      \* the part that runs

workspace == <<discovery, checklist, friends, chat, browser, projects, tokens,
               identities, editing, itemlist, signing, profilePage, bells,
               searching, calendar, renewing, cards, focus>>

WorkspaceInit ==
    /\ focus \in {"discovery", "checklist", "friends", "chat", "browser",
                  "projects", "tokens", "identities",
                  "editing", "items", "signing", "accounts",
                  "bell", "search", "calendar", "vault",
                  "cards"}
    /\ DiscoveryInit /\ ChecklistInit /\ FriendsInit /\ ChatInit /\ BrowserInit
    /\ ProjectsInit /\ TokensInit /\ IdentitiesInit /\ EditingInit /\ ItemsInit
    /\ SigningInit /\ AccountsInit /\ BellsInit /\ SearchInit /\ CalendarInit
    /\ RuntimeInit /\ CardsInit
    /\ focus = "items" \/ style = "block"
    /\ focus = "accounts" \/ account.picture = NoPicture
    /\ focus = "search" \/ (place.q = NoPhrase /\ matched = {})
    /\ focus = "vault" \/ service = "backend"
    /\ sheet.owner = CHOOSE u \in Colleagues : TRUE

(* A step of the part that has the focus, the others stay as they are. *)
Focused(part) ==
    /\ focus = part /\ UNCHANGED focus
    /\ part # "discovery" => UNCHANGED discovery
    /\ part # "checklist" => UNCHANGED checklist
    /\ part # "friends" => UNCHANGED friends
    /\ part # "chat" => UNCHANGED chat
    /\ part # "browser" => UNCHANGED browser
    /\ part # "projects" => UNCHANGED projects
    /\ part # "tokens" => UNCHANGED tokens
    /\ part # "identities" => UNCHANGED identities
    /\ part # "editing" => UNCHANGED editing
    /\ part # "items" => UNCHANGED itemlist
    /\ part # "signing" => UNCHANGED signing
    /\ part # "accounts" => UNCHANGED profilePage
    /\ part # "bell" => UNCHANGED bells
    /\ part # "search" => UNCHANGED searching
    /\ part # "calendar" => UNCHANGED calendar
    /\ part # "vault" => UNCHANGED renewing
    /\ part # "cards" => UNCHANGED cards

DiscoveryStep == Focused("discovery") /\ DiscoveryNext
ChecklistStep == Focused("checklist") /\ ChecklistNext
FriendsStep == Focused("friends") /\ FriendsNext
ChatStep == Focused("chat") /\ ChatNext
BrowserStep == Focused("browser") /\ BrowserNext
ProjectsStep == Focused("projects") /\ ProjectsNext
TokensStep == Focused("tokens") /\ TokensNext
IdentitiesStep == Focused("identities") /\ IdentitiesNext
EditingStep == Focused("editing") /\ EditingNext
ItemsStep == Focused("items") /\ ItemsNext
SigningStep == Focused("signing") /\ SigningNext
AccountsStep == Focused("accounts") /\ AccountsNext
BellsStep == Focused("bell") /\ BellsNext
SearchStep == Focused("search") /\ SearchNext
CalendarStep == Focused("calendar") /\ CalendarNext
RuntimeStep == Focused("vault") /\ RuntimeNext
CardsStep == Focused("cards") /\ CardsNext

WorkspaceNext ==
    \/ DiscoveryStep \/ ChecklistStep \/ FriendsStep \/ ChatStep
    \/ BrowserStep \/ ProjectsStep \/ TokensStep \/ IdentitiesStep
    \/ EditingStep \/ ItemsStep \/ SigningStep \/ AccountsStep \/ BellsStep
    \/ SearchStep \/ CalendarStep \/ RuntimeStep \/ CardsStep

WorkspaceSpec == WorkspaceInit /\ [][WorkspaceNext]_workspace

(* Processes are told apart by two model values, the same for every part,    *)
(* because only one of them moves: there is one permutation to consider.     *)
Interchangeable == Permutations(Pair)

(* At most one event, and with the marks two things, on the way between tabs *)
(* of a chat and the server, one tab fetching its page and one tab offline   *)
(* at a time, and none offline while a mark is on its way.                   *)
FewEvents == focus = "chat" => \A t, u \in Tabs : t # u =>
    /\ Len(feed[t]) + Len(feed[u]) <= 1
    /\ Len(feed[t]) + Len(feed[u]) + Cardinality(marking) <= 2
    /\ tab[t].online \/ (tab[u].online /\ marking = {})
    /\ {tab[t].at, tab[u].at} \cap {"elsewhere", "reading"} # {}

(* At most one event on its way to the two pages about a friendship, and one *)
(* page at a time reading profiles.  When both pages have missed something,  *)
(* only what reads the rows again is followed.                               *)
FewNews == focus = "friends" => \A u, v \in Pair : u # v =>
    /\ Len(news[u]) + Len(news[v]) <= 1
    /\ profiles[u] = {} \/ profiles[v] = {}
    /\ missed[u] /\ missed[v] => {errand[u].op, errand[v].op} \subseteq {"none", "load", "unblock"}

(* At most three messages on their way between the two tabs of an editing    *)
(* page and the server, one after the one reconnection, and one tab offline  *)
(* at a time.                                                                *)
FewMessages == focus = "editing" =>
    \A t, u \in Pages : t # u =>
        /\ Len(up[t]) + Len(down[t]) + Len(up[u]) + Len(down[u]) <= 3
        /\ view[t].socket + view[u].socket <= 3
        /\ \/ view[t].socket + view[u].socket <= 2
           \/ Len(up[t]) + Len(down[t]) + Len(up[u]) + Len(down[u]) <= 1
        /\ view[t].connected \/ view[u].connected

(* At most two events, fetches and requests between the bells of a user and  *)
(* the server.  A bell in doubt is followed only while it is offline; once   *)
(* there is a notification some bell is always steady: connected, and with   *)
(* nothing to fetch.  A bell asks while the other is connected or has no     *)
(* fetch under way, and both ask at once only when every bell is steady and  *)
(* no event is on its way.                                                   *)
FewNotes == focus = "bell" =>
    LET Fetching(t) == {k \in Fetches : bell[t].fetches[k] # NoFetch}
        Steady(t) == bell[t].online /\ Fetching(t) = {}
        BellsAsking == {t \in Bells : ask[t] # NoAsk}
    IN  /\ \A t, u \in Bells : t # u =>
              Len(post[t]) + Len(post[u]) + Cardinality(Fetching(t)) + Cardinality(Fetching(u))
                  + Cardinality(untold) + Cardinality(BellsAsking) <= 2
        /\ \A t \in doubtful : ~bell[t].online
        /\ BellsAsking = {} \/ \A t \in Bells : bell[t].online \/ Fetching(t) = {}
        /\ Created = {} \/ \E t \in Bells : Steady(t)
        /\ Cardinality(BellsAsking) <= 1 \/ \A t \in Bells : Steady(t) /\ post[t] = <<>>

(* Of a refresh, a sign-in or sign-out and a request for a ticket two are    *)
(* under way at a time; all three while the ticket waits for the refresh.    *)
FewSessions == focus = "browser" =>
    refresh = Idle \/ form = Idle \/ link.attempt.phase \in {"none", "refreshing"}

(* The integration is given one token, and may hold it past its revocation;  *)
(* beside a call of it a token is listed, revoked or deleted, not created.   *)
FewTokens == focus = "tokens" =>
    /\ Cardinality(known) <= 1
    /\ \A c, d \in Clients : c # d /\ call[c].op = "use" => call[d].op \notin {"use", "create"}

(* Two accounts, committed or deleted: a third identifier is one that the    *)
(* loser of a race used up, and then no account is deleted.  Once one is,    *)
(* no second sign-in with 42 or link is started.                             *)
FewAccounts == focus = "identities" =>
    /\ Cardinality(DOMAIN users) + Cardinality(gone) <= 2
    /\ gone = {} \/ (issued <= 2 /\ started <= 1)

(* Three identifiers of discovery: two blocks and an item, or the reverse.   *)
FewIds == focus = "discovery" => Cardinality(used) <= 3

(* Two requests to a section are followed together until its last row. *)
FewRows == focus = "checklist" /\ given = Rows => \E m \in Raters : turn[m] = NoTurn

(* Two calendar calls are followed together if they change only dates or     *)
(* delete and nobody comes or goes, or if both assign members and nothing    *)
(* else, of an event of the first day, where a removal crosses them after    *)
(* their checks; and if the page shows no drawer, which is closed also while *)
(* notices are on their way or a member is being removed.                    *)
OnlyAssigns(c) == calendarCall[c].kind = "update" /\ calendarCall[c].assigns /\ calendarCall[c].start = 0
FewCalls == focus = "calendar" =>
    /\ doubted = {} /\ ~crossed
    /\ sheet.drawer = "closed" \/ (leaving = {} /\ untoldOf = {})
    /\ \A c, d \in Calls : c # d /\ ~FreeCall(c) /\ ~FreeCall(d) =>
          /\ sheet.drawer = "closed"
          /\ \/ team = Colleagues /\ leaving = {} /\ strayed = {} /\ ~calendarCall[c].assigns
             \/ /\ OnlyAssigns(c) /\ OnlyAssigns(d) /\ meeting.end = 1
                /\ team = Colleagues \/ calendarCall[c].phase \in {"assign", "wiping", "wiped", "notify"}

(* One request of each page to the project's row, and no page is followed    *)
(* further that has missed a change.  At most two pages and unwritten        *)
(* requests are busy at a time; from the second write on no request is under *)
(* way while the other page loads.  A request that failed is followed alone, *)
(* and no load is under way while the answer of a conflict is.               *)
(* While a card has its form or its question open, the other page shows      *)
(* cards too, and the project is neither finished nor, with two forms,       *)
(* archived.                                                                 *)
Unwritten(p) == \E op \in Patches : patch[p][op].phase \in {"sent", "read", "written"}
Reloads(p) == rumor[p] # <<>> \/ refetch[p] # NoLoad
FewPatches == focus = "cards" =>
    /\ behind = {}
    /\ \A p \in Desks : Cardinality({op \in Patches : patch[p][op] # NoPatch}) <= 1
    /\ Cardinality({p \in Desks : Unwritten(p)})
         + Cardinality({p \in Desks : Reloads(p) \/ \E op \in Patches : ~Unwritten(p) /\ patch[p][op] # NoPatch}) <= 2
    /\ \A p, q \in Desks : p # q =>
          /\ p # Owning => desk[p].at = "projects"
          /\ refetch[p] = NoLoad \/ refetch[q] = NoLoad
          /\ patch[p]["details"] # NoPatch => \A op \in Patches \ {"details"} : patch[q][op] = NoPatch
          /\ venture.at > 2 /\ Reloads(p) => ~Unwritten(q)
          /\ desk[p].mode # "view" =>
                /\ desk[q].mode \in {desk[p].mode, "view"} /\ desk[q].at = "projects" /\ ~desk[q].all
                /\ ~venture.finished /\ (desk[q].mode = "view" \/ ~venture.archived)
    /\ \A p \in Desks, op \in Patches : patch[p][op].phase = "failed" =>
          \A q \in Desks : ~Reloads(q) /\ \A o \in Patches : Free(q, o) \/ (q = p /\ o = op)
    /\ ~(venture.finished /\ venture.archived)
    /\ \A p, q \in Desks : patch[p]["details"].phase = "stale" => refetch[q] = NoLoad
    /\ venture.at > 2 => desk[Owning].at = "projects"
=============================================================================
