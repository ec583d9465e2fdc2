# A TLA+ model of 42_transcendence

This directory models the parts of the application in `src/` whose correctness
depends on the order in which concurrent things happen: sessions, identities, API
tokens and signing keys in the Go auth service; locks, editing leases and rooms, the
task board, check lists, friendships, chat, notifications, accounts and projects in
the Node backend; and the copies of all this that browsers keep.
Modules are checked with TLC on small instances, and theorems about them are proved
with TLAPS for instances of every size.

## 1. The system and its parts

The application manages student projects: members, a Kanban board, a discovery
board, a calendar, an evaluation checklist, a chat, notifications, friends and
search.  A browser (React) talks through nginx to two services that share one
PostgreSQL database: the Go **auth service** (`src/auth`) and the NestJS
**backend** (`src/backend`, HTTP and Socket.IO).  Credentials come from Vault,
avatars are in an object store.

| Part | State it keeps | Operations | Talks to | What is hard, and what must hold |
|---|---|---|---|---|
| Refresh-token families (`auth/internal/store`, `server`) | tables `RefreshTokenFamily`, `AuthRefreshToken` | login, refresh (rotation, grace, replay), logout, introspection | PostgreSQL, browser cookies | Several tabs and retries present one token at once; statements see different snapshots; replays lock many rows. One current token per session; a replay ends all sessions; no session comes back. |
| Sign-in with 42, registration, linking (`oauth42.go`, `oauth.go`) | states, users, identities | begin, callback, link, register, password | 42 API, PostgreSQL | Concurrent callbacks of a new account. A state is used once; everybody gets the account of his identity, and no account is left without one. |
| WebSocket tickets | `WebSocketTicket` | issue, consume, revalidate | backend gateway | A ticket admits one connection of a live session. |
| Project API tokens (all three services) | `ProjectApiToken`, the settings page | create (at most 10), revoke, delete, introspect | backend guard | The backend gives up after two seconds, the auth service goes on. The cap and the revocation hold. |
| Signing keys (`vault/runtime.go`, `token.go`) | public keys, negative answers | mint, validate, fetch keys | Vault | Rotations that other replicas see first. A good token is not called invalid for long. |
| Vault runtimes (both services) | token, database lease, pool, timer | start, renew, re-authenticate, exchange the pool, fail closed | Vault, PostgreSQL | Expiry racing renewal, a renewal of four calls that fails half-way. A service never goes on past what it knows to expire, and its pool has what it renews. |
| Rate limits, password slots | counters per window | allow, acquire | handlers | Limits at the edge of a window. |
| Project and resource coordinator (`backend/src/realtime/field-lock-manager.ts`) | map of readers-writer locks, map of promise chains | `withProject`, `withProjectResource` | every service that edits or changes members | Wake-ups, fairness, objects forgotten while in use. Exclusion, no starvation, no leak. |
| Editing leases, rooms, connections (`backend/src/realtime`) | leases, rooms, guards, slots per session | lock, unlock, renew, query, connect, disconnect, sweep | auth service (admission), services below | Everything may end between two awaits. One editor per field, nothing outlives its connection or its membership. |
| Project members | `ProjectMember`, assignments | add, remove, change role | leases and rooms, notifications | A change has to reach rows, rooms and leases. |
| Checklist, discovery blocks and items | rows; the lists of pages | create, save, toggle, delete | leases, notifications, events | No save without its lease; progress and status follow the rows; a list follows them through answers, events and reloads in any order. |
| Task board (backend) | `Task` with rank per column, `TaskAssignee` | create, move, update, delete (people and tokens) | events, notifications | Serializable transactions. Ranks 0..n-1 without holes, assignees are members. |
| Task board (browser: `lib/tasksReducer.ts`) | a copy of the board | local actions and events | events of the backend | Order of events. The copy agrees with the board. |
| Calendar (`calendar-events.service.ts`, `calendar.tsx`) | event, assignees; the page's drawer | create, update, delete, reassign | members, notifications | Several statements and no transaction; members leave meanwhile. Dates in order, assignees are members and know it. |
| Categories | rows | create, update, delete | membership checks | Little: single statements. |
| Chat | messages, read marks, unread set in the browser | send, delete, read | shared project lock, events | Marks of several tabs; a member removed while sending. |
| Friends | two rows per pair | request, accept, block, remove | events | Both sides act at once; never one-sided. |
| Notifications (backend, bell) | rows; the list of each tab | create, read, delete, all of them | events, refetch | Events lost with a connection, fetches that cross them. A connected bell shows the rows. |
| Search (backend, search field) | the phrase answered last | type, open, close, navigate, answer | HTTP | Late answers under a newer phrase. |
| Public API | none | reads, tasks | token guard, task service | A machine's requests follow the rules of a person's. |
| Project cards and settings (`ProjectCard.tsx`, `ProjectStatusSection.tsx`, `DangerZoneSection.tsx`) | the row shown, a form, requests | edit, finish, archive, delete | projects service, events, router | Edits of two managers, answers for forms that are gone, loads that cross. No edit overwrites another unseen; pages follow. |
| Projects, users | rows, cascades | create, update, delete | members, leases | Deletions take no project lock. |
| Account settings (page, `users.service.ts`, object store) | name, picture, session's user | rename, upload, remove, delete | object store | The object and the row change one after the other; two devices. The picture named by the row exists. |
| Browser session (`lib/auth.ts`, `authState.ts`, `apiClient.ts`) | session, request in flight, cache | load, refresh, logout | auth service | Late answers after a logout. |
| Realtime client (`lib/realtimeSocket.ts`, `hooks/useFieldLock.ts`) | connection, timers, lease token | connect, acquire, renew | gateway | Late acknowledgements of earlier leases. |

`PROJECT.json` lists every part with its status under `components`, and under
`hazards` the places in the code where these difficulties bite, with the
properties that look after each, or the reason why none does.  Smaller ones that
were seen on the way and that no property covers:

* a search request that fails while its phrase is shortened to the one answered
  before leaves "No results" (`SearchBar.tsx:126`), and a navigation that ends late
  replaces what has been typed since (`SearchBar.tsx:63`);
* a change of a role is not shown to who made it, since he is left out of its event
  (`MembersSection.tsx:159`);
* in the last minute of a lease or token that is at its limit the backend renews it
  over and over, with a new pool each time (`vault-runtime.service.ts`, `renew`);
* saving an event closes whatever drawer is open by then (`calendar.tsx:115`); notes
  that are cleared stay, since `undefined` is sent for them (`EventForm.tsx:117`); a
  creation that fails after its write makes a second event when it is tried again;
* two overlapping changes of an event's assignees may leave the union of both lists
  (`calendar-assignee.service.ts:13`), which `AssigneesKnow` excuses;
* the repository's own README says that changes of the calendar are shown live
  (`README.md:9`, `:400`, `:564`); the service emits no event and the page hears none;
* two toggles of a project at once compare with rows read before
  (`notifyLifecycleChange`), and so send the same notice twice or none;
* `projectsApi.ts:46` and the comments of `projects.controller.ts` let an ADMIN delete a project,
  the code only the OWNER.

## 2. Modules

| Module | Models | How |
|---|---|---|
| `RefreshFamilies` | login, refresh and logout of the auth service | one action per SQL statement or transaction end |
| `MCRefreshFamilies` | instances: one user with two devices | |
| `RefreshFamilies_proofs` | theorems about `RefreshFamilies` | |
| `ResourceJobs` | what callers ask the coordinator for | shared by the three modules below |
| `ResourceAccess` | what the coordinator promises, in three actions | abstract specification |
| `ProjectCoordinator` | `ProjectResourceCoordinator`, `KeyedCoordinator` | one action from one `await` to the next |
| `ProjectCoordinator_proofs` | theorems about `ProjectCoordinator` | |
| `FieldLocks` | leases, rooms, connections, saves, deletions, members | operations are let in as `ResourceAccess` says |
| `MCFieldLocks` | instances: two tabs of one member | |
| `ColumnBoard` | a board as one sequence of cards per column | abstract specification |
| `TaskBoard` | tasks, ranks and assignees of the backend, with members who leave | implements `ColumnBoard` |
| `MCTaskBoard` | instances: the requests about three cards | |
| `BoardCopy` | the Kanban page of one browser | over `ColumnBoard`, which it extends |
| `MCBoardCopy` | instances | |
| `DiscoveryStatus` | blocks, their items, the status that follows from them | one action per transaction, or per statement of one |
| `ChecklistSection` | a section of the evaluation check list and its notification | |
| `Friends` | the two rows of a pair, and the Friends page of each | |
| `ChatReads` | messages, tabs and read marks of one conversation | |
| `BrowserSession` | session and realtime connection of a browser tab | |
| `ProjectLife` | projects, roles and accounts | |
| `ApiTokens` | a project's API tokens: page, backend, auth service, an integration | one action per statement that takes a lock |
| `Identities` | accounts and identities: callbacks, links, registrations | one action per statement of a transaction |
| `EditingPage` | `useFieldLock` and the open field of two tabs | messages in order, both ways |
| `ItemsPage` | the list of check boxes of a page | one action per answer, event or reload |
| `SigningKeys` | the cache of Vault's public keys | one action per hold of its mutex |
| `AccountSettings` | an account's row, pictures, page and header | one action per call |
| `NotificationBell` | notifications and the bells of a user's tabs | |
| `SearchSuggestions` | the search field and its panel | one action per render with its effects |
| `Calendar` | an event, the members assigned to it, the page of one of them | one action per statement or call |
| `VaultRuntime` | the credentials of a service, and Vault as it uses it | one action per call, in units of time |
| `ProjectCards` | a project's row and the pages of its managers | one action per statement, answer, event or load |
| `MCWorkspace` | the instance of the seventeen modules above | see there |
| `FieldLocks_proofs` | theorems about `FieldLocks` | |
| `Projects_proofs` | theorems about `ProjectLife`, `DiscoveryStatus`, `ChecklistSection`, `Calendar` | |
| `SignIn_proofs` | theorems about `ApiTokens`, `Identities`, `SigningKeys` | |
| `Pages_proofs` | theorems about `BrowserSession`, `SearchSuggestions`, `AccountSettings`, `ChatReads`, `NotificationBell` | |
| `ProjectCards_proofs` | theorems about `ProjectCards`, `EditingPage`, `ItemsPage` | |
| `Services_proofs` | theorems about `VaultRuntime`, `Friends`, `TaskBoard` | |

The backend modules compose by refinement: `ProjectCoordinator` implements
`ResourceAccess` (property `ImplementsAccess`), and `FieldLocks` lets an
operation begin under the condition `ResourceAccess!Begin` has (`Granted`, with
the same `Conflict`).  What `FieldLocks` assumes of fairness is what
`ProjectCoordinator!EveryOperationRuns` checks.  In the same way `TaskBoard`
implements `ColumnBoard` (property `ImplementsBoard`), and `BoardCopy` runs a
browser against a board of which it assumes just that.

### RefreshFamilies

`family` and `token` are the two tables.  A row has the columns the code's
decisions use; `committedAt` says when it became visible.  `lock` is the row lock
of a family, `tx` the handler's progress and what it read, `sent` the tokens that
reached a browser, `answer` the response of the present step.

Refresh (`store.go` `RotateRefreshToken`, called by the handler `refresh`): 
`RefreshRead` is the `SELECT ... FOR UPDATE OF f` up to the wait for the lock; it
takes the token row from the statement's snapshot.  `LockFamily` gets the lock and
re-reads the family row, not the joined token row: that is what READ COMMITTED
does, and the reason why a second request may decide with a row that has been
rotated since.  Then one of `RejectInactive`, `RejectCSRF`, `StartReplay`,
`AnswerGrace` or `Rotate`; a replay locks the user's families
one by one (`LockTarget`) and commits (`CommitReplay`).  Every refresh begins by
erasing ciphertexts that are out of their grace window (`ExpiredSuccessors`), in
all families, and waits for transactions that have erased the same rows.  Logout is
`LogoutRead`, `LockFamily`, `RevokeFamily`; login is `CreateFamily`, then `MintSucceeds`
or `MintFails`.  `Abort` stands for a cancelled request, a database error and a
consistency error, all of which roll back.

Abstracted: hashes, cookies, the wording of errors, password checks, rate limits,
the CSRF token (a Boolean: it matches or not).  The clock ticks at any moment; the
login reads it and commits within one tick.  PostgreSQL (row locks, READ COMMITTED
snapshots, its deadlock detector) is external code modelled from how the
statements use it.

### ProjectCoordinator

JavaScript runs without interruption between two awaits, so `Call` is everything
`runProject` or `runProjectResource` does before the first one, `EnterResource`
and `Run` the two continuations, `LeaveResource` and `LeaveProject` the two
`finally` blocks.  `projects` and `tails` are the two maps; a coordinator object
may be dropped by the map and created afresh, which is why objects have
identities.

### FieldLocks

`members`, `accounts` and `resources` are rows; `sockets` holds for each
connection its place in `handleConnection`/`joinRooms`, whether Socket.IO says
it is connected, its project room, its guards and its slot; `leases` is the map of
`FieldLockManager`; `requests` are socket messages and HTTP requests, each at the
await it has reached; `sweep` and `cleanup` are the snapshots that
`releaseExpiredLeases` and `releaseSocket` still work through.  `missed` is a
history variable, the sockets that a failed or unlocked change of membership did
not reach; the properties use it to say precisely what the code does guarantee.

A lease may expire at any moment (no clock).  A token that nobody holds any more is
as good as a new random one and is used again; `TokensSuffice` makes sure there
is one.  There is one project, because `joinRooms` visits projects one at a time
and locks are per project.  A user has one session.  Events to browsers are left
out.

### TaskBoard and ColumnBoard

`rows`, `assignees` and `members` are tables.  A request is accepted (`CreateAs`,
`UpdateAs`, `RemoveAs`), its assignees are checked against the members (`Check`), its
Serializable transaction takes its snapshot (`BeginWork`) and commits (`Commit`);
a person's assignees are replaced by a second transaction (`BeginAssigning`,
`CommitAssigning`), a plain change of fields is `UpdateFields`.  `UpdateAs` decides
whether the request moves the card from the row it reads before the transaction,
as `updateAs` does.  `Inserted`, `Deleted` and `Moved` are `openRankSlot` and
`closeRankGap` on whole columns.  A commit dooms the open transactions that have
read the same columns or assignees (`Doomed`); that is the part of PostgreSQL's
serializable isolation that matters here.  `RemoveMember` and `RemoveAssignments`
are the two deletions of `removeMember`, which are no transaction, and
`RemovalFails` is an error between them.  `met` and `excused` are history variables.

`ColumnBoard` has no ranks: a board is a sequence per column, and a step inserts,
moves or takes out a card.  The mapping (`Column`) reads the sequence off the ranks.

### BoardCopy

`copy` is the array of `tasksReducer.ts`; `TaskCreated` to `TaskDeleted` are its
cases, with the integer ranks and their half steps as positions.  `call` holds one
request of this browser and one of everybody else, `events` the events on their
way.  A request commits one `ColumnBoard` step (`Commit`), emits `task:moved`
(`EmitMoved`), reads the task again (`ReadBack`) and emits the rest (`EmitResult`),
as the service does after its transaction.  The gestures are `DragStart`,
`DragOver` (the preview), `DragCancel`, `DropAtOrigin` and `Drop`; `SubmitDrawer` and
`DeleteTask` are the drawer; `RolledBack`, `Reload` and `TasksLoaded` what the page
does with an error.  A new task has an id that is in use nowhere (`Unused`), and the
rows are listed by status, then rank (`Turn`, `Precedes`), those of one rank in any
order.  `inexact` remembers what the copy is not able to follow, and
`CopyFollowsBoard` claims nothing after it: two overlapping changes; a request that
fails after its commit (nobody is told of a created task then); a card created above
others (`task:created` puts it below them); a card deleted, restored by the rollback
though it is gone; and the drop of the finding below.

### DiscoveryStatus, ChecklistSection

`item` and `status` are rows.  A change of an item (`UpdateItem`, `RemoveItem`,
`Count` and `Insert`) is followed by `recalculateStatus`, `ReadItems` and
`WriteStatus`, in a transaction that PostgreSQL refuses if the block's row was
written meanwhile (`Rewritten`); `unsettled` are the blocks whose recalculation
failed.  The comment at `discovery-blocks.service.ts:150-155` says that the
transaction which read stale data is the one refused; here as in PostgreSQL it is
the one that commits later, and the status still is right once all have finished.

In `ChecklistSection` the section is read and later written without a lock
(`ReadSection`, then `UpdateRow` or `RemoveRow`), and `JustCompleted` is decided
from what was read.  Who has completed it is then `telling`: the project and its members are
read and the notifications written after the row, and each of these may fail
(`TellOthers`).  The request ends with an error, the row stays, and nobody tells
again, since the section is complete for whoever comes next.  `announced` is what the last
step told, or could not, with what really happened.
`evaluation-checklist-items.service.ts:73-77` says that only a real step to 100%
notifies; that is true without overlaps and errors, and `CompletionAnnounced` says what is
true with them: a completion without a notice has one of the two as its reason.

### Friends

`relation` are the rows of two people, `page` how each one's page shows the other,
`errand` the request of each page, `news` the events sent and `profiles` the
profile reads that an event starts.  Create, update (accept, block, unblock) and
remove are one transaction each, `Tell` is the event after it.  `Derived` is
`deriveFriendshipStatus` of the rows as `maskCounterpartBlocks` shows them.
What a page does can fail before the commit (`Refuse`) or after it: the answer is lost,
or the rows cannot be read again after an unblock, which has stood since then
(`LoseAnswer`, `friends.tsx:395-411`); and the profile that an event or an answer asks for
may not come (`LoseProfile`, `useFriendsRealtime.ts:57-59`).  The page shows an error, or
nothing, and stays as it was.

`missed` are the pages for which `FriendshipShown` claims nothing until they read the rows
with nothing older on its way.  A page gets there by one of these failures, or by a change
as `Misses` tells it: something older is on its way to it (`Coming`, `Underway`), or
the change is one that nobody tells (no event is sent for a block or a
removal: `useFriendsRealtime.ts:75` listens for `friends:relationship-removed`,
which the backend does not emit), or an old request is accepted after a block and shown
to the blocker as a friendship.  Requests that cross are no reason: two who send, accept or
remove at the same time are shown what the rows say in the end.

### ChatReads

Messages are stamped, committed and announced (`Stamp`, `Commit`, `Announce`), each
of these possibly in another order than their numbers.  A tab selects the
conversation, reads its newest page, shows it and marks it read (`Select`,
`FindAll`, `Land`), hears live messages (`HearMessage`), and may lose its connection.
Marks arrive in any order, and the last one wins (`MarkRead`), so a watermark may go
back; what is claimed is that it never covers what nobody saw, as `chat.service.ts`
and `chat.tsx` intend, but for the four cases at `ReadWasShown`.

### BrowserSession

`current` is the session of `authState.ts` and `auth.ts`, `cookie` that of the
browser, `refresh` and `form` the requests under way, `link` the state of
`realtimeSocket.ts`, whose functions are operators on it (`EnsureConnected`,
`ResetSocket`, ...); `AskTicket` to `Join` are an attempt to connect.  A refresh
answered after a sign-out publishes the session again, because `applySession` does
not look at the revision; `SignedOutStaysOut` excuses exactly that (`late`).

### ProjectLife

`role` is `project_member`, `accounts` the accounts.  Authorization and write are
two steps, between which the operations on members hold the project's lock
(`LockFree`) and the others nothing.  `orphaned` are the projects created between
`CheckOwnership` and `DeleteAccount`: `users.service.ts:237` wants to prevent a
project without owner, and this is the way one comes to be.

### ApiTokens

`rows` are the committed tokens, `call` the requests under way: what the page or an
integration waits for (`waits`) and where the auth service is (`tx`).  The backend
holds the project's lock while it waits, two seconds at most: `Timeout` answers 503
and lets go while the transaction goes on, so that two creations meet behind the
advisory lock (`AdvisoryFree`).  A row is locked by a revocation, a deletion or an
introspection (`RowFree`).  `settings` is `ProjectApiTokensSection.tsx`: its list, its
one dialog, its reload.

### Identities

`users` and `identity` are the committed rows with their unique keys, `states` the
started sign-ins, `visit` a callback, link, registration or password login at each
statement of its transaction.  An insert waits for a key that another open
transaction has inserted and fails once that has committed (`Conflict`): a sign-in
then rolls back and looks for the winner, anything else answers 409.

### EditingPage

`view` is a tab's connection and its one `editingId`; `field` what a row and its hook
hold: the socket that has the lease as far as it knows, the token, the draft, the save
under way.  `up` and `down` are the messages of the present socket.  The server is
`lease` alone: what `FieldLocks` says of it.  `Render` is a render with its effects,
among them the one that ends editing without a lease and keeps the draft.  When a
connection is there again the rows ask for their leases, in any order.  `EndLease` is
expiry and the clean-up after a lost connection.  The removal of a member is not in it:
his sockets leave the room before `field:unlocked` is sent
(`project-members.service.ts:303-310`), and his page is left on
`project:member-removed` (`AuthenticatedLayout.tsx:92-117`).  The server's side of a removal is in `FieldLocks`.

### ItemsPage

`stock` are the rows, `listed` the page's list (a row can be in it twice), `order` the
requests, `wire` the events, `loading` the loader, which runs again after each success.
`style` tells the two pages apart that use `useLiveItemSync`.  A row counts its
changes; `shown`, `skipped` and `spoiled` are history variables made of these numbers.

### SigningKeys

`cache` are the public keys, `negative` and `checked` the two maps about unknown
versions, `fetch` the one request that callers share, `caller` a `Mint` or a `Validate`
between two holds of the mutex: those that wait for the request are woken by its end and take the
mutex again in any order, or give up.  `asked` is a history variable: when somebody last waited
for the keys because of a version, or thought it too far from those cached.
`Ttl` units of time are the 30 seconds of a negative answer, twice as many the minute after which a `Mint` fetches the keys again.

### AccountSettings

`account` is the row, `objects` the store, `task` a request at each of its calls:
`FindUser`, `UploadObject`, `UpdatePicture`, `DeleteObject`.  `header` is the
session's user, patched by answers, replaced by a refresh (`renewal`), which shows
what it read when it was served.

### NotificationBell

`stored` are the rows, `untold` those created and not yet announced, `post` the events
on their way, `bell` each tab's connection, list and fetches, `ask` its request.  A list
is how often it shows each notification as unread and as read; its order is left out.
Every connection begins a fetch, also while that of the mounting is still under way.
A bell is `doubtful` after what the code cannot repair: a fetch that failed, or whose page
is not `clean` because it was read with news still to come or does not show what has
been applied or lost since; an event of all rows that met a newer notification; news
that a change of their row has overtaken.

### SearchSuggestions

`entry` is the field, `panel` the results with `fetchedTermRef`, `debounce` the timer,
`searches` the requests, dropped or not, `place` the route.  A result names the phrase
it answers, which is how a late one can be told from a new one.

### Calendar

`meeting` is one event with its dates and assignees, `calendarCall` each request at the
statement it has reached and what it has read, `untoldOf` the notices on their way.
Who is added and who is removed is decided from the read at the beginning
(`CheckAssignees`).  The list is written later by the two statements of
`replaceAssignees`, in a transaction of PostgreSQL's default isolation, READ COMMITTED:
`EmptyList` deletes the rows it sees (`wipes`), waiting (`Held`, `HoldRows`) for a call that
has deleted one of them already, and `Replace` inserts and commits.  Two calls that overlap do
not see each other's rows: what is left is the union of both lists, or the insert
fails on somebody who is in both; whoever is told by one call that he is removed may
stay assigned by the other, and is `doubted`.  Members are removed in
between by `RemoveFromTeam` and `RemoveAssignees`, which waits for the same rows.  `sheet` is
the page of one member: its drawer, form and list.  `told`, `doubted`, `strayed` and
`crossed` are history variables with which the two properties say what the code does
guarantee; `strayed`, who was removed under a call that had checked him, lasts as long as his row.

### VaultRuntime

`grant` and `dblease` are what Vault has issued: until when, to which limit, under
which token.  `runtime` is the service: the call under way and since when, its timer,
and what it takes for the expiry of its token and its lease.  One clock for both; a
call takes effect at Vault at some moment between its beginning and its answer
(`When`), so that what the service counts from the answer may be late by the time of its
calls.  `service` chooses the backend or the auth service, which differ in the delay
before a renewal, in what they do after a failure and in when they count a new token.
`RuntimeTimes` says how far the times must be apart: those in the code
are (a minute, seconds, and leases of an hour).

### ProjectCards

`venture` is the row, of which `at` is `updatedAt` as a number; `desk` the page of each
OWNER or ADMIN: whether it is the projects page or the settings, the row it shows, the
card's mode with the base and the name that its form was filled with; `patch` its
requests, one of each kind, from `Asks` over `ReadPrevious`, the write and
`EmitUpdated` to the answer; `refetch` its load.  `Unheard` is what happens to the
answers of components that are gone.  `behind` is a history variable: pages that
missed a change, because a load failed or was not asked again
(`Revalidate`), an event was lost, or a failing notification kept it from being sent
(`NotifyFails`: `updateDetails` sends its event after its notices).

### MCWorkspace

The seventeen modules above share no state with each other in the model, so a product
of them would say nothing more than each alone.  `focus` chooses the one that moves;
the others keep their initial state, and the states of the parts add up.  All
the processes are named by the same two model values, so one permutation is the
symmetry of all parts.

### Common to all

Code outside `src/` is modelled from its use: Socket.IO rooms, order of delivery and
`connected`, the event loop, PostgreSQL.  It has no map entries of its own.

## 3. Runs

| Run | Instance | Shows |
|---|---|---|
| `refresh_safety` | 2 families of 1 user, 4 tokens, 2 requests, clock to 3 | chains, deadlines, replays, revocation |
| `refresh_live` | 3 tokens, clock to 1 | every request is answered |
| `refresh_grace` | 3 tokens | *violated*: see findings |
| `coordinator` | 3 operations, 2 projects, 2 keys | the coordinator implements `ResourceAccess`, wakes everybody, leaks nothing |
| `leases` | 2 tabs, 2 requests, 1 key | leases, rooms, writes |
| `leases_live` | 2 tabs, 1 request | the sweep gets its turn |
| `leases_removal` | 1 tab, 2 requests | *violated*: see findings |
| `task_board` | 3 tasks, 2 columns, 1 member, 2 requests | the board is implemented (so ranks stay dense), requests take effect, assignees are members |
| `board_copy` | 3 cards, 2 columns | the page follows the board, what is undone is undone |
| `workspace` | two actors in each of seventeen parts | status, notices, friendship, read marks, session, ownership, tokens, identities, fields, lists, keys, pictures, bells, suggestions, events, credentials, project cards |
| `vault_reauthentication` | one service, 20 units of time | *violated*: see findings |
| `friends_block` | 2 people | *violated*: see findings |

The properties are described where they are defined, in the last section of each
module, and each has in `PROJECT.json` a mutant, a plausible fault in the code
under which it fails.

Why the bounds are enough.  `refresh_safety`: four tokens allow a rotation in each
family or three in one, and a late request about the oldest token; two requests are
what a race needs; two families are what a replay that has to reach other sessions
needs; with a grace of 1, an idle time of 2 and an absolute time of 3, three ticks
reach every order of the three deadlines.  `RowsLeft` keeps a row free for every
request that may insert one, so no behaviour is cut off in the middle.
`refresh_live` is smaller because strong fairness is expensive; it still has two
replays that wait for each other.  `coordinator`: with three operations a writer
waits behind a reader while another reader comes; two projects with the same
key cover chains that cross projects.  `leases`: two tabs of one user cover the
distinction of socket and user, two requests every race of two handlers, to which
disconnects, expiry, sweeps and deletions come as actors of their own.
`task_board`: a rank changes with the cards above, so that three cards in two
columns give a move every relation to another; wanted ranks 0 and 1 reach the top,
the middle, the end and beyond.  `PeopleBound` keeps members and assignments to
boards of at most two cards, to which they have no other relation.  `board_copy`:
three cards have a middle; one request of this browser and one of others give every
overlap; with `MaxQueue` 0 a request waits until the events of the one before are
delivered, but not for that one's own end.  `workspace`: one block of two items
(a status in between) and a cap of 1 and 2 that two inserts race for; a section of two of
three rows; two tabs and two messages; two users with a session each; three people,
of whom one may own, one lead and one be a member of a project; two tokens under a
cap of 1, one of which may expire; two visits with one 42 subject and two addresses,
after at most two sign-ins started; two tabs that edit one label, with two leases and a
reconnection; two items and two requests on a page; a rotation, with four units of
time; two changes of an account with three pictures; two notifications in two bells;
three phrases, one of them too short; an event with two dates, two members and
two requests; twelve units of time, of which a margin is five and a call one, for two tokens and
three leases, one renewal and the beginning of the next; two managers of a project with two names and two
writes, that is one edit over another.  The parts other than `VaultRuntime` keep the backend as
its service, and the calendar's page is the same member's in all behaviours: the parts have nothing
to do with each other.  The constraints of `MCWorkspace` each
concern one part.  They bound what is on its way and how many actors are busy, and name
what is then not seen: `FewNews` has one event for the two pages of a friendship,
one page at a time reading profiles, and only what reads the rows again once both pages have
missed something; `FewEvents` two events and marks, one event at most, for the tabs
of a chat, and no tab offline while a mark is on its way; `FewMessages` three messages
between the tabs of an editing page and the server, one after the reconnection;
`FewNotes` two events, fetches and requests for the bells, of which always one is connected
with nothing to fetch once there is a notification; a bell in doubt is followed while it is offline,
and two requests overlap when both bells are up to date.
`FewSessions` has two of a refresh, a sign-in or sign-out and a request for a ticket
under way, and all three while the ticket waits for the refresh.  `FewTokens` gives the integration one of
the two tokens, and creates none beside its call; `FewAccounts` has two accounts, and a deletion or a lost race between
sign-ins but not both, with one sign-in with 42 or link beside a deletion; `FewIds` has three identifiers
of discovery blocks and items; `FewRows` follows one request to a section once its
last row has been created; `FewCalls` lets two
calls on an event overlap if they change dates or delete, with the members as they
are, or if both assign members of an event of the first day, where a removal crosses them after their checks; it closes
the drawer meanwhile, and while notices or a removal are under way, and follows nothing
once somebody is `doubted` or a date is `crossed`; `FewPatches` has one request of
each page to a project's row, follows no page that is behind,
nor a request beside one that failed, nor a load beside a conflict that is not shown yet, and after
the second write no page that writes while the
other loads; the page that does not own the project stays with its card.  What these
constraints leave out the theorems of section 4 cover: every invariant and action property of
`MCWorkspace` is proved without them.

CHECK_DEADLOCK is FALSE for the auth service (no more token rows and the clock at
its bound), for `FieldLocks` (everybody may be gone), for the boards (a page that is
`inexact` stops) and for `MCWorkspace` (identifiers run out); the coordinator is
checked for deadlock.

Symmetry is used only in the runs without temporal liveness properties, over sets
of model values that the definitions treat alike.

### Fairness

`RefreshFamilies`: strong fairness of a request's own steps, since PostgreSQL
grants a row lock in the order of its queue, and weak fairness of the deadlock
detector.  No fairness for arrivals, aborts, or the clock.
`ProjectCoordinator`: weak fairness of the continuations, since the event loop
runs every resolved promise; it includes that the operation of the caller settles,
which all of them do (database calls have timeouts).  `FieldLocks`: weak
fairness of the interval timer and of handlers that wait for the database, strong
fairness for what waits for the coordinator, justified by `EveryOperationRuns`.

### Findings

* `refresh_grace`: `docs/architecture/authentication-authorization.md` says that the
  previous token is tolerated for five seconds.  A rotation commits the deadline
  and a request that read the row before and waited for the lock decides without
  it: it is taken for a replay and all sessions of the user end.  `PROJECT.json`
  quotes the lines.
* `leases_removal`: a removal whose notification fails has deleted the member's row
  but keeps his room and his leases, and cannot be retried.
* `vault_reauthentication`: `authentication-authorization.md:429` says that a service
  renews leases before they expire and fails clearly if it cannot.  When a sign-in of `reauthenticate` succeeds and what
  follows it fails, the runtime goes on with the new token and the old lease,
  which Vault revokes with the old token: the pool stops working long before the
  expiry the runtime knows of.
* `friends_block`: somebody who blocks instead of answering a request is shown to
  the requester as a friend; `friendsApi.ts:143-149` says a block is unobservable.

Disagreements that the properties excuse, and that are not runs of their own: the
comments of `task-assignees.service.ts:24-34` (that the count in a Serializable
transaction keeps out people who are being removed; the removal is not Serializable:
`StraysOverlapped`), that of `KanbanBoard.tsx:284` (that the previews have left a card
dropped at its origin in its place; one previewed elsewhere in its column stays there: `inexact`),
and those named in section 2.

## 4. Proofs

`RefreshFamilies_proofs` proves, for any number of families, users, tokens and
requests and any times allowed by the assumptions, from `OwnerAssumption`,
`TimesAssumption` and `NoneAssumption` alone:

* `TypeCorrect`, by `TypedInv`, which adds to `TypeOK` that the row a request
  carries belongs to a family that exists (`KnownFamilies`);
* `ChainsStayLinear` and `DeadlinesAgree`, by `ChainInv`: with the two properties
  it says that a request which has locked its family sees the chain as it is;
* `ChainsNeverBreak`, by `GraceInv`: a replaced row, or a request's copy of one,
  lacks its ciphertext only if its grace window was over by then;
* `ChainsStayIntact`, the three together: `ChainsIntact` of the run `refresh_safety`;
* `ReplaysRevokeAll`, by `ReplayInv`: what a replay has locked, and what it has yet
  to lock, covers the live families of the user that committed before it;
* `RefreshesHandOutHeads`, `RevocationIsFinal` and the two together,
  `RotationsAreSound`: action properties that follow from the invariants above step by
  step.

`ProjectCoordinator_proofs` proves every safety property of the run
`coordinator`, of which `MapsFit` is `CoordinatorOfProject` and `NothingLeaks` together, for any finite set of operations and any projects, resources
and coordinator objects, from `NoneIsNoValue` and `FiniteOperations` (a counter
can only count finitely many readers):

* `TypeCorrect`, `CoordinatorStaysInMap` and `WritersAreNotOvertaken`, by
  `ProjectInv`.  Seen alone, none of them is inductive: whether the map may drop
  a coordinator depends on its counter, its flag and its queue, and these mean what
  they should only if `readerCount` is the number of readers let in, `writerActive`
  says that a writer is, alone, and the queue has exactly those that wait, once.
  `FrontSize` and `DrainShape` are the lemmas on data: `drain()` lets in
  an initial segment of a queue without repetitions, and raises the counter by its
  length;
* `NoLostWakeUp`, `MapsForget` and `CoordinatorImplementsAccess`, by
  `CoordinatorInv`, which adds `ChainsOrdered`: the members of a chain can be ranked
  so that `previous` is the next lower one, the tail the highest, and who
  waits for nobody the lowest.  It is why two operations that wait for nobody
  cannot be in one chain.  The refinement mapping `Seen` sends `Call` to `Ask`,
  `Run` to `Begin`, the return of the operation to `End` and all other steps to
  stuttering steps.

`FieldLocks_proofs` proves the safety of the run `leases` for any users,
connections, requests and rows, from `UsersAssumption` and
`NoneAssumption`.  Each step uses the one before:

* `ShapesHold` (`ShapeInv`): types, and that a request of a kind is at an await its
  handler has;
* `OperationsExclude`: from the condition of `ResourceAccess` alone, what runs together;
* `ConnectionsLeaveNothing` and `RoomsFollow`, together `ConnectionsFollow`, by
  `MembershipInv`: who is a member, or is being removed and by whom, for each point of a
  connection's setting up;
* `LeasesHaveConnections`, `NoLostUpdates` and `LeasesWellFounded`, by `RowsInv`: whoever
  writes has the lease it was checked against, because a release and a deletion need
  the resource, or the whole project, that the writer has.

`Projects_proofs`, without assumptions:

* `ProjectsHaveOneOwner` and `MembersWrittenWithAuthority`, by `ProjectsInv`.  `OwnersInv`
  counts what an orphaned project lacks; `LockInv` has the roles of two
  requests that the project's lock keeps apart; `TargetsInv` says what each has read.
* `DiscoveryStatusFollows`, by `DiscoveryInv`.  The property speaks of blocks that nobody
  works on; its invariant (`SettledInv`) of blocks somebody does: each transaction whose
  snapshot is out of date is one that will be refused, and the one that will not be
  has read the items as they are.
* `ChecklistCompletionAnnounced`, by `ChecklistInv`: whoever is `telling` has read an
  incomplete section and written a complete one, but for what others did between the two or since.
* `EventsSoundAlways` and `AssigneesKnowAlways`, by `CalendarInv`: what each call under way
  has read and checked of the dates (`DatesChecked`) and the people (`PeopleChecked`), and
  that for a member who is not `doubted`, what he shows and has been sent agrees with
  the rows (`Knows`).  An event's assignees are members, being removed, or `strayed`, also those
  whose rows the deletion of a replacement did not see.

`SignIn_proofs`, from `TokenNumbers` and `SigningBounds` (versions and times are numbers, and a
negative answer lasts):

* `ActiveTokensCapped` and `RevokedTokensStopWorking`, by `TokensInv`.  Cardinalities need
  the facts about finite sets: a creation that holds the advisory lock has counted no
  less than there are, because no other creation is between its count and its
  commit (`CapInv`).  `RevocationInv` follows an introspection that waits for the row.
* `SignedInToOwnAccount`, by `IdentitiesInv`: unique keys over committed rows and the
  inserts of open transactions, and what each visit has found.
* `DisownedBrieflyAlways`, by `SigningInv`: a version newer than those cached may not be looked
  for again only until a minute after it was `asked` for (`VersionsInv`), and what a call
  to check a token or to mint one may count on at each of its steps (`CallsInv`).

`Pages_proofs`, from `SearchableAssumption` and `LastNumber` (the number of messages is a number):

* `ConnectionsOfTheShown`, `ConnectionsKeepComing`, their conjunction
  `SessionsKeepConnections`, and `SignedOutSessionsStayOut`, by `BrowserInv`.  The functions
  of `realtimeSocket.ts` are operators on one record, and their lemmas say which parts
  each leaves alone.
* `PanelAnswersField`, by `SearchInv` (`FieldAsked`, `FieldAnswered`): every request not
  dropped asks for what is in the field.
* `AvatarsServed` and `HeadersShowAccounts`, together `AccountsShownAsTheyAre`, by
  `SettingsInv`: an object that a row names, or that a request is about to make it name, is not one
  that a request deletes.
* `ReadWasShownAlways`, by `ChatInv`: of what is on its way to a tab (`FeedSound`), of its
  list (`TabSound`) and of each mark under way (`MarksSound`), that what it will count as
  read has been shown, or was lost sight of in one of the four ways.
* `BellShowsRowsAlways`, by `BellInv`.  A list is `Faithful` if each of its rows is as in
  the table or an event that will put it right is still to come (`Right`), and if it lacks just what
  is gone or still to be announced.  Events make a faithful list faithful (`ApplyChange`,
  `ApplyNews`), and a page read while no news are under way is faithful until something is
  applied that it does not show; `PostSound` says of the events themselves that they are
  true, that news come once, and that changes made since the news were sent come behind them.

`ProjectCards_proofs`, from `TitlesAssumption` (there is a name) and `EditingBounds` (the
labels are finitely many):

* `EditsOverwriteWhatWasSeen`, by `CardsInv`.  Its `VersionsInv` says that every version
  a page shows, has in a form, has sent or has read in a load is at most the row's, and has
  its name if it is the row's: then a write whose `updatedAt` matches replaces the name
  that its form was filled with.
* `PagesFollowProject`.  `NewsInv` says what a page that is not up to date can count on: an
  event on its way or about to be sent, a load that has not read, the answer to its own
  deletion (`Coming`).
* `EditorHoldsLeaseAlways`, by `EditingInv`: what a row of the page will
  hold once the tab has heard the messages on their way to it (`WillHold`), if that is a lease,
  is what the server has given to this connection.  The property is the case of no messages;
  an answer makes it hold of the messages, and a message that is heard hands it on to the row.
* `ListFollowsItemsAlways`, by `ItemsInv`.  For each item (`ItemInv`), its latest change is
  known to the list or on its way to it (`ChangeKnown`); when the list shows the latest change
  it shows the item as it is, or an own request is under way that shows what is not so yet
  (`ListTells`); and an own request that nothing has touched since it was sent will put back
  what is so (`PutsBack`).  `ItemStays` and `ItemIsSet` are the two ways in which a
  step can leave an item, and each action is one or the other for each item.

`Services_proofs`, from `RuntimeTimes` (how far the times of `VaultRuntime` are apart),
`PairAssumption` (there are two people), `UnsetAssumption` (a value that is not given is not
a column, a user or a rank) and `InputsAssumption` (requests have the fields of their data
transfer objects; a creation names a column and a rank, both mandatory in `CreateTaskDto`):

* `CredentialsNeverPastExpiry`, by `RuntimeInv`.  `IssuedInv` bounds what Vault grants by
  its limit and by a period from the last call, so that a renewal never shortens;
  `CountedInv` says by how many calls each expiry that the service knows may be later than
  Vault's; `PunctualInv` how late each call of a renewal may begin: a failure is
  repeated only when there is more than a margin left, else it ends the service.
* `FriendshipsAreShown`, by `FriendsInv`.  As long as a page has missed nothing, every event
  and profile on its way says what the rows say (`OnItsWay`), what its own request will
  apply is what the rows say (`OwnErrand`), and without a request it shows the rows or
  is about to be told (`AboutToShow`).  A commit makes a page `missed` only for what
  `Misses` names, so each kind of change is followed beside whatever the other page has asked.
* `TaskBoardStrays`, `TaskBoardTakesEffect`, `TaskBoardColumns` and `TaskBoardImplements`, the
  refinement of `ColumnBoard`, by `TaskInv` (`TaskBoardInductive`).  The ranks of every column
  are 0..n-1, each once (`RanksDense`); what a request is and what it has met fit
  (`Consistent`), and the rows and members it has read are still so unless another commit has doomed it
  (`Abreast`); a task about to be created is known to its own request only (`Exclusive`).
  All shifts of ranks are two: a card taken out (`TakenOut`, `closeRankGap`) and one put in
  (`PutIn`, `openRankSlot`), a move being one after the other.  A transaction works on
  the columns it has read (`Shown`) and its commit replaces just these (`Replaced`), so
  that what others have read of other columns stands.  As the n ranks of a column are
  different numbers below n, each of 0..n-1 is one of them (`RankTaken`), and `Column` has a
  value at every place; then taken out and put in are `TakeOut`, `Insert` and `Move` of
  `ColumnBoard`.

Each inductive invariant is proved with one lemma per action (or per kind of action,
where several change the same parts), after TLC has checked it on a small instance.

Only model-checked:

* liveness (`Answered`, `EveryOperationRuns`, `ExpiredLeasesGo`): fairness is beyond the
  prover;
* of `BoardCopy`, `CopyFollowsBoard` and `UndoneIsUndone`: what a page shows is a chain of
  gestures, answers and events, over ranks that need not be dense, and its invariant has to say
  of every state between a commit and its last event what remains to be shown.

## 5. What is left

What is modelled is listed in section 2.  What could be proved next are the two properties
of `BoardCopy`, from what `TaskBoardImplements` says of the board.

No module declares a RECURSIVE operator, so each of them can be proved about.

## 6. Not modelled, and why

* Categories, profile reads, presence, search queries: single statements or reads
  behind a membership check.
* Rate limits and password slots: counters under one mutex.
* The limit of 1024 projects; it is counted and enforced as the caps of blocks and
  items are, which are modelled.
* The unread badges (`chatUnreadState.ts`, the friend count): what they count is in
  `ChatReads` and `Friends`.
* The stateless checks of a request (`auth.guard.ts`, `origin-policy.ts`), formats of
  cookies, tokens and keys, cryptography.
* Rendering, styles, filters, dates, parsing of forms; seeds, scripts, schema, nginx
  and deployment.
