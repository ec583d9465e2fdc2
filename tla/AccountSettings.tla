------------------------------ MODULE AccountSettings ------------------------------
(***************************************************************************)
(* The settings page of an account (user-settings.tsx): a new name, a new  *)
(* picture, the deletion of the account; against the row in the database   *)
(* and the object store (users.service.ts, storage.service.ts), while      *)
(* other devices of the same account do the same.  The header of the page  *)
(* takes name and picture from the session (authState.ts), which is        *)
(* patched after each save and replaced by every refresh.                  *)
(*                                                                         *)
(* A picture is the key of its object; every upload has a key of its own.  *)
(* The dialogs, the checks of the file and the unique names of other       *)
(* accounts are left out: a request may be refused.                        *)
(***************************************************************************)
EXTENDS Integers

CONSTANTS Senders,      \* slots for requests under way
          MaxPictures,  \* keys made
          MaxNames, MaxChanges

Pictures == 1..MaxPictures
NoPicture == 0
External == -1          \* a picture of the 42 profile, on another server
Names == 0..MaxNames

VARIABLES account,      \* the row: there or not, its name and picture
          objects,      \* keys in the object store
          made,         \* keys made so far
          task, changes,  \* requests under way, and so far
          header,       \* name and picture of the session, while it lasts
          shownUser,    \* what the loader of the page has read
          renewal,      \* a refresh of the session under way
          disturbed     \* history: a change the page cannot know of

profilePage == <<account, objects, made, task, changes, header, shownUser, renewal, disturbed>>

NoTask == [op |-> "none", phase |-> "none"]
SignedOut == [name |-> -1, picture |-> NoPicture]
NoRefresh == [at |-> "none", row |-> SignedOut, clean |-> TRUE]
Profile == [name |-> account.name, picture |-> account.picture]
SignedIn == header # SignedOut

\* Variant with the fault of one object per user.
FixedSlot == 1

NewKey == made + 1

\* Variant with the fault of a session that takes the whole user of an answer.
WholeUser(r) == r.row

(* The session after an answer: only the field that was saved. *)
Patched(r) == IF r.op = "upload" THEN [header EXCEPT !.picture = r.row.picture]
              ELSE [header EXCEPT !.name = r.row.name]

-----------------------------------------------------------------------------
(* The page: one request of each kind at a time, until the page has been     *)
(* loaded again; a name that is the shown one is not sent.                   *)
Requested(s, op, own, name) ==
    /\ task[s] = NoTask /\ changes < MaxChanges /\ changes' = changes + 1
    /\ own => SignedIn /\ \A o \in Senders : ~(task[o].op = op /\ task[o].own)
    /\ task' = [task EXCEPT ![s] = [op |-> op, own |-> own, name |-> name, phase |-> "sent",
                                    old |-> NoPicture, key |-> NoPicture, row |-> SignedOut]]
    /\ UNCHANGED <<account, objects, made, header, shownUser, renewal, disturbed>>
HandleUpload(s) == Requested(s, "upload", TRUE, 0)
HandleSaveChanges(s) == \E n \in Names \ {shownUser.name} : Requested(s, "rename", TRUE, n)
HandleDeleteAccount(s) == Requested(s, "close", TRUE, 0)
OtherDevice(s) ==
    \/ \E op \in {"upload", "remove", "close"} : Requested(s, op, FALSE, 0)
    \/ \E n \in Names \ {account.name} : Requested(s, "rename", FALSE, n)

-----------------------------------------------------------------------------
(* The backend.  An upload and a removal begin by reading the picture there is. *)
Served == UNCHANGED <<changes, header, shownUser>>
FindUser(s) ==
    /\ task[s].phase = "sent" /\ task[s].op \in {"upload", "remove"} /\ account.there
    /\ task' = [task EXCEPT ![s].old = account.picture,
                            ![s].phase = CASE task[s].op = "upload" -> "store"
                                           [] task[s].op = "remove" /\ account.picture = NoPicture -> "done"
                                           [] OTHER -> "write"]
    /\ UNCHANGED <<account, objects, made, renewal, disturbed>> /\ Served
UploadObject(s) ==
    /\ task[s].phase = "store" /\ made < MaxPictures /\ made' = made + 1
    /\ objects' = objects \cup {NewKey}
    /\ task' = [task EXCEPT ![s].key = NewKey, ![s].phase = "write"]
    /\ UNCHANGED <<account, renewal, disturbed>> /\ Served

(* The row is changed in one statement, whose result is the answer; a change *)
(* from elsewhere the page does not hear of.                                 *)
Writes(s, changed, phase) ==
    /\ account.there /\ account' = changed
    /\ task' = [task EXCEPT ![s].phase = phase, ![s].row = [name |-> changed.name, picture |-> changed.picture]]
    /\ renewal' = [renewal EXCEPT !.clean = FALSE]
    /\ disturbed' = (disturbed \/ ~task[s].own)
    /\ UNCHANGED <<objects, made>> /\ Served
UpdatePicture(s) ==
    /\ task[s].phase = "write"
    /\ Writes(s, [account EXCEPT !.picture = task[s].key], IF task[s].old = NoPicture THEN "done" ELSE "clean")
UpdateName(s) ==
    /\ task[s].phase = "sent" /\ task[s].op = "rename"
    /\ Writes(s, [account EXCEPT !.name = task[s].name], "done")
RemoveAccount(s) ==
    /\ task[s].phase = "sent" /\ task[s].op = "close"
    /\ Writes(s, [account EXCEPT !.there = FALSE], "done")

(* deleteObject of the picture that was read at the beginning. *)
DeleteObject(s) ==
    /\ task[s].phase = "clean"
    /\ objects' = objects \ {task[s].old}
    /\ task' = [task EXCEPT ![s].phase = "done"]
    /\ UNCHANGED <<account, made, renewal, disturbed>> /\ Served

(* A refusal, no row any more, or a failure, also one of the object store    *)
(* after the row was changed; and an answer that is lost.                    *)
FailTask(s) ==
    /\ task[s].phase \in {"sent", "store", "write", "clean", "done"}
    /\ task' = [task EXCEPT ![s].phase = "failed"]
    /\ disturbed' = (disturbed \/ task[s].phase \in {"clean", "done"})
    /\ UNCHANGED <<account, objects, made, renewal>> /\ Served

-----------------------------------------------------------------------------
(* The answers, while the session lasts: it is patched and the page loaded   *)
(* again, or it ends with the account; after a 401 it ends, too.             *)
UploadOrNameSaved(s) ==
    /\ task[s].phase = "done" /\ task[s].own /\ task[s].op # "close"
    /\ header' = IF SignedIn THEN Patched(task[s]) ELSE header
    /\ task' = [task EXCEPT ![s].phase = "reload"]
    /\ UNCHANGED <<account, objects, made, changes, shownUser, renewal, disturbed>>
AccountDeleted(s) ==
    /\ task[s].phase = "done" /\ task[s].own /\ task[s].op = "close"
    /\ header' = SignedOut /\ task' = [task EXCEPT ![s] = NoTask]
    /\ UNCHANGED <<account, objects, made, changes, shownUser, renewal, disturbed>>
Refused(s) ==
    /\ task[s].phase = "failed" /\ task[s].own
    /\ header' = header \/ (task[s].op # "rename" /\ header' = SignedOut)
    /\ task' = [task EXCEPT ![s] = NoTask]
    /\ UNCHANGED <<account, objects, made, changes, shownUser, renewal, disturbed>>
OtherDeviceAnswered(s) ==
    /\ task[s].phase \in {"done", "failed"} /\ ~task[s].own
    /\ task' = [task EXCEPT ![s] = NoTask]
    /\ UNCHANGED <<account, objects, made, changes, header, shownUser, renewal, disturbed>>

(* getMe of the loader, whose failure leaves what was shown. *)
GetMe(s) ==
    /\ task[s].phase = "reload" /\ account.there
    /\ task' = [task EXCEPT ![s].phase = "loaded", ![s].row = Profile]
    /\ UNCHANGED <<account, objects, made, changes, header, shownUser, renewal, disturbed>>
Reloaded(s) ==
    /\ task[s].phase \in {"reload", "loaded"}
    /\ shownUser' = IF task[s].phase = "loaded" THEN task[s].row ELSE shownUser
    /\ task' = [task EXCEPT ![s] = NoTask]
    /\ UNCHANGED <<account, objects, made, changes, header, renewal, disturbed>>

(* A refresh of the session brings the user as he was when it was served, or *)
(* fails and ends the session.                                               *)
RefreshRead ==
    /\ SignedIn /\ account.there /\ renewal.at = "none"
    /\ renewal' = [at |-> "read", row |-> Profile, clean |-> TRUE]
    /\ UNCHANGED <<account, objects, made, task, changes, header, shownUser, disturbed>>
RefreshPublished ==
    /\ renewal.at = "read" /\ renewal' = NoRefresh
    /\ header' \in IF SignedIn THEN {renewal.row, SignedOut} ELSE {header}
    /\ disturbed' = (~renewal.clean \/ (disturbed /\ \E s \in Senders : task[s] # NoTask))
    /\ UNCHANGED <<account, objects, made, task, changes, shownUser>>

-----------------------------------------------------------------------------
AccountsInit ==
    /\ account \in [there : {TRUE}, name : {0}, picture : {NoPicture, External, 1}]
    /\ objects = {1} /\ made = 1 /\ changes = 0 /\ disturbed = FALSE
    /\ header = Profile /\ shownUser = header /\ renewal = NoRefresh
    /\ task = [s \in Senders |-> NoTask]

AccountsNext ==
    \/ \E s \in Senders :
          \/ HandleUpload(s) \/ HandleSaveChanges(s) \/ HandleDeleteAccount(s) \/ OtherDevice(s)
          \/ FindUser(s) \/ UploadObject(s) \/ UpdatePicture(s) \/ UpdateName(s) \/ RemoveAccount(s)
          \/ DeleteObject(s) \/ FailTask(s)
          \/ UploadOrNameSaved(s) \/ AccountDeleted(s) \/ Refused(s) \/ OtherDeviceAnswered(s)
          \/ GetMe(s) \/ Reloaded(s)
    \/ RefreshRead \/ RefreshPublished

AccountsSpec == AccountsInit /\ [][AccountsNext]_profilePage

-----------------------------------------------------------------------------
(* The picture that the row names can be loaded: uploads and removals of     *)
(* several devices, each of which deletes the picture it found at first, and *)
(* failures between their steps never take it away.                          *)
AvatarServed == account.there /\ account.picture \in Pictures => account.picture \in objects

(* A name and a picture saved at once by one page do not undo each other in  *)
(* its header, in whichever order they are answered: with no request of the  *)
(* pages under way it shows what is in the row.  The exceptions are changes  *)
(* the page is not told of: other devices, failures after the change, and a  *)
(* refresh that was served before a change and answers after it.             *)
HeaderShowsAccount ==
    SignedIn /\ account.there /\ (\A s \in Senders : task[s] = NoTask) => disturbed \/ header = Profile

(* Both: the account as others and its own page see it.                      *)
AccountShown == AvatarServed /\ HeaderShowsAccount
=============================================================================
