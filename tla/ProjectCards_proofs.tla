--------------------------- MODULE ProjectCards_proofs ---------------------------
(***************************************************************************)
(* Proofs about three pages, for any number of tabs, rows, requests and    *)
(* messages: the managers' pages about a project (ProjectCards), the rows  *)
(* of the evaluation checklist with their leases (EditingPage), and the    *)
(* lists of check boxes (ItemsPage).                                       *)
(***************************************************************************)
EXTENDS ProjectCards, EditingPage, ItemsPage, FiniteSetTheorems, TLAPS


CardPhases == {"sent", "read", "written", "told", "reloading", "refused", "stale", "failed"}
CardModes == {"view", "editing", "conflict", "confirming"}
CardRows == [name: Titles, finished: BOOLEAN, archived: BOOLEAN, at: Nat]
CardDesks == [at: {"projects", "settings"}, all: BOOLEAN, sees: CardRows, mode: CardModes,
              base: Nat, filled: Titles]
SentPatches == [phase: CardPhases, here: BOOLEAN, page: {"projects", "settings"},
                to: Titles \cup BOOLEAN, base: Nat, filled: Titles, previous: Titles]
\* What a change asks for: another name, the other status, nothing.
Targets(op) == IF op = "details" THEN Titles ELSE BOOLEAN
PatchTables == [Patches -> {NoPatch} \cup SentPatches]
CardLoads == {NoLoad, [at |-> "asked"]} \cup [at: {"answered"}, row: CardRows]

CardsTypeOK ==
    /\ venture \in CardRows
    /\ desk \in [Desks -> CardDesks]
    /\ patch \in [Desks -> PatchTables]
    /\ rumor \in [Desks -> Seq(BOOLEAN)]
    /\ refetch \in [Desks -> CardLoads]
    /\ behind \subseteq Desks

\* A version and a name that go together: no later than the row, and of the
\* same name if of the same version.  All versions are gone with the row.
SameName(v, at, name) == v.at = 0 \/ (at <= v.at /\ (at = v.at => name = v.name))

\* What pages show, have read, edit and have sent are versions with their names.
VersionsInv ==
    /\ venture.at = 0 => venture = Deleted
    /\ \A p \in Desks :
        /\ SameName(venture, desk[p].sees.at, desk[p].sees.name)
        /\ SameName(venture, desk[p].base, desk[p].filled)
        /\ refetch[p].at = "answered" => SameName(venture, refetch[p].row.at, refetch[p].row.name)
        /\ \A op \in Patches : patch[p][op] # NoPatch =>
              /\ SameName(venture, patch[p][op].base, patch[p][op].filled)
              /\ patch[p][op].to \in Targets(op)

\* What will make a page load again: an event on its way or about to be sent,
\* a load that has not read yet, the answer to its own deletion.
Coming(p) ==
    \/ rumor[p] # <<>>
    \/ refetch[p].at = "asked"
    \/ \E q \in Desks, op \in Patches : patch[q][op].phase = "written" /\ p \in Audience(q, op)
    \/ patch[p]["delete"].phase \in {"written", "told"}

\* With nothing to come, a page shows the row, or is about to.
NewsInv ==
    \A p \in Desks :
        \/ p \in behind \/ Coming(p)
        \/ IF refetch[p].at = "answered" THEN refetch[p].row = venture ELSE desk[p].sees = venture

CardsInv == CardsTypeOK /\ VersionsInv /\ NewsInv

-----------------------------------------------------------------------------
\* The row that is gone has every type of a row.
LEMMA DeletedIsRow == Deleted \in CardRows
BY TitlesAssumption DEF Deleted, CardRows

\* The initial states satisfy the invariant.
LEMMA CardsInitially == CardsInit => CardsInv
<1> SUFFICES ASSUME CardsInit PROVE CardsInv
  OBVIOUS
<1>1. /\ Deleted \in CardRows /\ venture \in CardRows /\ venture.name = Deleted.name /\ venture.at = 1
  BY DeletedIsRow DEF CardsInit, CardRows
<1>2. CardsTypeOK
  BY <1>1 DEF CardsInit, CardsTypeOK, CardDesks, CardModes, CardLoads, CardRows, PatchTables
<1>3. ASSUME NEW p \in Desks
      PROVE  /\ desk[p].sees = venture /\ desk[p].base = 0 /\ refetch[p].at = "none"
             /\ \A op \in Patches : patch[p][op] = NoPatch
  BY DEF CardsInit, NoLoad
<1>6. VersionsInv
  <2> SUFFICES ASSUME NEW p \in Desks
               PROVE  /\ SameName(venture, desk[p].sees.at, desk[p].sees.name)
                      /\ SameName(venture, desk[p].base, desk[p].filled)
                      /\ refetch[p].at = "answered" => SameName(venture, refetch[p].row.at, refetch[p].row.name)
                      /\ \A op \in Patches : patch[p][op] # NoPatch =>
                            /\ SameName(venture, patch[p][op].base, patch[p][op].filled)
                            /\ patch[p][op].to \in Targets(op)
    BY <1>1 DEF VersionsInv
  <2>1. SameName(venture, desk[p].sees.at, desk[p].sees.name)
    BY <1>1, <1>3 DEF SameName
  <2>2. SameName(venture, desk[p].base, desk[p].filled)
    BY <1>1, <1>3 DEF SameName
  <2>3. QED BY <1>3, <2>1, <2>2
<1>4. NewsInv
  BY <1>1 DEF CardsInit, NewsInv, NoLoad
<1>5. QED BY <1>2, <1>4, <1>6 DEF CardsInv

\* The table of a page's requests whose components are gone: it has the same
\* requests at the same points.
LEMMA UnheardSame ==
    ASSUME NEW rs \in PatchTables
    PROVE  /\ Unheard(rs) \in PatchTables
           /\ \A op \in Patches :
                 /\ Unheard(rs)[op] = NoPatch <=> rs[op] = NoPatch
                 /\ Unheard(rs)[op].phase = rs[op].phase
                 /\ rs[op] # NoPatch => /\ Unheard(rs)[op].base = rs[op].base
                                        /\ Unheard(rs)[op].filled = rs[op].filled
                                        /\ Unheard(rs)[op].to = rs[op].to
<1>1. ASSUME NEW op \in Patches
      PROVE  /\ Unheard(rs)[op] \in {NoPatch} \cup SentPatches
             /\ Unheard(rs)[op] = NoPatch <=> rs[op] = NoPatch
             /\ Unheard(rs)[op].phase = rs[op].phase
             /\ rs[op] # NoPatch => /\ Unheard(rs)[op].base = rs[op].base
                                    /\ Unheard(rs)[op].filled = rs[op].filled
                                    /\ Unheard(rs)[op].to = rs[op].to
  <2>1. CASE rs[op] = NoPatch
    BY <2>1 DEF Unheard
  <2>2. CASE rs[op] # NoPatch
    <3>1. rs[op] \in SentPatches
      BY <2>2 DEF PatchTables
    <3>2. PICK n : n = [rs[op] EXCEPT !.here = FALSE]
      OBVIOUS
    <3>3. Unheard(rs)[op] = n
      BY <2>2, <3>2 DEF Unheard
    <3>4. /\ n \in SentPatches /\ n.phase = rs[op].phase /\ n.base = rs[op].base /\ n.filled = rs[op].filled
          /\ n.to = rs[op].to
          /\ n.here = FALSE
      BY <3>1, <3>2 DEF SentPatches
    <3>5. n # NoPatch
      BY <3>4 DEF NoPatch, SentPatches
    <3>6. QED BY <2>2, <3>3, <3>4, <3>5
  <2>3. QED BY <2>1, <2>2
<1>2. Unheard(rs) \in PatchTables
  BY <1>1 DEF Unheard, PatchTables
<1>3. QED BY <1>1, <1>2

\* A request goes to its next point and stays what it is otherwise.
LEMMA PhaseSets ==
    ASSUME CardsTypeOK, NEW p \in Desks, NEW op \in Patches, NEW ph \in CardPhases,
           patch[p][op].phase # "none", Phase(p, op, ph)
    PROVE  /\ patch' \in [Desks -> PatchTables]
           /\ \A q \in Desks, o \in Patches : q # p \/ o # op => patch'[q][o] = patch[q][o]
           /\ patch[p][op] \in SentPatches /\ patch'[p][op] \in SentPatches
           /\ patch'[p][op].phase = ph
           /\ patch'[p][op].base = patch[p][op].base /\ patch'[p][op].filled = patch[p][op].filled
           /\ patch'[p][op].to = patch[p][op].to
<1>1. patch[p] \in PatchTables /\ patch[p][op] \in SentPatches
  BY DEF CardsTypeOK, PatchTables, NoPatch
<1>2. PICK n : n = [patch[p][op] EXCEPT !.phase = ph]
  OBVIOUS
<1>3. n \in SentPatches /\ n.phase = ph /\ n.base = patch[p][op].base /\ n.filled = patch[p][op].filled
      /\ n.to = patch[p][op].to
  BY <1>1, <1>2 DEF SentPatches
<1>4. patch' = [patch EXCEPT ![p] = [patch[p] EXCEPT ![op] = n]]
  BY <1>2 DEF Phase
<1>5. [patch[p] EXCEPT ![op] = n] \in PatchTables
  BY <1>1, <1>3 DEF PatchTables
<1>6. QED BY <1>1, <1>3, <1>4, <1>5 DEF CardsTypeOK, PatchTables

\* A version of a row and its name still go together after a step of the row.
LEMMA SameNameStays ==
    ASSUME NEW v \in CardRows, NEW w \in CardRows,
           w = v \/ w.at = 0 \/ (v.at # 0 /\ w.at = v.at + 1),
           NEW a \in Nat, NEW name, SameName(v, a, name)
    PROVE  SameName(w, a, name)
<1>1. v.at \in Nat /\ w.at \in Nat
  BY DEF CardRows
<1>2. CASE w = v
  BY <1>2
<1>3. CASE w.at = 0
  BY <1>3 DEF SameName
<1>4. CASE v.at # 0 /\ w.at = v.at + 1
  BY <1>1, <1>4 DEF SameName
<1>5. QED BY <1>2, <1>3, <1>4

\* Versions keep their names in a step that takes each from where one was, or
\* from the row that is not written.
LEMMA VersionsKept ==
    ASSUME CardsTypeOK, CardsTypeOK', VersionsInv,
           venture' = venture \/ venture' = Deleted \/ (venture.at # 0 /\ venture'.at = venture.at + 1),
           \A p \in Desks :
              /\ \/ desk'[p].sees = desk[p].sees
                 \/ refetch[p].at = "answered" /\ desk'[p].sees = refetch[p].row
              /\ \/ desk'[p].base = desk[p].base /\ desk'[p].filled = desk[p].filled
                 \/ desk'[p].base = 0
                 \/ desk'[p].base = desk[p].sees.at /\ desk'[p].filled = desk[p].sees.name
              /\ \/ refetch'[p].at # "answered"
                 \/ refetch'[p] = refetch[p]
                 \/ venture' = venture /\ refetch'[p].row = venture
              /\ \A op \in Patches : patch'[p][op] # NoPatch =>
                    \/ /\ patch[p][op] # NoPatch
                       /\ patch'[p][op].base = patch[p][op].base /\ patch'[p][op].filled = patch[p][op].filled
                       /\ patch'[p][op].to = patch[p][op].to
                    \/ patch'[p][op].base = desk[p].base /\ patch'[p][op].filled = desk[p].filled
                       /\ patch'[p][op].to \in Targets(op)
    PROVE  VersionsInv'
<1> DEFINE Named(p) ==
                /\ SameName(venture', desk'[p].sees.at, desk'[p].sees.name)
                /\ SameName(venture', desk'[p].base, desk'[p].filled)
                /\ refetch'[p].at = "answered" => SameName(venture', refetch'[p].row.at, refetch'[p].row.name)
                /\ \A op \in Patches : patch'[p][op] # NoPatch =>
                      /\ SameName(venture', patch'[p][op].base, patch'[p][op].filled)
                      /\ patch'[p][op].to \in Targets(op)
<1>0. venture' = venture \/ venture'.at = 0 \/ (venture.at # 0 /\ venture'.at = venture.at + 1)
  BY DEF Deleted
<1>13. venture'.at = 0 => venture' = Deleted
  BY DEF VersionsInv, CardsTypeOK, CardRows
<1> SUFFICES ASSUME NEW p \in Desks PROVE Named(p)
  BY <1>13 DEF VersionsInv
<1>1. venture \in CardRows /\ venture' \in CardRows /\ desk[p].sees \in CardRows /\ desk[p].base \in Nat
  BY DEF CardsTypeOK, CardDesks
<1>2. /\ desk[p].sees.at \in Nat
      /\ refetch[p].at = "answered" => refetch[p].row \in CardRows /\ refetch[p].row.at \in Nat
      /\ \A op \in Patches : patch[p][op] # NoPatch => patch[p][op].base \in Nat
  <2>1. desk[p].sees.at \in Nat
    BY <1>1 DEF CardRows
  <2>2. refetch[p].at = "answered" => refetch[p].row \in CardRows /\ refetch[p].row.at \in Nat
    <3>1. refetch[p] \in CardLoads
      BY DEF CardsTypeOK
    <3>2. refetch[p].at = "answered" => refetch[p] \in [at: {"answered"}, row: CardRows]
      BY <3>1 DEF CardLoads, NoLoad
    <3>3. QED BY <3>2 DEF CardRows
  <2>3. \A op \in Patches : patch[p][op] # NoPatch => patch[p][op].base \in Nat
    BY DEF CardsTypeOK, PatchTables, SentPatches
  <2>4. QED BY <2>1, <2>2, <2>3
<1>3. /\ SameName(venture', desk[p].sees.at, desk[p].sees.name)
      /\ SameName(venture', desk[p].base, desk[p].filled)
  BY <1>0, <1>1, <1>2, SameNameStays DEF VersionsInv
<1>4. refetch[p].at = "answered" => SameName(venture', refetch[p].row.at, refetch[p].row.name)
  BY <1>0, <1>1, <1>2, SameNameStays DEF VersionsInv
<1>5. \A op \in Patches : patch[p][op] # NoPatch => SameName(venture', patch[p][op].base, patch[p][op].filled)
  BY <1>0, <1>1, <1>2, SameNameStays DEF VersionsInv
<1>6. SameName(venture', desk'[p].sees.at, desk'[p].sees.name)
  BY <1>3, <1>4
<1>7. SameName(venture', desk'[p].base, desk'[p].filled)
  <2>1. desk'[p].base = 0 => SameName(venture', desk'[p].base, desk'[p].filled)
    BY <1>1 DEF SameName, CardRows
  <2>2. QED BY <1>3, <2>1
<1>8. refetch'[p].at = "answered" => SameName(venture', refetch'[p].row.at, refetch'[p].row.name)
  <2>1. SameName(venture, venture.at, venture.name)
    BY <1>1 DEF SameName, CardRows
  <2>2. QED BY <1>4, <2>1
<1>9. \A op \in Patches : patch'[p][op] # NoPatch => SameName(venture', patch'[p][op].base, patch'[p][op].filled)
  BY <1>3, <1>5
<1>10. \A op \in Patches : patch'[p][op] # NoPatch => patch'[p][op].to \in Targets(op)
  BY DEF VersionsInv
<1>11. QED BY <1>6, <1>7, <1>8, <1>9, <1>10

\* A step that loses no news: what was to come still comes.
LEMMA QuietNews ==
    ASSUME NewsInv, venture' = venture, behind \subseteq behind', rumor' = rumor, refetch' = refetch,
           \A p \in Desks : desk'[p].sees = desk[p].sees,
           \A q \in Desks, op \in Patches :
              /\ patch[q][op].phase = "written" => patch'[q][op].phase = "written"
              /\ op = "delete" /\ patch[q][op].phase = "told" => q \in behind' \/ patch'[q][op].phase = "told"
    PROVE  NewsInv'
<1> SUFFICES ASSUME NEW p \in Desks
             PROVE  \/ p \in behind' \/ Coming(p)'
                    \/ IF refetch'[p].at = "answered" THEN refetch'[p].row = venture' ELSE desk'[p].sees = venture'
  BY DEF NewsInv
<1>1. Coming(p) => Coming(p)' \/ p \in behind'
  <2>1. ASSUME NEW q \in Desks, NEW op \in Patches, patch[q][op].phase = "written", p \in Audience(q, op)
        PROVE  Coming(p)'
    BY <2>1 DEF Coming, Audience
  <2>2. "delete" \in Patches
    BY DEF Patches
  <2>3. QED BY <2>1, <2>2 DEF Coming
<1>2. QED BY <1>1 DEF NewsInv

-----------------------------------------------------------------------------
\* A card or settings that forget their state show the same row.
LEMMA PlainDesk ==
    ASSUME NEW d \in CardDesks
    PROVE  /\ Plain(d) \in CardDesks
           /\ Plain(d).sees = d.sees /\ Plain(d).base = 0 /\ Plain(d).at = d.at
<1>1. Deleted.name \in Titles
  BY DeletedIsRow DEF CardRows
<1>2. QED BY <1>1 DEF Plain, CardDesks, CardModes

\* The requests of all pages, when one page may have forgotten its own.
LEMMA UnheardPatch ==
    ASSUME CardsTypeOK, NEW p \in Desks, patch' = patch \/ patch' = [patch EXCEPT ![p] = Unheard(@)]
    PROVE  /\ patch' \in [Desks -> PatchTables]
           /\ \A q \in Desks, op \in Patches :
                 /\ patch'[q][op].phase = patch[q][op].phase
                 /\ patch'[q][op] # NoPatch =>
                       /\ patch[q][op] # NoPatch
                       /\ patch'[q][op].base = patch[q][op].base /\ patch'[q][op].filled = patch[q][op].filled
                       /\ patch'[q][op].to = patch[q][op].to
<1>1. CASE patch' = patch
  BY <1>1 DEF CardsTypeOK
<1>2. CASE patch' = [patch EXCEPT ![p] = Unheard(@)]
  <2>1. patch \in [Desks -> PatchTables] /\ patch[p] \in PatchTables
    BY DEF CardsTypeOK
  <2>2. PICK u : u = Unheard(patch[p])
    OBVIOUS
  <2>3. /\ u \in PatchTables
        /\ \A op \in Patches :
              /\ u[op] = NoPatch <=> patch[p][op] = NoPatch
              /\ u[op].phase = patch[p][op].phase
              /\ patch[p][op] # NoPatch => u[op].base = patch[p][op].base /\ u[op].filled = patch[p][op].filled
                                           /\ u[op].to = patch[p][op].to
    BY <2>1, <2>2, UnheardSame
  <2>4. patch' = [patch EXCEPT ![p] = u]
    BY <1>2, <2>2
  <2>5. QED BY <2>1, <2>3, <2>4
<1>3. QED BY <1>1, <1>2

\* What a user does on a page without asking the backend.
LEMMA DeskStep ==
    ASSUME CardsInv, NEW p \in Desks, NEW d \in CardDesks, desk' = [desk EXCEPT ![p] = d],
           d.sees = desk[p].sees,
           \/ d.base = desk[p].base /\ d.filled = desk[p].filled
           \/ d.base = 0
           \/ d.base = desk[p].sees.at /\ d.filled = desk[p].sees.name,
           patch' = patch \/ patch' = [patch EXCEPT ![p] = Unheard(@)],
           UNCHANGED <<venture, rumor, refetch, behind>>
    PROVE  CardsInv'
<1>1. CardsTypeOK /\ VersionsInv /\ NewsInv
  BY DEF CardsInv
<1>2. /\ patch' \in [Desks -> PatchTables]
      /\ \A q \in Desks, op \in Patches :
            /\ patch'[q][op].phase = patch[q][op].phase
            /\ patch'[q][op] # NoPatch =>
                  /\ patch[q][op] # NoPatch
                  /\ patch'[q][op].base = patch[q][op].base /\ patch'[q][op].filled = patch[q][op].filled
                  /\ patch'[q][op].to = patch[q][op].to
  BY <1>1, UnheardPatch
<1>3. CardsTypeOK'
  BY <1>1, <1>2 DEF CardsTypeOK
<1>4. ASSUME NEW q \in Desks
      PROVE  /\ desk'[q].sees = desk[q].sees
             /\ \/ desk'[q].base = desk[q].base /\ desk'[q].filled = desk[q].filled
                \/ desk'[q].base = 0
                \/ desk'[q].base = desk[q].sees.at /\ desk'[q].filled = desk[q].sees.name
  BY <1>1 DEF CardsTypeOK
<1>5. VersionsInv'
  BY <1>1, <1>2, <1>3, <1>4, VersionsKept
<1>6. NewsInv'
  BY <1>1, <1>2, <1>4, QuietNews
<1>7. QED BY <1>3, <1>5, <1>6 DEF CardsInv

\* A page is left, or its cards are filtered.
LEMMA ElsewhereStep == ASSUME CardsInv, NEW p \in Desks, Elsewhere(p) PROVE CardsInv'
<1>1. desk \in [Desks -> CardDesks] /\ desk[p] \in CardDesks
  BY DEF CardsInv, CardsTypeOK
<1>2. PICK n : n = Plain(desk[p])
  OBVIOUS
<1>3. n \in CardDesks /\ n.sees = desk[p].sees /\ n.base = 0
  BY <1>1, <1>2, PlainDesk
<1>4. PICK d : d = [n EXCEPT !.all = FALSE, !.at = IF desk[p].at = "projects" THEN "settings" ELSE "projects"]
  OBVIOUS
<1>5. d \in CardDesks /\ d.sees = desk[p].sees /\ d.base = 0
  BY <1>3, <1>4 DEF CardDesks
<1>6. desk' = [desk EXCEPT ![p] = d]
  BY <1>2, <1>4 DEF Elsewhere
<1>7. QED BY <1>5, <1>6, DeskStep DEF Elsewhere

\* The archived project is shown or hidden.
LEMMA SetShowArchivedStep == ASSUME CardsInv, NEW p \in Desks, SetShowArchived(p) PROVE CardsInv'
<1>1. desk \in [Desks -> CardDesks] /\ desk[p] \in CardDesks
  BY DEF CardsInv, CardsTypeOK
<1>2. PICK n : n = Plain(desk[p])
  OBVIOUS
<1>3. n \in CardDesks /\ n.sees = desk[p].sees /\ n.base = 0
  BY <1>1, <1>2, PlainDesk
<1>4. PICK d : d = IF desk[p].all THEN [n EXCEPT !.all = FALSE] ELSE [desk[p] EXCEPT !.all = TRUE]
  OBVIOUS
<1>5. /\ d \in CardDesks /\ d.sees = desk[p].sees
      /\ d.base = 0 \/ (d.base = desk[p].base /\ d.filled = desk[p].filled)
  <2>1. CASE desk[p].all
    BY <1>3, <1>4, <2>1 DEF CardDesks
  <2>2. CASE ~desk[p].all
    BY <1>1, <1>4, <2>2 DEF CardDesks
  <2>3. QED BY <2>1, <2>2
<1>6. desk' = [desk EXCEPT ![p] = d]
  BY <1>1, <1>2, <1>4 DEF SetShowArchived
<1>7. patch' = patch \/ patch' = [patch EXCEPT ![p] = Unheard(@)]
  BY DEF SetShowArchived
<1>8. UNCHANGED <<venture, rumor, refetch, behind>>
  BY DEF SetShowArchived
<1>9. QED BY <1>5, <1>6, <1>7, <1>8, DeskStep

\* The form and the confirmation of a card are opened and closed.
LEMMA TouchingStep ==
    ASSUME CardsInv, NEW p \in Desks,
           OpenEditing(p) \/ HandleCancelEditing(p) \/ OpenConfirm(p) \/ HandleCancelConfirm(p)
    PROVE  CardsInv'
<1>1. desk \in [Desks -> CardDesks] /\ desk[p] \in CardDesks /\ desk[p].sees \in CardRows
  BY DEF CardsInv, CardsTypeOK, CardDesks
<1>2. CASE OpenEditing(p)
  <2>1. PICK d : d = [desk[p] EXCEPT !.mode = "editing", !.base = desk[p].sees.at, !.filled = desk[p].sees.name]
    OBVIOUS
  <2>2. /\ d \in CardDesks /\ d.sees = desk[p].sees
        /\ d.base = desk[p].sees.at /\ d.filled = desk[p].sees.name
    BY <1>1, <2>1 DEF CardDesks, CardModes, CardRows
  <2>3. desk' = [desk EXCEPT ![p] = d] /\ UNCHANGED <<venture, patch, rumor, refetch, behind>>
    BY <1>2, <2>1 DEF OpenEditing, Touching
  <2>4. QED BY <2>2, <2>3, DeskStep
<1>3. CASE OpenConfirm(p)
  <2>1. PICK d : d = [desk[p] EXCEPT !.mode = "confirming"]
    OBVIOUS
  <2>2. d \in CardDesks /\ d.sees = desk[p].sees /\ d.base = desk[p].base /\ d.filled = desk[p].filled
    BY <1>1, <2>1 DEF CardDesks, CardModes
  <2>3. desk' = [desk EXCEPT ![p] = d] /\ UNCHANGED <<venture, patch, rumor, refetch, behind>>
    BY <1>3, <2>1 DEF OpenConfirm, Touching
  <2>4. QED BY <2>2, <2>3, DeskStep
<1>4. CASE HandleCancelEditing(p) \/ HandleCancelConfirm(p)
  <2>1. PICK d : d = Plain(desk[p])
    OBVIOUS
  <2>2. d \in CardDesks /\ d.sees = desk[p].sees /\ d.base = 0
    BY <1>1, <2>1, PlainDesk
  <2>3. desk' = [desk EXCEPT ![p] = d] /\ UNCHANGED <<venture, patch, rumor, refetch, behind>>
    BY <1>4, <2>1 DEF HandleCancelEditing, HandleCancelConfirm, Touching
  <2>4. QED BY <2>2, <2>3, DeskStep
<1>5. QED BY <1>2, <1>3, <1>4

-----------------------------------------------------------------------------
\* A request leaves a page: it carries the updatedAt and the name of the form.
LEMMA AsksSets ==
    ASSUME CardsTypeOK, NEW p \in Desks, NEW op \in Patches, NEW to \in Targets(op), Asks(p, op, to)
    PROVE  /\ patch' \in [Desks -> PatchTables]
           /\ UNCHANGED <<venture, rumor, refetch, behind>>
           /\ \A q \in Desks, o \in Patches :
                 /\ patch'[q][o].phase = patch[q][o].phase \/ patch'[q][o].phase = "sent"
                 /\ patch[q][o].phase \in {"written", "told"} => patch'[q][o].phase = patch[q][o].phase
                 /\ patch'[q][o] # NoPatch =>
                       \/ /\ patch[q][o] # NoPatch
                          /\ patch'[q][o].base = patch[q][o].base /\ patch'[q][o].filled = patch[q][o].filled
                          /\ patch'[q][o].to = patch[q][o].to
                       \/ patch'[q][o].base = desk[q].base /\ patch'[q][o].filled = desk[q].filled
                          /\ patch'[q][o].to \in Targets(o)
<1>1. /\ desk[p] \in CardDesks /\ patch \in [Desks -> PatchTables] /\ patch[p] \in PatchTables
      /\ Deleted.name \in Titles
  BY DeletedIsRow DEF CardsTypeOK, CardRows
<1>2. PICK r : r = [phase |-> "sent", here |-> TRUE, page |-> desk[p].at, to |-> to,
                    base |-> desk[p].base, filled |-> desk[p].filled, previous |-> Deleted.name]
  OBVIOUS
<1>3. r \in SentPatches /\ r.base = desk[p].base /\ r.filled = desk[p].filled /\ r.to = to /\ r.phase = "sent"
  BY <1>1, <1>2 DEF SentPatches, CardPhases, CardDesks, Targets
<1>4. patch' = [patch EXCEPT ![p] = [patch[p] EXCEPT ![op] = r]]
  BY <1>2 DEF Asks, Sends, EditingBase
<1>5. [patch[p] EXCEPT ![op] = r] \in PatchTables
  BY <1>1, <1>3 DEF PatchTables
<1>6. patch[p][op].phase \notin {"written", "told"}
  BY DEF Asks, Free, NoPatch
<1>7. ASSUME NEW q \in Desks, NEW o \in Patches
      PROVE  patch'[q][o] = patch[q][o] \/ (q = p /\ o = op /\ patch'[q][o] = r)
  BY <1>1, <1>4 DEF PatchTables
<1>8. patch' \in [Desks -> PatchTables]
  BY <1>1, <1>4, <1>5
<1>9. QED BY <1>3, <1>6, <1>7, <1>8 DEF Asks

\* A change is asked for; the form of an edit stays open.
LEMMA AsksStep ==
    ASSUME CardsInv, NEW p \in Desks, NEW op \in Patches, NEW to \in Targets(op), Asks(p, op, to),
           desk' = desk \/ desk' = [desk EXCEPT ![p].mode = "editing"]
    PROVE  CardsInv'
<1>1. CardsTypeOK /\ VersionsInv /\ NewsInv
  BY DEF CardsInv
<1>2. /\ patch' \in [Desks -> PatchTables]
      /\ UNCHANGED <<venture, rumor, refetch, behind>>
      /\ \A q \in Desks, o \in Patches :
            /\ patch'[q][o].phase = patch[q][o].phase \/ patch'[q][o].phase = "sent"
            /\ patch[q][o].phase \in {"written", "told"} => patch'[q][o].phase = patch[q][o].phase
            /\ patch'[q][o] # NoPatch =>
                  \/ /\ patch[q][o] # NoPatch
                     /\ patch'[q][o].base = patch[q][o].base /\ patch'[q][o].filled = patch[q][o].filled
                     /\ patch'[q][o].to = patch[q][o].to
                  \/ patch'[q][o].base = desk[q].base /\ patch'[q][o].filled = desk[q].filled
                     /\ patch'[q][o].to \in Targets(o)
  BY <1>1, AsksSets
<1>3. /\ desk' \in [Desks -> CardDesks]
      /\ \A q \in Desks : /\ desk'[q].sees = desk[q].sees
                          /\ desk'[q].base = desk[q].base /\ desk'[q].filled = desk[q].filled
  <2>1. CASE desk' = desk
    BY <1>1, <2>1 DEF CardsTypeOK
  <2>2. CASE desk' = [desk EXCEPT ![p].mode = "editing"]
    <3>1. PICK d : d = [desk[p] EXCEPT !.mode = "editing"]
      OBVIOUS
    <3>2. desk \in [Desks -> CardDesks]
      BY <1>1 DEF CardsTypeOK
    <3>3. d \in CardDesks /\ d.sees = desk[p].sees /\ d.base = desk[p].base /\ d.filled = desk[p].filled
      BY <3>1, <3>2 DEF CardDesks, CardModes
    <3>4. desk' = [desk EXCEPT ![p] = d]
      BY <2>2, <3>1
    <3>5. QED BY <3>2, <3>3, <3>4
  <2>3. QED BY <2>1, <2>2
<1>4. CardsTypeOK'
  BY <1>1, <1>2, <1>3 DEF CardsTypeOK
<1>5. VersionsInv'
  BY <1>1, <1>2, <1>3, <1>4, VersionsKept
<1>6. NewsInv'
  BY <1>1, <1>2, <1>3, QuietNews
<1>7. QED BY <1>4, <1>5, <1>6 DEF CardsInv

\* The requests of the user.
LEMMA RequestsStep ==
    ASSUME CardsInv, NEW p \in Desks,
           \/ HandleSubmitDetails(p) \/ HandleDeleteProject(p)
           \/ \E op \in Toggles : HandleToggle(p, op)
    PROVE  CardsInv'
<1>1. CASE HandleSubmitDetails(p)
  <2>1. PICK t \in Titles : Asks(p, "details", t)
    BY <1>1 DEF HandleSubmitDetails
  <2>2. "details" \in Patches /\ desk' = [desk EXCEPT ![p].mode = "editing"] /\ t \in Targets("details")
    BY <1>1 DEF HandleSubmitDetails, Patches, Targets
  <2>3. QED BY <2>1, <2>2, AsksStep
<1>2. CASE HandleDeleteProject(p)
  <2>1. Asks(p, "delete", FALSE) /\ desk' = desk /\ "delete" \in Patches /\ FALSE \in Targets("delete")
    BY <1>2 DEF HandleDeleteProject, Patches, Targets
  <2>2. QED BY <2>1, AsksStep
<1>3. ASSUME NEW op \in Toggles, HandleToggle(p, op) PROVE CardsInv'
  <2>1. desk[p].sees.finished \in BOOLEAN /\ desk[p].sees.archived \in BOOLEAN
    BY DEF CardsInv, CardsTypeOK, CardDesks, CardRows
  <2>2. PICK to \in BOOLEAN : Asks(p, op, to)
    BY <1>3, <2>1 DEF HandleToggle
  <2>3. desk' = desk /\ op \in Patches /\ to \in Targets(op)
    BY <1>3 DEF HandleToggle, Patches, Toggles, Targets
  <2>4. QED BY <2>2, <2>3, AsksStep
<1>4. QED BY <1>1, <1>2, <1>3

-----------------------------------------------------------------------------
\* A step of the backend for one request: types and versions are kept whatever
\* the row becomes.
LEMMA BackendStep ==
    ASSUME CardsInv, NEW p \in Desks, NEW op \in Patches,
           patch' \in [Desks -> PatchTables],
           \A q \in Desks, o \in Patches : q # p \/ o # op => patch'[q][o] = patch[q][o],
           patch[p][op] \in SentPatches,
           patch'[p][op].base = patch[p][op].base, patch'[p][op].filled = patch[p][op].filled,
           patch'[p][op].to = patch[p][op].to,
           venture' \in CardRows,
           venture' = venture \/ venture' = Deleted \/ (venture.at # 0 /\ venture'.at = venture.at + 1),
           rumor' \in [Desks -> Seq(BOOLEAN)], behind' \subseteq Desks, UNCHANGED <<desk, refetch>>
    PROVE  CardsTypeOK' /\ VersionsInv'
<1>1. CardsTypeOK /\ VersionsInv
  BY DEF CardsInv
<1>2. CardsTypeOK'
  BY <1>1 DEF CardsTypeOK
<1>3. patch[p][op] # NoPatch
  <2>1. NoPatch.phase = "none"
    BY DEF NoPatch
  <2>2. QED BY <2>1 DEF SentPatches, CardPhases
<1>4. ASSUME NEW q \in Desks, NEW o \in Patches, patch'[q][o] # NoPatch
      PROVE  /\ patch[q][o] # NoPatch
             /\ patch'[q][o].base = patch[q][o].base /\ patch'[q][o].filled = patch[q][o].filled
             /\ patch'[q][o].to = patch[q][o].to
  BY <1>3, <1>4
<1>5. QED BY <1>1, <1>2, <1>4, VersionsKept

\* A request goes to a point where there is nothing to tell.
LEMMA PassesStep ==
    ASSUME CardsInv, NEW p \in Desks, NEW op \in Patches,
           patch' \in [Desks -> PatchTables],
           \A q \in Desks, o \in Patches : q # p \/ o # op => patch'[q][o] = patch[q][o],
           patch[p][op] \in SentPatches,
           patch'[p][op].base = patch[p][op].base, patch'[p][op].filled = patch[p][op].filled,
           patch'[p][op].to = patch[p][op].to,
           patch[p][op].phase # "written", op = "delete" /\ patch[p][op].phase = "told" => p \in behind',
           behind \subseteq behind', behind' \subseteq Desks,
           UNCHANGED <<venture, rumor, desk, refetch>>
    PROVE  CardsInv'
<1>1. CardsTypeOK /\ NewsInv
  BY DEF CardsInv
<1>2. venture' \in CardRows /\ rumor' \in [Desks -> Seq(BOOLEAN)]
  BY <1>1 DEF CardsTypeOK
<1>3. CardsTypeOK' /\ VersionsInv'
  BY <1>2, BackendStep
<1>4. ASSUME NEW q \in Desks, NEW o \in Patches
      PROVE  /\ patch[q][o].phase = "written" => patch'[q][o].phase = "written"
             /\ o = "delete" /\ patch[q][o].phase = "told" => q \in behind' \/ patch'[q][o].phase = "told"
  OBVIOUS
<1>5. NewsInv'
  BY <1>1, <1>4, QuietNews
<1>6. QED BY <1>3, <1>5 DEF CardsInv

\* The row is read before the change.
LEMMA ReadPreviousStep ==
    ASSUME CardsInv, NEW p \in Desks, NEW op \in Patches, ReadPrevious(p, op) PROVE CardsInv'
<1>1. /\ CardsTypeOK /\ patch[p][op].phase = "sent" /\ venture.name \in Titles /\ behind \subseteq Desks
      /\ UNCHANGED <<venture, rumor, behind, desk, refetch>>
  BY DEF CardsInv, CardsTypeOK, CardRows, ReadPrevious, Backend
<1>2. CASE venture.at = 0
  <2>1. PICK ph \in CardPhases : ph = "refused"
    BY DEF CardPhases
  <2>2. Phase(p, op, ph)
    BY <1>2, <2>1 DEF ReadPrevious
  <2>3. QED BY <1>1, <2>2, PhaseSets, PassesStep
<1>3. CASE venture.at # 0
  <2>1. patch[p] \in PatchTables /\ patch[p][op] \in SentPatches
    BY <1>1 DEF CardsTypeOK, PatchTables, NoPatch
  <2>2. PICK n : n = [patch[p][op] EXCEPT !.phase = "read", !.previous = venture.name]
    OBVIOUS
  <2>3. n \in SentPatches /\ n.base = patch[p][op].base /\ n.filled = patch[p][op].filled
        /\ n.to = patch[p][op].to
    BY <1>1, <2>1, <2>2 DEF SentPatches, CardPhases
  <2>4. patch' = [patch EXCEPT ![p] = [patch[p] EXCEPT ![op] = n]]
    BY <1>3, <2>2 DEF ReadPrevious, Sends
  <2>5. [patch[p] EXCEPT ![op] = n] \in PatchTables
    BY <2>1, <2>3 DEF PatchTables
  <2>6. /\ patch' \in [Desks -> PatchTables]
        /\ \A q \in Desks, o \in Patches : q # p \/ o # op => patch'[q][o] = patch[q][o]
        /\ patch'[p][op] = n
    BY <1>1, <2>1, <2>4, <2>5 DEF CardsTypeOK, PatchTables
  <2>7. QED BY <1>1, <2>1, <2>3, <2>6, PassesStep
<1>4. QED BY <1>2, <1>3

\* A change is written: everybody whom it is told to has news to come.
LEMMA WrittenStep ==
    ASSUME CardsInv, NEW p \in Desks, NEW op \in Patches,
           patch[p][op].phase = "read", Phase(p, op, "written"),
           venture' \in CardRows, venture' = Deleted \/ (venture.at # 0 /\ venture'.at = venture.at + 1),
           UNCHANGED <<rumor, behind, desk, refetch>>
    PROVE  CardsInv'
<1>1. CardsTypeOK
  BY DEF CardsInv
<1>2. PICK ph \in CardPhases : ph = "written"
  BY DEF CardPhases
<1>3. /\ patch' \in [Desks -> PatchTables]
      /\ \A q \in Desks, o \in Patches : q # p \/ o # op => patch'[q][o] = patch[q][o]
      /\ patch[p][op] \in SentPatches /\ patch'[p][op].phase = "written"
      /\ patch'[p][op].base = patch[p][op].base /\ patch'[p][op].filled = patch[p][op].filled
      /\ patch'[p][op].to = patch[p][op].to
  BY <1>1, <1>2, PhaseSets
<1>4. rumor' \in [Desks -> Seq(BOOLEAN)] /\ behind' \subseteq Desks
  BY <1>1 DEF CardsTypeOK
<1>5. CardsTypeOK' /\ VersionsInv'
  BY <1>3, <1>4, BackendStep
<1>6. \A q \in Desks : Coming(q)'
  BY <1>3 DEF Coming, Audience
<1>7. NewsInv'
  BY <1>6 DEF NewsInv
<1>8. QED BY <1>5, <1>7 DEF CardsInv

\* An edit is written over the row it was based on, or refused as stale.
LEMMA WriteDetailsStep == ASSUME CardsInv, NEW p \in Desks, WriteDetails(p) PROVE CardsInv'
<1>1. /\ CardsTypeOK /\ patch[p]["details"].phase = "read" /\ "details" \in Patches /\ behind \subseteq Desks
      /\ UNCHANGED <<rumor, behind, desk, refetch>>
  BY DEF CardsInv, CardsTypeOK, WriteDetails, Backend, Patches
<1>2. CASE ~SameVersion(patch[p]["details"])
  <2>1. PICK ph \in CardPhases : ph = "stale"
    BY DEF CardPhases
  <2>2. Phase(p, "details", ph) /\ venture' = venture
    BY <1>2, <2>1 DEF WriteDetails
  <2>3. QED BY <1>1, <2>2, PhaseSets, PassesStep
<1>3. CASE SameVersion(patch[p]["details"])
  <2>1. /\ venture' = [venture EXCEPT !.name = patch[p]["details"].to, !.at = @ + 1]
        /\ Phase(p, "details", "written") /\ venture.at # 0
    BY <1>3 DEF WriteDetails, SameVersion
  <2>2. venture \in CardRows
    BY <1>1 DEF CardsTypeOK
  <2>3. patch[p]["details"] # NoPatch /\ patch[p]["details"].to \in Titles
    BY <1>1 DEF CardsInv, VersionsInv, Targets, NoPatch
  <2>6. PICK t \in Titles, k \in Nat : t = patch[p]["details"].to /\ k = venture.at + 1
    BY <2>2, <2>3 DEF CardRows
  <2>4. venture' \in CardRows /\ venture'.at = venture.at + 1
    <3>1. venture' = [venture EXCEPT !.name = t, !.at = k]
      BY <2>1, <2>6
    <3>2. QED BY <2>2, <2>6, <3>1 DEF CardRows
  <2>5. QED BY <1>1, <2>1, <2>4, WrittenStep
<1>4. QED BY <1>2, <1>3

\* A change of the status is written, whatever the row was when it was asked.
LEMMA WriteToggleStep ==
    ASSUME CardsInv, NEW p \in Desks, NEW op \in Toggles, WriteToggle(p, op) PROVE CardsInv'
<1>1. /\ CardsTypeOK /\ patch[p][op].phase = "read" /\ op \in Patches /\ op # "details"
      /\ behind \subseteq Desks
      /\ UNCHANGED <<rumor, behind, desk, refetch>>
  BY DEF CardsInv, CardsTypeOK, WriteToggle, Backend, Patches, Toggles
<1>2. CASE venture.at = 0
  <2>1. PICK ph \in CardPhases : ph = "refused"
    BY DEF CardPhases
  <2>2. Phase(p, op, ph) /\ venture' = venture
    BY <1>2, <2>1 DEF WriteToggle
  <2>3. QED BY <1>1, <2>2, PhaseSets, PassesStep
<1>3. CASE venture.at # 0
  <2>1. /\ venture' = [venture EXCEPT !.finished = IF op = "finish" THEN patch[p][op].to ELSE @,
                                      !.archived = IF op = "archive" THEN patch[p][op].to ELSE @, !.at = @ + 1]
        /\ Phase(p, op, "written")
    BY <1>3 DEF WriteToggle
  <2>2. venture \in CardRows
    BY <1>1 DEF CardsTypeOK
  <2>3. patch[p][op] # NoPatch /\ patch[p][op].to \in BOOLEAN
    BY <1>1 DEF CardsInv, VersionsInv, Targets, NoPatch
  <2>4. PICK f \in BOOLEAN, a \in BOOLEAN, k \in Nat :
           /\ f = IF op = "finish" THEN patch[p][op].to ELSE venture.finished
           /\ a = IF op = "archive" THEN patch[p][op].to ELSE venture.archived
           /\ k = venture.at + 1
    <3>1. venture.finished \in BOOLEAN /\ venture.archived \in BOOLEAN
      BY <2>2 DEF CardRows
    <3>2. venture.at + 1 \in Nat
      BY <2>2 DEF CardRows
    <3>3. (IF op = "finish" THEN patch[p][op].to ELSE venture.finished) \in BOOLEAN
      BY <2>3, <3>1
    <3>4. (IF op = "archive" THEN patch[p][op].to ELSE venture.archived) \in BOOLEAN
      BY <2>3, <3>1
    <3>5. QED BY <3>2, <3>3, <3>4
  <2>5. venture' = [venture EXCEPT !.finished = f, !.archived = a, !.at = k]
    BY <2>1, <2>4
  <2>6. venture' \in CardRows /\ venture'.at = venture.at + 1
    BY <2>2, <2>4, <2>5 DEF CardRows
  <2>7. QED BY <1>1, <1>3, <2>1, <2>6, WrittenStep
<1>4. QED BY <1>2, <1>3

\* The row is deleted, if there still is one.
LEMMA WriteDeleteStep == ASSUME CardsInv, NEW p \in Desks, WriteDelete(p) PROVE CardsInv'
<1>1. /\ CardsTypeOK /\ patch[p]["delete"].phase = "read" /\ "delete" \in Patches /\ behind \subseteq Desks
      /\ UNCHANGED <<rumor, behind, desk, refetch>> /\ venture' = Deleted
  BY DEF CardsInv, CardsTypeOK, WriteDelete, Backend, Patches
<1>2. Deleted \in CardRows /\ Deleted.at = 0
  BY DeletedIsRow DEF Deleted
<1>3. CASE venture.at # 0
  BY <1>1, <1>2, <1>3, WrittenStep DEF WriteDelete
<1>4. CASE venture.at = 0
  <2>1. PICK ph \in CardPhases : ph = "refused"
    BY DEF CardPhases
  <2>2. Phase(p, "delete", ph)
    BY <1>4, <2>1 DEF WriteDelete
  <2>3. /\ patch' \in [Desks -> PatchTables]
        /\ \A q \in Desks, o \in Patches : q # p \/ o # "delete" => patch'[q][o] = patch[q][o]
        /\ patch[p]["delete"] \in SentPatches
        /\ patch'[p]["delete"].base = patch[p]["delete"].base
        /\ patch'[p]["delete"].filled = patch[p]["delete"].filled
        /\ patch'[p]["delete"].to = patch[p]["delete"].to
    BY <1>1, <2>2, PhaseSets
  <2>4. venture = Deleted
    BY <1>4 DEF CardsInv, VersionsInv
  <2>5. QED BY <1>1, <2>3, <2>4, PassesStep
<1>5. QED BY <1>3, <1>4

\* The event of a change is sent: it is on its way to its audience.
LEMMA EmitUpdatedStep ==
    ASSUME CardsInv, NEW p \in Desks, NEW op \in Patches, EmitUpdated(p, op) PROVE CardsInv'
<1>1. /\ CardsTypeOK /\ NewsInv /\ patch[p][op].phase = "written"
      /\ UNCHANGED <<venture, behind, desk, refetch>>
      /\ venture' \in CardRows /\ behind' \subseteq Desks
  BY DEF CardsInv, CardsTypeOK, EmitUpdated, Backend
<1>2. PICK ph \in CardPhases : ph = "told"
  BY DEF CardPhases
<1>3. /\ patch' \in [Desks -> PatchTables]
      /\ \A q \in Desks, o \in Patches : q # p \/ o # op => patch'[q][o] = patch[q][o]
      /\ patch[p][op] \in SentPatches /\ patch'[p][op].phase = "told"
      /\ patch'[p][op].base = patch[p][op].base /\ patch'[p][op].filled = patch[p][op].filled
      /\ patch'[p][op].to = patch[p][op].to
  BY <1>1, <1>2, PhaseSets DEF EmitUpdated
<1>4. rumor' = [q \in Desks |-> IF q \in Audience(p, op) THEN Append(rumor[q], op = "delete") ELSE rumor[q]]
  BY DEF EmitUpdated
<1>5. /\ rumor' \in [Desks -> Seq(BOOLEAN)]
      /\ \A q \in Desks : /\ rumor[q] # <<>> => rumor'[q] # <<>>
                          /\ q \in Audience(p, op) => rumor'[q] # <<>>
  <2>1. rumor \in [Desks -> Seq(BOOLEAN)]
    BY <1>1 DEF CardsTypeOK
  <2>2. PICK b \in BOOLEAN : b = (op = "delete")
    OBVIOUS
  <2>3. ASSUME NEW q \in Desks PROVE Append(rumor[q], b) \in Seq(BOOLEAN) /\ Append(rumor[q], b) # <<>>
    <3>1. rumor[q] \in Seq(BOOLEAN)
      BY <2>1
    <3>2. Append(rumor[q], b) \in Seq(BOOLEAN) /\ Len(Append(rumor[q], b)) = Len(rumor[q]) + 1
      BY <3>1
    <3>3. Len(Append(rumor[q], b)) # 0 /\ Len(<<>>) = 0
      BY <3>1, <3>2
    <3>4. QED BY <3>2, <3>3
  <2>4. rumor' = [q \in Desks |-> IF q \in Audience(p, op) THEN Append(rumor[q], b) ELSE rumor[q]]
    BY <1>4, <2>2
  <2>5. QED BY <2>1, <2>3, <2>4
<1>6. CardsTypeOK' /\ VersionsInv'
  BY <1>1, <1>3, <1>5, BackendStep
<1>7. ASSUME NEW x \in Desks, Coming(x) PROVE Coming(x)'
  <2>1. CASE rumor[x] # <<>> \/ refetch[x].at = "asked"
    BY <1>1, <1>5, <2>1 DEF Coming
  <2>2. ASSUME NEW q \in Desks, NEW o \in Patches, patch[q][o].phase = "written", x \in Audience(q, o)
        PROVE  Coming(x)'
    <3>1. CASE q = p /\ o = op
      BY <1>5, <2>2, <3>1 DEF Coming
    <3>2. CASE ~(q = p /\ o = op)
      BY <1>3, <2>2, <3>2 DEF Coming, Audience
    <3>3. QED BY <3>1, <3>2
  <2>3. CASE patch[x]["delete"].phase \in {"written", "told"}
    <3>1. patch'[x]["delete"].phase \in {"written", "told"}
      BY <1>3, <2>3 DEF Patches
    <3>2. QED BY <3>1 DEF Coming
  <2>4. QED BY <1>7, <2>1, <2>2, <2>3 DEF Coming
<1>8. NewsInv'
  BY <1>1, <1>7 DEF NewsInv
<1>9. QED BY <1>6, <1>8 DEF CardsInv

\* A notification of an edit fails, and every page misses the edit.
LEMMA NotifyFailsStep == ASSUME CardsInv, NEW p \in Desks, NotifyFails(p) PROVE CardsInv'
<1>1. /\ CardsTypeOK /\ patch[p]["details"].phase = "written" /\ "details" \in Patches
      /\ UNCHANGED <<venture, rumor, desk, refetch>> /\ behind' = Desks
      /\ venture' \in CardRows /\ rumor' \in [Desks -> Seq(BOOLEAN)]
  BY DEF CardsInv, CardsTypeOK, NotifyFails, Backend, Patches
<1>2. PICK ph \in CardPhases : ph = "failed"
  BY DEF CardPhases
<1>3. /\ patch' \in [Desks -> PatchTables]
      /\ \A q \in Desks, o \in Patches : q # p \/ o # "details" => patch'[q][o] = patch[q][o]
      /\ patch[p]["details"] \in SentPatches
      /\ patch'[p]["details"].base = patch[p]["details"].base
      /\ patch'[p]["details"].filled = patch[p]["details"].filled
      /\ patch'[p]["details"].to = patch[p]["details"].to
  BY <1>1, <1>2, PhaseSets DEF NotifyFails
<1>4. CardsTypeOK' /\ VersionsInv'
  BY <1>1, <1>3, BackendStep
<1>5. NewsInv'
  BY <1>1 DEF NewsInv
<1>6. QED BY <1>4, <1>5 DEF CardsInv

\* A request fails; who deleted the project does not learn that it is gone.
LEMMA RequestBreaksStep ==
    ASSUME CardsInv, NEW p \in Desks, NEW op \in Patches, RequestBreaks(p, op) PROVE CardsInv'
<1>1. /\ CardsTypeOK /\ patch[p][op].phase \in {"sent", "read", "told"}
      /\ UNCHANGED <<venture, rumor, desk, refetch>>
      /\ behind \subseteq behind' /\ behind' \subseteq Desks
      /\ op = "delete" /\ patch[p][op].phase = "told" => p \in behind'
  BY DEF CardsInv, CardsTypeOK, RequestBreaks, Backend
<1>2. PICK ph \in CardPhases : ph = "failed"
  BY DEF CardPhases
<1>3. /\ patch' \in [Desks -> PatchTables]
      /\ \A q \in Desks, o \in Patches : q # p \/ o # op => patch'[q][o] = patch[q][o]
      /\ patch[p][op] \in SentPatches
      /\ patch'[p][op].base = patch[p][op].base /\ patch'[p][op].filled = patch[p][op].filled
      /\ patch'[p][op].to = patch[p][op].to
  BY <1>1, <1>2, PhaseSets DEF RequestBreaks
<1>4. patch[p][op].phase # "written"
  BY <1>1
<1>5. QED BY <1>1, <1>3, <1>4, PassesStep

-----------------------------------------------------------------------------
\* A page that is asked to load again will see the row, or is behind.
LEMMA RevalidateStep ==
    ASSUME CardsInv, NEW p \in Desks, Revalidate(p), venture' = venture,
           desk' \in [Desks -> CardDesks],
           \A q \in Desks :
              /\ desk'[q].sees = desk[q].sees
              /\ \/ desk'[q].base = desk[q].base /\ desk'[q].filled = desk[q].filled
                 \/ desk'[q].base = 0,
           patch' \in [Desks -> PatchTables],
           \A q \in Desks, o \in Patches :
              /\ patch'[q][o].phase = patch[q][o].phase
                 \/ (q = p /\ patch[q][o].phase # "written")
              /\ patch'[q][o] # NoPatch =>
                    /\ patch[q][o] # NoPatch
                    /\ patch'[q][o].base = patch[q][o].base /\ patch'[q][o].filled = patch[q][o].filled
                    /\ patch'[q][o].to = patch[q][o].to,
           rumor' \in [Desks -> Seq(BOOLEAN)],
           \A q \in Desks : q # p => rumor'[q] = rumor[q]
    PROVE  CardsInv'
<1>1. CardsTypeOK /\ VersionsInv /\ NewsInv
  BY DEF CardsInv
<1>2. /\ refetch' \in [Desks -> CardLoads]
      /\ \A q \in Desks : refetch'[q] = refetch[q] \/ (q = p /\ refetch'[q].at = "asked")
      /\ behind \subseteq behind' /\ behind' \subseteq Desks
      /\ p \in behind' \/ refetch'[p].at = "asked"
  <2>1. refetch \in [Desks -> CardLoads] /\ behind \subseteq Desks
    BY <1>1 DEF CardsTypeOK
  <2>2. PICK n : n = [at |-> "asked"]
    OBVIOUS
  <2>3. n \in CardLoads /\ n.at = "asked"
    BY <2>2 DEF CardLoads
  <2>4. CASE refetch' = [refetch EXCEPT ![p] = n] /\ behind' = behind
    BY <2>1, <2>3, <2>4
  <2>5. CASE behind' = behind \cup {p} /\ refetch' = refetch
    BY <2>1, <2>5
  <2>6. QED BY <2>2, <2>4, <2>5 DEF Revalidate
<1>3. CardsTypeOK'
  BY <1>1, <1>2 DEF CardsTypeOK
<1>4. ASSUME NEW q \in Desks PROVE refetch'[q].at # "answered" \/ refetch'[q] = refetch[q]
  BY <1>2
<1>5. VersionsInv'
  BY <1>1, <1>3, <1>4, VersionsKept
<1>6. ASSUME NEW q \in Desks, q # p, Coming(q) PROVE Coming(q)'
  <2>1. CASE rumor[q] # <<>> \/ refetch[q].at = "asked"
    BY <1>2, <1>6, <2>1 DEF Coming
  <2>2. ASSUME NEW x \in Desks, NEW o \in Patches, patch[x][o].phase = "written", q \in Audience(x, o)
        PROVE  Coming(q)'
    <3>1. patch'[x][o].phase = "written"
      BY <2>2
    <3>2. QED BY <2>2, <3>1 DEF Coming, Audience
  <2>3. CASE patch[q]["delete"].phase \in {"written", "told"}
    <3>1. "delete" \in Patches
      BY DEF Patches
    <3>2. patch'[q]["delete"].phase \in {"written", "told"}
      BY <1>6, <2>3, <3>1
    <3>3. QED BY <3>2 DEF Coming
  <2>4. QED BY <1>6, <2>1, <2>2, <2>3 DEF Coming
<1>7. NewsInv'
  <2> SUFFICES ASSUME NEW q \in Desks
               PROVE  \/ q \in behind' \/ Coming(q)'
                      \/ IF refetch'[q].at = "answered" THEN refetch'[q].row = venture' ELSE desk'[q].sees = venture'
    BY DEF NewsInv
  <2>1. CASE q = p
    BY <1>2, <2>1 DEF Coming
  <2>2. CASE q # p
    BY <1>1, <1>2, <1>6, <2>2 DEF NewsInv
  <2>3. QED BY <2>1, <2>2
<1>8. QED BY <1>3, <1>5, <1>7 DEF CardsInv

\* A change was saved: the page loads again, and its form or itself is left.
LEMMA PatchSucceedsStep ==
    ASSUME CardsInv, NEW p \in Desks, NEW op \in Patches, PatchSucceeds(p, op) PROVE CardsInv'
<1>1. /\ CardsTypeOK /\ patch[p][op].phase = "told" /\ Revalidate(p) /\ UNCHANGED <<venture, rumor>>
      /\ desk \in [Desks -> CardDesks] /\ desk[p] \in CardDesks /\ rumor' \in [Desks -> Seq(BOOLEAN)]
  BY DEF CardsInv, CardsTypeOK, PatchSucceeds
<1>2. PICK ph \in CardPhases : ph = "reloading"
  BY DEF CardPhases
<1>3. /\ patch' \in [Desks -> PatchTables]
      /\ \A q \in Desks, o \in Patches : q # p \/ o # op => patch'[q][o] = patch[q][o]
      /\ patch[p][op] \in SentPatches /\ patch'[p][op].phase = "reloading"
      /\ patch'[p][op].base = patch[p][op].base /\ patch'[p][op].filled = patch[p][op].filled
      /\ patch'[p][op].to = patch[p][op].to
  BY <1>1, <1>2, PhaseSets DEF PatchSucceeds
<1>4. PICK n : n = Plain(desk[p])
  OBVIOUS
<1>5. n \in CardDesks /\ n.sees = desk[p].sees /\ n.base = 0
  BY <1>1, <1>4, PlainDesk
<1>6. PICK m : m = [n EXCEPT !.at = "projects"]
  OBVIOUS
<1>7. m \in CardDesks /\ m.sees = desk[p].sees /\ m.base = 0
  BY <1>5, <1>6 DEF CardDesks
<1>8. desk' = desk \/ desk' = [desk EXCEPT ![p] = n] \/ desk' = [desk EXCEPT ![p] = m]
  BY <1>4, <1>6 DEF PatchSucceeds
<1>9. /\ desk' \in [Desks -> CardDesks]
      /\ \A q \in Desks :
            /\ desk'[q].sees = desk[q].sees
            /\ desk'[q].base = 0 \/ (desk'[q].base = desk[q].base /\ desk'[q].filled = desk[q].filled)
  BY <1>1, <1>5, <1>7, <1>8
<1>10. patch[p][op] # NoPatch
  BY <1>1 DEF NoPatch
<1>11. ASSUME NEW q \in Desks, NEW o \in Patches
       PROVE  /\ patch'[q][o].phase = patch[q][o].phase
                 \/ (q = p /\ patch[q][o].phase # "written")
              /\ patch'[q][o] # NoPatch =>
                    /\ patch[q][o] # NoPatch
                    /\ patch'[q][o].base = patch[q][o].base /\ patch'[q][o].filled = patch[q][o].filled
                    /\ patch'[q][o].to = patch[q][o].to
  BY <1>1, <1>3, <1>10
<1>12. QED BY <1>1, <1>3, <1>9, <1>11, RevalidateStep

\* An event arrives: the page loads again, and the settings of a deleted
\* project are left.
LEMMA HearProjectStep == ASSUME CardsInv, NEW p \in Desks, HearProject(p) PROVE CardsInv'
<1>1. /\ CardsTypeOK /\ rumor[p] # <<>> /\ Revalidate(p) /\ UNCHANGED venture
      /\ desk \in [Desks -> CardDesks] /\ desk[p] \in CardDesks /\ rumor \in [Desks -> Seq(BOOLEAN)]
      /\ rumor' = [rumor EXCEPT ![p] = Tail(@)]
  BY DEF CardsInv, CardsTypeOK, HearProject
<1>2. rumor' \in [Desks -> Seq(BOOLEAN)] /\ \A q \in Desks : q # p => rumor'[q] = rumor[q]
  <2>1. rumor[p] \in Seq(BOOLEAN)
    BY <1>1
  <2>2. Tail(rumor[p]) \in Seq(BOOLEAN)
    BY <1>1, <2>1
  <2>3. QED BY <1>1, <2>2
<1>3. PICK d : d = [desk[p] EXCEPT !.at = "projects"]
  OBVIOUS
<1>4. d \in CardDesks /\ d.sees = desk[p].sees /\ d.base = desk[p].base /\ d.filled = desk[p].filled
  BY <1>1, <1>3 DEF CardDesks
<1>5. /\ desk' = desk \/ desk' = [desk EXCEPT ![p] = d]
      /\ patch' = patch \/ patch' = [patch EXCEPT ![p] = Unheard(@)]
  BY <1>3 DEF HearProject
<1>6. /\ desk' \in [Desks -> CardDesks]
      /\ \A q \in Desks :
            /\ desk'[q].sees = desk[q].sees
            /\ desk'[q].base = desk[q].base /\ desk'[q].filled = desk[q].filled
  BY <1>1, <1>4, <1>5
<1>7. /\ patch' \in [Desks -> PatchTables]
      /\ \A q \in Desks, o \in Patches :
            /\ patch'[q][o].phase = patch[q][o].phase
            /\ patch'[q][o] # NoPatch =>
                  /\ patch[q][o] # NoPatch
                  /\ patch'[q][o].base = patch[q][o].base /\ patch'[q][o].filled = patch[q][o].filled
                  /\ patch'[q][o].to = patch[q][o].to
  BY <1>1, <1>5, UnheardPatch
<1>8. ASSUME NEW q \in Desks
      PROVE  /\ desk'[q].sees = desk[q].sees
             /\ \/ desk'[q].base = desk[q].base /\ desk'[q].filled = desk[q].filled
                \/ desk'[q].base = 0
  BY <1>6
<1>9. ASSUME NEW q \in Desks, NEW o \in Patches
      PROVE  /\ patch'[q][o].phase = patch[q][o].phase
                \/ (q = p /\ patch[q][o].phase # "written")
             /\ patch'[q][o] # NoPatch =>
                   /\ patch[q][o] # NoPatch
                   /\ patch'[q][o].base = patch[q][o].base /\ patch'[q][o].filled = patch[q][o].filled
                   /\ patch'[q][o].to = patch[q][o].to
  BY <1>7
<1>10. QED BY <1>1, <1>2, <1>6, <1>7, <1>8, <1>9, RevalidateStep

\* An answer that is a refusal or a failure: the request is over, and an edit
\* of an earlier row shows its conflict.
LEMMA PatchRefusedStep ==
    ASSUME CardsInv, NEW p \in Desks, NEW op \in Patches, PatchRefused(p, op) PROVE CardsInv'
<1>1. /\ CardsTypeOK /\ VersionsInv /\ NewsInv /\ patch[p][op].phase \in {"refused", "stale", "failed"}
      /\ UNCHANGED <<venture, rumor, refetch, behind>>
      /\ desk \in [Desks -> CardDesks] /\ desk[p] \in CardDesks
      /\ patch \in [Desks -> PatchTables] /\ patch[p] \in PatchTables
  BY DEF CardsInv, CardsTypeOK, PatchRefused
<1>2. [patch[p] EXCEPT ![op] = NoPatch] \in PatchTables
  BY <1>1 DEF PatchTables
<1>3. patch' = [patch EXCEPT ![p] = [patch[p] EXCEPT ![op] = NoPatch]]
  BY DEF PatchRefused, Sends
<1>4. patch' \in [Desks -> PatchTables]
  BY <1>1, <1>2, <1>3
<1>5. ASSUME NEW q \in Desks, NEW o \in Patches
      PROVE  /\ patch'[q][o] # NoPatch => patch'[q][o] = patch[q][o]
             /\ patch[q][o].phase \in {"written", "told"} => patch'[q][o] = patch[q][o]
  BY <1>1, <1>3 DEF PatchTables
<1>6. PICK d : d = [desk[p] EXCEPT !.mode = "conflict"]
  OBVIOUS
<1>7. d \in CardDesks /\ d.sees = desk[p].sees /\ d.base = desk[p].base /\ d.filled = desk[p].filled
  BY <1>1, <1>6 DEF CardDesks, CardModes
<1>8. desk' = desk \/ desk' = [desk EXCEPT ![p] = d]
  BY <1>6 DEF PatchRefused
<1>9. /\ desk' \in [Desks -> CardDesks]
      /\ \A q \in Desks :
            /\ desk'[q].sees = desk[q].sees
            /\ desk'[q].base = desk[q].base /\ desk'[q].filled = desk[q].filled
  BY <1>1, <1>7, <1>8
<1>10. CardsTypeOK'
  BY <1>1, <1>4, <1>9 DEF CardsTypeOK
<1>11. VersionsInv'
  BY <1>1, <1>5, <1>9, <1>10, VersionsKept
<1>12. NewsInv'
  BY <1>1, <1>5, <1>9, QuietNews
<1>13. QED BY <1>10, <1>11, <1>12 DEF CardsInv

\* Events are lost with the connection: the page has missed a change.
LEMMA LoseRumorsStep == ASSUME CardsInv, NEW p \in Desks, LoseRumors(p) PROVE CardsInv'
<1>1. /\ CardsTypeOK /\ VersionsInv /\ NewsInv /\ UNCHANGED <<venture, desk, patch, refetch>>
      /\ behind' = behind \cup {p} /\ rumor' = [rumor EXCEPT ![p] = <<>>]
  BY DEF CardsInv, LoseRumors
<1>2. CardsTypeOK'
  BY <1>1 DEF CardsTypeOK
<1>3. VersionsInv'
  BY <1>1 DEF VersionsInv
<1>4. ASSUME NEW q \in Desks, q # p, Coming(q) PROVE Coming(q)'
  BY <1>1, <1>4 DEF Coming, CardsTypeOK, Audience
<1>5. NewsInv'
  BY <1>1, <1>4 DEF NewsInv
<1>6. QED BY <1>2, <1>3, <1>5 DEF CardsInv

\* The load of a page reads the row: it will show it unless it changes again.
LEMMA LoadReadsStep == ASSUME CardsInv, NEW p \in Desks, LoadReads(p) PROVE CardsInv'
<1>1. /\ CardsTypeOK /\ VersionsInv /\ NewsInv /\ UNCHANGED <<venture, desk, patch, rumor>>
      /\ behind' = behind \ {p} /\ venture \in CardRows /\ refetch \in [Desks -> CardLoads]
  BY DEF CardsInv, CardsTypeOK, LoadReads
<1>2. PICK n : n = [at |-> "answered", row |-> venture]
  OBVIOUS
<1>3. n \in CardLoads /\ n.at = "answered" /\ n.row = venture
  BY <1>1, <1>2 DEF CardLoads
<1>4. refetch' = [refetch EXCEPT ![p] = n]
  BY <1>2 DEF LoadReads
<1>5. CardsTypeOK'
  BY <1>1, <1>3, <1>4 DEF CardsTypeOK
<1>6. ASSUME NEW q \in Desks
      PROVE  refetch'[q] = refetch[q] \/ (q = p /\ refetch'[q].at = "answered" /\ refetch'[q].row = venture)
  BY <1>1, <1>3, <1>4
<1>7. ASSUME NEW q \in Desks
      PROVE  \/ refetch'[q].at # "answered"
             \/ refetch'[q] = refetch[q]
             \/ venture' = venture /\ refetch'[q].row = venture
  BY <1>1, <1>6
<1>8. VersionsInv'
  BY <1>1, <1>5, <1>7, VersionsKept
<1>9. ASSUME NEW q \in Desks, q # p, Coming(q) PROVE Coming(q)'
  BY <1>1, <1>6, <1>9 DEF Coming, Audience
<1>10. NewsInv'
  <2> SUFFICES ASSUME NEW q \in Desks
               PROVE  \/ q \in behind' \/ Coming(q)'
                      \/ IF refetch'[q].at = "answered" THEN refetch'[q].row = venture' ELSE desk'[q].sees = venture'
    BY DEF NewsInv
  <2>1. CASE q = p
    BY <1>1, <1>3, <1>4, <2>1
  <2>2. CASE q # p
    BY <1>1, <1>6, <1>9, <2>2 DEF NewsInv
  <2>3. QED BY <2>1, <2>2
<1>11. QED BY <1>5, <1>8, <1>10 DEF CardsInv

\* A page shows a load: requests that waited for it are over, and the others
\* stay at their points.
LEMMA LoadedSets ==
    ASSUME CardsTypeOK, NEW p \in Desks, NEW d \in CardDesks, Loaded(p, d)
    PROVE  /\ UNCHANGED <<venture, rumor>>
           /\ refetch' = [refetch EXCEPT ![p] = NoLoad]
           /\ desk' \in [Desks -> CardDesks]
           /\ \A q \in Desks : q # p => desk'[q] = desk[q]
           /\ desk'[p].sees = d.sees
           /\ desk'[p].base = 0 \/ (desk'[p].base = d.base /\ desk'[p].filled = d.filled)
           /\ patch' \in [Desks -> PatchTables]
           /\ \A q \in Desks, o \in Patches :
                 /\ patch'[q][o].phase = patch[q][o].phase \/ patch[q][o].phase = "reloading"
                 /\ patch'[q][o] # NoPatch =>
                       /\ patch[q][o] # NoPatch
                       /\ patch'[q][o].base = patch[q][o].base /\ patch'[q][o].filled = patch[q][o].filled
                       /\ patch'[q][o].to = patch[q][o].to
<1>1. /\ desk \in [Desks -> CardDesks] /\ patch \in [Desks -> PatchTables] /\ patch[p] \in PatchTables
  BY DEF CardsTypeOK
<1>2. PICK n : n = Plain(d)
  OBVIOUS
<1>3. n \in CardDesks /\ n.sees = d.sees /\ n.base = 0
  BY <1>2, PlainDesk
<1>4. desk' = [desk EXCEPT ![p] = n] \/ desk' = [desk EXCEPT ![p] = d]
  BY <1>2 DEF Loaded
<1>5. /\ desk' \in [Desks -> CardDesks]
      /\ \A q \in Desks : q # p => desk'[q] = desk[q]
      /\ desk'[p].sees = d.sees
      /\ desk'[p].base = 0 \/ (desk'[p].base = d.base /\ desk'[p].filled = d.filled)
  BY <1>1, <1>3, <1>4
<1>6. PICK rs : rs = [op \in Patches |->
                        IF op \in {o \in Patches : patch[p][o].phase = "reloading"} THEN NoPatch ELSE patch[p][op]]
  OBVIOUS
<1>7. /\ rs \in PatchTables
      /\ \A o \in Patches : rs[o] = patch[p][o] \/ (rs[o] = NoPatch /\ patch[p][o].phase = "reloading")
  BY <1>1, <1>6 DEF PatchTables
<1>8. PICK u : u = Unheard(rs)
  OBVIOUS
<1>9. /\ u \in PatchTables
      /\ \A o \in Patches :
            /\ u[o] = NoPatch <=> rs[o] = NoPatch
            /\ u[o].phase = rs[o].phase
            /\ rs[o] # NoPatch => u[o].base = rs[o].base /\ u[o].filled = rs[o].filled /\ u[o].to = rs[o].to
  BY <1>7, <1>8, UnheardSame
<1>10. patch' = [patch EXCEPT ![p] = rs] \/ patch' = [patch EXCEPT ![p] = u]
  BY <1>6, <1>8 DEF Loaded
<1>11. patch' \in [Desks -> PatchTables]
  BY <1>1, <1>7, <1>9, <1>10
<1>12. ASSUME NEW q \in Desks, NEW o \in Patches
       PROVE  /\ patch'[q][o].phase = patch[q][o].phase \/ patch[q][o].phase = "reloading"
              /\ patch'[q][o] # NoPatch =>
                    /\ patch[q][o] # NoPatch
                    /\ patch'[q][o].base = patch[q][o].base /\ patch'[q][o].filled = patch[q][o].filled
                    /\ patch'[q][o].to = patch[q][o].to
  <2>1. CASE q # p
    BY <1>1, <1>10, <2>1
  <2>2. CASE q = p
    <3>1. patch'[p] = rs \/ patch'[p] = u
      BY <1>1, <1>10
    <3>2. QED BY <1>7, <1>9, <2>2, <3>1
  <2>3. QED BY <2>1, <2>2
<1>13. QED BY <1>5, <1>11, <1>12 DEF Loaded

\* The load of a page answers: it shows the row that was read.
LEMMA LoadAnswersStep == ASSUME CardsInv, NEW p \in Desks, LoadAnswers(p) PROVE CardsInv'
<1>1. /\ CardsTypeOK /\ VersionsInv /\ NewsInv /\ refetch[p].at = "answered" /\ UNCHANGED behind
      /\ desk[p] \in CardDesks /\ refetch \in [Desks -> CardLoads]
  BY DEF CardsInv, CardsTypeOK, LoadAnswers
<1>2. refetch[p].row \in CardRows
  BY <1>1 DEF CardLoads, NoLoad
<1>3. PICK d : d = [desk[p] EXCEPT !.sees = refetch[p].row]
  OBVIOUS
<1>4. d \in CardDesks /\ d.sees = refetch[p].row /\ d.base = desk[p].base /\ d.filled = desk[p].filled
  BY <1>1, <1>2, <1>3 DEF CardDesks
<1>5. Loaded(p, d)
  BY <1>3 DEF LoadAnswers
<1>6. /\ UNCHANGED <<venture, rumor>>
      /\ refetch' = [refetch EXCEPT ![p] = NoLoad]
      /\ desk' \in [Desks -> CardDesks]
      /\ \A q \in Desks : q # p => desk'[q] = desk[q]
      /\ desk'[p].sees = d.sees
      /\ desk'[p].base = 0 \/ (desk'[p].base = d.base /\ desk'[p].filled = d.filled)
      /\ patch' \in [Desks -> PatchTables]
  BY <1>1, <1>4, <1>5, LoadedSets
<1>7. ASSUME NEW q \in Desks, NEW o \in Patches
      PROVE  /\ patch'[q][o].phase = patch[q][o].phase \/ patch[q][o].phase = "reloading"
             /\ patch'[q][o] # NoPatch =>
                   /\ patch[q][o] # NoPatch
                   /\ patch'[q][o].base = patch[q][o].base /\ patch'[q][o].filled = patch[q][o].filled
                   /\ patch'[q][o].to = patch[q][o].to
  BY <1>1, <1>4, <1>5, LoadedSets
<1>8. /\ \A q \in Desks : q # p => refetch'[q] = refetch[q]
      /\ refetch'[p] = NoLoad /\ NoLoad \in CardLoads /\ NoLoad.at = "none"
  BY <1>1, <1>6 DEF NoLoad, CardLoads
<1>9. CardsTypeOK'
  BY <1>1, <1>6, <1>8 DEF CardsTypeOK
<1>10. ASSUME NEW q \in Desks
       PROVE  /\ \/ desk'[q].sees = desk[q].sees
                 \/ refetch[q].at = "answered" /\ desk'[q].sees = refetch[q].row
              /\ \/ desk'[q].base = desk[q].base /\ desk'[q].filled = desk[q].filled
                 \/ desk'[q].base = 0
              /\ refetch'[q].at # "answered" \/ refetch'[q] = refetch[q]
  <2>1. CASE q # p
    BY <1>6, <1>8, <2>1
  <2>2. CASE q = p
    BY <1>1, <1>4, <1>6, <1>8, <2>2
  <2>3. QED BY <2>1, <2>2
<1>11. VersionsInv'
  BY <1>1, <1>6, <1>7, <1>9, <1>10, VersionsKept
<1>12. ASSUME NEW q \in Desks, Coming(q) PROVE Coming(q)'
  <2>1. CASE rumor[q] # <<>> \/ refetch[q].at = "asked"
    <3>1. refetch[q].at = "asked" => q # p
      BY <1>1
    <3>2. QED BY <1>6, <1>8, <2>1, <3>1 DEF Coming
  <2>2. ASSUME NEW x \in Desks, NEW o \in Patches, patch[x][o].phase = "written", q \in Audience(x, o)
        PROVE  Coming(q)'
    <3>1. patch'[x][o].phase = "written"
      BY <1>7, <2>2
    <3>2. QED BY <2>2, <3>1 DEF Coming, Audience
  <2>3. CASE patch[q]["delete"].phase \in {"written", "told"}
    <3>1. "delete" \in Patches
      BY DEF Patches
    <3>2. patch'[q]["delete"].phase \in {"written", "told"}
      BY <1>7, <2>3, <3>1
    <3>3. QED BY <3>2 DEF Coming
  <2>4. QED BY <1>12, <2>1, <2>2, <2>3 DEF Coming
<1>13. NewsInv'
  <2> SUFFICES ASSUME NEW q \in Desks
               PROVE  \/ q \in behind' \/ Coming(q)'
                      \/ IF refetch'[q].at = "answered" THEN refetch'[q].row = venture' ELSE desk'[q].sees = venture'
    BY DEF NewsInv
  <2>1. CASE q = p
    BY <1>1, <1>4, <1>6, <1>8, <1>12, <2>1 DEF NewsInv
  <2>2. CASE q # p
    BY <1>1, <1>6, <1>8, <1>12, <2>2 DEF NewsInv
  <2>3. QED BY <2>1, <2>2
<1>14. QED BY <1>9, <1>11, <1>13 DEF CardsInv

\* The load of a page fails: it shows what it showed, and is behind.
LEMMA LoadFailsStep == ASSUME CardsInv, NEW p \in Desks, LoadFails(p) PROVE CardsInv'
<1>1. /\ CardsTypeOK /\ VersionsInv /\ NewsInv /\ behind' = behind \cup {p}
      /\ desk[p] \in CardDesks /\ refetch \in [Desks -> CardLoads] /\ Loaded(p, desk[p])
  BY DEF CardsInv, CardsTypeOK, LoadFails
<1>2. /\ UNCHANGED <<venture, rumor>>
      /\ refetch' = [refetch EXCEPT ![p] = NoLoad]
      /\ desk' \in [Desks -> CardDesks]
      /\ \A q \in Desks : q # p => desk'[q] = desk[q]
      /\ desk'[p].sees = desk[p].sees
      /\ desk'[p].base = 0 \/ (desk'[p].base = desk[p].base /\ desk'[p].filled = desk[p].filled)
      /\ patch' \in [Desks -> PatchTables]
  BY <1>1, LoadedSets
<1>3. ASSUME NEW q \in Desks, NEW o \in Patches
      PROVE  /\ patch'[q][o].phase = patch[q][o].phase \/ patch[q][o].phase = "reloading"
             /\ patch'[q][o] # NoPatch =>
                   /\ patch[q][o] # NoPatch
                   /\ patch'[q][o].base = patch[q][o].base /\ patch'[q][o].filled = patch[q][o].filled
                   /\ patch'[q][o].to = patch[q][o].to
  BY <1>1, LoadedSets
<1>4. /\ \A q \in Desks : q # p => refetch'[q] = refetch[q]
      /\ refetch'[p] = NoLoad /\ NoLoad \in CardLoads /\ NoLoad.at = "none"
  BY <1>1, <1>2 DEF NoLoad, CardLoads
<1>5. CardsTypeOK'
  BY <1>1, <1>2, <1>4 DEF CardsTypeOK
<1>6. ASSUME NEW q \in Desks
      PROVE  /\ desk'[q].sees = desk[q].sees
             /\ \/ desk'[q].base = desk[q].base /\ desk'[q].filled = desk[q].filled
                \/ desk'[q].base = 0
             /\ refetch'[q].at # "answered" \/ refetch'[q] = refetch[q]
  <2>1. CASE q # p
    BY <1>2, <1>4, <2>1
  <2>2. CASE q = p
    BY <1>2, <1>4, <2>2
  <2>3. QED BY <2>1, <2>2
<1>7. VersionsInv'
  BY <1>1, <1>2, <1>3, <1>5, <1>6, VersionsKept
<1>8. ASSUME NEW q \in Desks, q # p, Coming(q) PROVE Coming(q)'
  <2>1. CASE rumor[q] # <<>> \/ refetch[q].at = "asked"
    BY <1>2, <1>4, <1>8, <2>1 DEF Coming
  <2>2. ASSUME NEW x \in Desks, NEW o \in Patches, patch[x][o].phase = "written", q \in Audience(x, o)
        PROVE  Coming(q)'
    <3>1. patch'[x][o].phase = "written"
      BY <1>3, <2>2
    <3>2. QED BY <2>2, <3>1 DEF Coming, Audience
  <2>3. CASE patch[q]["delete"].phase \in {"written", "told"}
    <3>1. "delete" \in Patches
      BY DEF Patches
    <3>2. patch'[q]["delete"].phase \in {"written", "told"}
      BY <1>3, <2>3, <3>1
    <3>3. QED BY <3>2 DEF Coming
  <2>4. QED BY <1>8, <2>1, <2>2, <2>3 DEF Coming
<1>9. NewsInv'
  <2> SUFFICES ASSUME NEW q \in Desks
               PROVE  \/ q \in behind' \/ Coming(q)'
                      \/ IF refetch'[q].at = "answered" THEN refetch'[q].row = venture' ELSE desk'[q].sees = venture'
    BY DEF NewsInv
  <2>1. CASE q = p
    BY <1>1, <2>1
  <2>2. CASE q # p
    BY <1>1, <1>2, <1>4, <1>8, <2>2 DEF NewsInv
  <2>3. QED BY <2>1, <2>2
<1>10. QED BY <1>5, <1>7, <1>9 DEF CardsInv

-----------------------------------------------------------------------------
\* Every step keeps the invariant.
LEMMA CardsNextStep == ASSUME CardsInv, [CardsNext]_cards PROVE CardsInv'
<1>1. CASE UNCHANGED cards
  <2>1. UNCHANGED <<venture, desk, patch, rumor, refetch, behind>>
    BY <1>1 DEF cards
  <2>2. QED BY <2>1 DEF CardsInv, CardsTypeOK, VersionsInv, NewsInv, Coming, Audience
<1>2. ASSUME NEW p \in Desks,
             \/ Elsewhere(p) \/ SetShowArchived(p) \/ OpenEditing(p) \/ HandleCancelEditing(p)
             \/ OpenConfirm(p) \/ HandleCancelConfirm(p) \/ HandleSubmitDetails(p) \/ HandleDeleteProject(p)
             \/ WriteDetails(p) \/ WriteDelete(p) \/ NotifyFails(p)
      PROVE  CardsInv'
  BY <1>2, ElsewhereStep, SetShowArchivedStep, TouchingStep, RequestsStep, WriteDetailsStep,
     WriteDeleteStep, NotifyFailsStep
<1>3. ASSUME NEW p \in Desks, NEW op \in Toggles, HandleToggle(p, op) \/ WriteToggle(p, op)
      PROVE  CardsInv'
  BY <1>3, RequestsStep, WriteToggleStep
<1>4. ASSUME NEW p \in Desks, NEW op \in Patches,
             \/ ReadPrevious(p, op) \/ EmitUpdated(p, op) \/ RequestBreaks(p, op)
             \/ PatchSucceeds(p, op) \/ PatchRefused(p, op)
      PROVE  CardsInv'
  BY <1>4, ReadPreviousStep, EmitUpdatedStep, RequestBreaksStep, PatchSucceedsStep, PatchRefusedStep
<1>5. ASSUME NEW p \in Desks,
             HearProject(p) \/ LoseRumors(p) \/ LoadReads(p) \/ LoadAnswers(p) \/ LoadFails(p)
      PROVE  CardsInv'
  BY <1>5, HearProjectStep, LoseRumorsStep, LoadReadsStep, LoadAnswersStep, LoadFailsStep
<1>6. QED BY <1>1, <1>2, <1>3, <1>4, <1>5 DEF CardsNext

\* Rows, pages, requests, events and loads stay what they are; versions keep
\* their names, and pages that are not up to date have news to come.
THEOREM CardsInvariant == CardsSpec => []CardsInv
<1>1. CardsInit => CardsInv
  BY CardsInitially
<1>2. CardsInv /\ [CardsNext]_cards => CardsInv'
  BY CardsNextStep
<1>3. QED BY <1>1, <1>2, PTL DEF CardsSpec

\* Pages that nothing is under way for show the project as it is.
THEOREM PagesFollowProject == CardsSpec => []CardsFollowProject
<1>1. CardsInv => CardsFollowProject
  <2> SUFFICES ASSUME CardsInv, NEW p \in Desks,
                      rumor[p] = <<>>, refetch[p] = NoLoad, p \notin behind,
                      \A q \in Desks, op \in Patches :
                         patch[q][op].phase # "written" /\ (op = "delete" => patch[q][op].phase # "told")
               PROVE  desk[p].sees = venture
    BY DEF CardsFollowProject
  <2>1. refetch[p].at = "none" /\ "delete" \in Patches
    BY DEF NoLoad, Patches
  <2>2. ~Coming(p)
    BY <2>1 DEF Coming
  <2>3. QED BY <2>1, <2>2 DEF CardsInv, NewsInv
<1>2. QED BY <1>1, CardsInvariant, PTL

-----------------------------------------------------------------------------
\* An edit that is read is written by a write of an edit, and by nothing else.
Saved(p) == patch[p]["details"].phase = "read" /\ patch'[p]["details"].phase = "written"

\* What users do saves no edit.
LEMMA UsersSaveNothing ==
    ASSUME CardsInv, NEW p \in Desks, NEW q \in Desks,
           \/ Elsewhere(p) \/ SetShowArchived(p) \/ OpenEditing(p) \/ HandleCancelEditing(p)
           \/ OpenConfirm(p) \/ HandleCancelConfirm(p) \/ HandleSubmitDetails(p) \/ HandleDeleteProject(p)
           \/ HearProject(p) \/ LoseRumors(p) \/ LoadReads(p) \/ LoadAnswers(p) \/ LoadFails(p)
           \/ \E op \in Toggles : HandleToggle(p, op)
    PROVE  ~Saved(q)
<1>1. CardsTypeOK /\ "details" \in Patches /\ "delete" \in Patches /\ Toggles \subseteq Patches
  BY DEF CardsInv, Patches
<1>2. CASE patch' = patch \/ patch' = [patch EXCEPT ![p] = Unheard(@)]
  BY <1>1, <1>2, UnheardPatch DEF Saved
<1>3. ASSUME NEW op \in Patches, NEW to \in Targets(op), Asks(p, op, to) PROVE ~Saved(q)
  <2>1. patch'[q]["details"].phase = patch[q]["details"].phase \/ patch'[q]["details"].phase = "sent"
    BY <1>1, <1>3, AsksSets
  <2>2. QED BY <2>1 DEF Saved
<1>4. CASE HandleSubmitDetails(p)
  BY <1>1, <1>3, <1>4 DEF HandleSubmitDetails, Targets
<1>5. CASE HandleDeleteProject(p)
  <2>1. Asks(p, "delete", FALSE) /\ FALSE \in Targets("delete")
    BY <1>5 DEF HandleDeleteProject, Targets
  <2>2. QED BY <1>1, <1>3, <2>1
<1>6. ASSUME NEW op \in Toggles, HandleToggle(p, op) PROVE ~Saved(q)
  <2>1. desk[p].sees.finished \in BOOLEAN /\ desk[p].sees.archived \in BOOLEAN
    BY DEF CardsInv, CardsTypeOK, CardDesks, CardRows
  <2>2. PICK to \in BOOLEAN : Asks(p, op, to)
    BY <1>6, <2>1 DEF HandleToggle
  <2>3. to \in Targets(op)
    BY DEF Targets, Toggles
  <2>4. QED BY <1>1, <1>3, <2>2, <2>3
<1>7. ASSUME NEW d \in CardDesks, Loaded(p, d) PROVE ~Saved(q)
  <2>1. patch'[q]["details"].phase = patch[q]["details"].phase \/ patch[q]["details"].phase = "reloading"
    BY <1>1, <1>7, LoadedSets
  <2>2. QED BY <2>1 DEF Saved
<1>8. CASE LoadAnswers(p)
  <2>1. desk[p] \in CardDesks /\ refetch[p].row \in CardRows
    <3>1. desk[p] \in CardDesks /\ refetch[p] \in CardLoads /\ refetch[p].at = "answered"
      BY <1>1, <1>8 DEF LoadAnswers, CardsTypeOK
    <3>2. QED BY <3>1 DEF CardLoads, NoLoad
  <2>2. [desk[p] EXCEPT !.sees = refetch[p].row] \in CardDesks
    BY <2>1 DEF CardDesks
  <2>3. QED BY <1>7, <1>8, <2>2 DEF LoadAnswers
<1>9. CASE LoadFails(p)
  BY <1>1, <1>7, <1>9 DEF LoadFails, CardsTypeOK
<1>10. CASE OpenEditing(p) \/ HandleCancelEditing(p) \/ OpenConfirm(p) \/ HandleCancelConfirm(p)
  BY <1>2, <1>10 DEF OpenEditing, HandleCancelEditing, OpenConfirm, HandleCancelConfirm, Touching
<1>11. CASE Elsewhere(p) \/ SetShowArchived(p)
  BY <1>2, <1>11 DEF Elsewhere, SetShowArchived
<1>12. CASE HearProject(p) \/ LoseRumors(p) \/ LoadReads(p)
  BY <1>2, <1>12 DEF HearProject, LoseRumors, LoadReads
<1>13. QED BY <1>4, <1>5, <1>6, <1>8, <1>9, <1>10, <1>11, <1>12

\* Of the backend and its answers, only the write of that very edit saves it.
LEMMA OneWriteSaves ==
    ASSUME CardsInv, NEW p \in Desks, NEW q \in Desks, Saved(q),
           \/ WriteDetails(p) \/ WriteDelete(p) \/ NotifyFails(p)
           \/ \E op \in Toggles : WriteToggle(p, op)
           \/ \E op \in Patches : \/ ReadPrevious(p, op) \/ EmitUpdated(p, op) \/ RequestBreaks(p, op)
                                  \/ PatchSucceeds(p, op) \/ PatchRefused(p, op)
    PROVE  p = q /\ WriteDetails(p)
<1>1. /\ CardsTypeOK /\ "details" \in Patches /\ "delete" \in Patches
      /\ Toggles \subseteq Patches /\ "details" \notin Toggles
  BY DEF CardsInv, Patches, Toggles
<1>2. ASSUME NEW op \in Patches, NEW ph \in CardPhases, patch[p][op].phase # "none", Phase(p, op, ph),
             p # q \/ op # "details" \/ ph # "written"
      PROVE  FALSE
  BY <1>1, <1>2, PhaseSets DEF Saved
<1>3. \A ph \in {"refused", "stale", "failed", "told", "reloading", "written"} : ph \in CardPhases
  BY DEF CardPhases
<1>4. ASSUME NEW op \in Patches, NEW r, Sends(p, op, r), r.phase # "written" PROVE FALSE
  BY <1>1, <1>4 DEF CardsTypeOK, PatchTables, Sends, Saved
<1>5. ASSUME NEW op \in Patches, ReadPrevious(p, op) PROVE FALSE
  <2>1. CASE venture.at = 0
    BY <1>2, <1>3, <1>5, <2>1 DEF ReadPrevious
  <2>2. CASE venture.at # 0
    <3>1. patch[p][op] \in SentPatches
      <4>1. patch[p] \in PatchTables /\ patch[p][op].phase = "sent"
        BY <1>1, <1>5 DEF CardsTypeOK, ReadPrevious
      <4>2. QED BY <4>1 DEF PatchTables, NoPatch
    <3>2. PICK r : r = [patch[p][op] EXCEPT !.phase = "read", !.previous = venture.name]
      OBVIOUS
    <3>3. r.phase = "read"
      BY <3>1, <3>2 DEF SentPatches
    <3>4. Sends(p, op, r)
      BY <1>5, <2>2, <3>2 DEF ReadPrevious
    <3>5. QED BY <1>4, <3>3, <3>4
  <2>3. QED BY <2>1, <2>2
<1>6. ASSUME NEW op \in Patches, EmitUpdated(p, op) \/ RequestBreaks(p, op) \/ PatchSucceeds(p, op) PROVE FALSE
  BY <1>2, <1>3, <1>6 DEF EmitUpdated, RequestBreaks, PatchSucceeds
<1>7. ASSUME NEW op \in Patches, PatchRefused(p, op) PROVE FALSE
  BY <1>4, <1>7 DEF PatchRefused, NoPatch
<1>8. ASSUME NEW op \in Toggles, WriteToggle(p, op) PROVE FALSE
  BY <1>1, <1>2, <1>3, <1>8 DEF WriteToggle
<1>9. CASE WriteDelete(p)
  BY <1>1, <1>2, <1>3, <1>9 DEF WriteDelete
<1>10. CASE NotifyFails(p)
  BY <1>1, <1>2, <1>3, <1>10 DEF NotifyFails
<1>11. CASE WriteDetails(p)
  BY <1>1, <1>2, <1>3, <1>11 DEF WriteDetails
<1>12. QED BY <1>5, <1>6, <1>7, <1>8, <1>9, <1>10, <1>11

\* An edit is saved over the very name that its author started from: nobody's
\* change is overwritten unseen.
THEOREM EditsOverwriteWhatWasSeen == CardsSpec => EditsKeepOthers
<1> DEFINE Keeps == \A p \in Desks : patch[p]["details"].phase = "read"
/\ patch'[p]["details"].phase = "written"
                       => venture.name = patch[p]["details"].filled
<1>1. CardsInv /\ [CardsNext]_cards => [Keeps]_cards
  <2> SUFFICES ASSUME CardsInv, CardsNext, NEW q \in Desks, Saved(q)
               PROVE  venture.name = patch[q]["details"].filled
    BY DEF Saved
  <2>1. WriteDetails(q)
    <3>1. PICK p \in Desks :
            \/ Elsewhere(p) \/ SetShowArchived(p) \/ OpenEditing(p) \/ HandleCancelEditing(p)
            \/ OpenConfirm(p) \/ HandleCancelConfirm(p) \/ HandleSubmitDetails(p) \/ HandleDeleteProject(p)
            \/ WriteDetails(p) \/ WriteDelete(p) \/ NotifyFails(p)
            \/ \E op \in Toggles : HandleToggle(p, op) \/ WriteToggle(p, op)
            \/ \E op \in Patches : \/ ReadPrevious(p, op) \/ EmitUpdated(p, op) \/ RequestBreaks(p, op)
                                   \/ PatchSucceeds(p, op) \/ PatchRefused(p, op)
            \/ HearProject(p) \/ LoseRumors(p) \/ LoadReads(p) \/ LoadAnswers(p) \/ LoadFails(p)
      BY DEF CardsNext
    <3>2. QED BY <3>1, UsersSaveNothing, OneWriteSaves
  <2>2. /\ patch[q]["details"] # NoPatch /\ "details" \in Patches /\ venture \in CardRows
        /\ SameVersion(patch[q]["details"])
    <3>1. CASE SameVersion(patch[q]["details"])
      BY <2>1, <3>1 DEF WriteDetails, NoPatch, Patches, CardsInv, CardsTypeOK
    <3>2. CASE ~SameVersion(patch[q]["details"])
      <4>1. PICK ph \in CardPhases : ph = "stale"
        BY DEF CardPhases
      <4>2. Phase(q, "details", ph) /\ patch[q]["details"].phase = "read" /\ "details" \in Patches
        BY <2>1, <3>2, <4>1 DEF WriteDetails, Patches
      <4>3. patch'[q]["details"].phase = "stale"
        BY <4>1, <4>2, PhaseSets DEF CardsInv
      <4>4. QED BY <4>3 DEF Saved
    <3>3. QED BY <3>1, <3>2
  <2>3. SameName(venture, patch[q]["details"].base, patch[q]["details"].filled)
    BY <2>2 DEF CardsInv, VersionsInv
  <2>4. QED BY <2>2, <2>3 DEF SameName, SameVersion
<1>2. QED BY <1>1, CardsInvariant, PTL DEF CardsSpec, EditsKeepOthers

-----------------------------------------------------------------------------
(* The field of a row and its lease.                                       *)

LeaseSockets == {<<>>} \cup (Pages \X Nat)
LockRows == [lock: LeaseSockets, token: Nat, draft: {"label", "typed"}, kept: BOOLEAN,
             save: {"no", "sent", "done", "failed"}, with: Nat, asked: BOOLEAN]
UpMessages == [m: {"lock", "unlock", "renew", "query"}, item: Labels, token: Nat]
DownMessages == [m: {"locked", "unlocked", "query", "refused", "answer"}, item: Labels,
                 socket: LeaseSockets, token: Nat]
LeaseRows == [socket: LeaseSockets, token: Nat]
Views == [socket: Nat, connected: BOOLEAN, editing: Labels \cup {NoItem}]

EditingTypeOK ==
    /\ lease \in [Labels -> LeaseRows] /\ granted \in Nat
    /\ view \in [Pages -> Views]
    /\ up \in [Pages -> Seq(UpMessages)] /\ down \in [Pages -> Seq(DownMessages)]
    /\ field \in [Pages -> [Labels -> LockRows]]

\* What a row makes of a message: it ends the lease it has, or it grants one.
Ends(m, s, i) ==
    /\ m.item = i
    /\ \/ m.m \in {"unlocked", "refused"}
       \/ m.m = "answer" /\ m.token = 0
       \/ m.m = "query" /\ m.socket # s
Grants(m, i) == m.item = i /\ m.m = "answer" /\ m.token # 0
Decides(m, s, i) == Ends(m, s, i) \/ Grants(m, i)

\* A row with this token will have the token v once its page, of socket s, has
\* heard these messages.
WillHold(token, messages, s, i, v) ==
    /\ v # 0
    /\ \/ token = v /\ \A n \in DOMAIN messages : ~Decides(messages[n], s, i)
       \/ \E k \in DOMAIN messages :
             /\ Grants(messages[k], i) /\ messages[k].token = v
             /\ \A n \in DOMAIN messages : n > k => ~Decides(messages[n], s, i)

EditingInv ==
    /\ EditingTypeOK
    /\ \A t \in Pages : view[t].editing # NoItem => field[t][view[t].editing].token # 0
    /\ \A t \in Pages : ~view[t].connected => down[t] = <<>> /\ \A i \in Labels : field[t][i].token = 0
    /\ \A t \in Pages, i \in Labels, v \in Nat :
          WillHold(field[t][i].token, down[t], Socket(t), i, v) => lease[i] = [socket |-> Socket(t), token |-> v]

\* What a render of these rows makes of a page, with this socket.
Renders(t, rows, number, on) ==
    /\ view' \in [Pages -> Views] /\ field' \in [Pages -> [Labels -> LockRows]]
    /\ view'[t].socket = number /\ view'[t].connected = on
    /\ \A i \in Labels : field'[t][i].token = rows[i].token
    /\ view'[t].editing # NoItem => view'[t].editing \in Labels /\ rows[view'[t].editing].token # 0
    /\ \A u \in Pages : u # t => view'[u] = view[u] /\ field'[u] = field[u]

\* What all have heard, and one has been answered.
Told(t, heard, answer) ==
    /\ down' \in [Pages -> Seq(DownMessages)]
    /\ \A u \in Pages : ~view[u].connected => down'[u] = down[u]
    /\ view[t].connected => down'[t] = Append(Append(down[t], heard), answer)
    /\ \A u \in Pages : u # t /\ view[u].connected => down'[u] = Append(down[u], heard)

\* The lease of a row is this now.
Gives(i, given) ==
    lease' \in [Labels -> LeaseRows] /\ lease'[i] = given /\ \A j \in Labels : j # i => lease'[j] = lease[j]

\* A token x became y at this message.
Decided(m, s, i, x, y) ==
    /\ Ends(m, s, i) => y = 0
    /\ Grants(m, i) => y = m.token
    /\ ~Decides(m, s, i) => y = x

\* One more message at the end of those on their way: it decides, or nothing
\* changes.
LEMMA OneMore ==
  ASSUME NEW q \in Seq(DownMessages), NEW m \in DownMessages, NEW x \in Nat, NEW s, NEW i, NEW v,
         WillHold(x, Append(q, m), s, i, v)
  PROVE  /\ ~Ends(m, s, i)
         /\ Grants(m, i) => v = m.token
         /\ ~Grants(m, i) => WillHold(x, q, s, i, v)
  <1>0. Append(q, m) \in Seq(DownMessages)
    OBVIOUS
  <1>. PICK r \in Seq(DownMessages) : r = Append(q, m)
    BY <1>0
  <1>1. /\ DOMAIN r = 1..Len(q) + 1 /\ DOMAIN q = 1..Len(q) /\ Len(q) \in Nat
        /\ r[Len(q) + 1] = m /\ \A n \in 1..Len(q) : r[n] = q[n]
    OBVIOUS
  <1>2. ~(Ends(m, s, i) /\ Grants(m, i))
    BY DEF Ends, Grants
  <1>. PICK z \in Nat : z = Len(q)
    BY <1>1
  <1>3. CASE x = v /\ \A n \in DOMAIN r : ~Decides(r[n], s, i)
    <2>1. ~Decides(m, s, i) /\ \A n \in DOMAIN q : ~Decides(q[n], s, i)
      BY <1>1, <1>3
    <2>. QED
      BY <1>3, <2>1 DEF WillHold, Decides
  <1>4. CASE \E k \in DOMAIN r : Grants(r[k], i) /\ r[k].token = v /\ \A n \in DOMAIN r : n > k => ~Decides(r[n], s, i)
    <2>. PICK k \in DOMAIN r : Grants(r[k], i) /\ r[k].token = v /\ \A n \in DOMAIN r : n > k => ~Decides(r[n], s, i)
      BY <1>4
    <2>1. CASE k = z + 1
      BY <1>1, <1>2, <2>1
    <2>2. CASE k # z + 1
      <3>1. k \in DOMAIN q /\ z + 1 > k /\ r[k] = q[k]
        BY <1>1, <2>2
      <3>2. ~Decides(m, s, i)
        BY <1>1, <3>1
      <3>3. \A n \in DOMAIN q : n > k => ~Decides(q[n], s, i)
        BY <1>1
      <3>. QED
        BY <3>1, <3>2, <3>3 DEF WillHold, Decides
    <2>. QED
      BY <2>1, <2>2
  <1>. QED
    BY <1>3, <1>4 DEF WillHold

\* The first message is heard.
LEMMA OneLess ==
  ASSUME NEW q \in Seq(DownMessages), q # <<>>, NEW x \in Nat, NEW y \in Nat, NEW s, NEW i, NEW v,
         Ends(Head(q), s, i) => y = 0,
         Grants(Head(q), i) => y = Head(q).token,
         ~Decides(Head(q), s, i) => y = x \/ y = 0,
         WillHold(y, Tail(q), s, i, v)
  PROVE  WillHold(x, q, s, i, v)
  <1>0. Tail(q) \in Seq(DownMessages)
    OBVIOUS
  <1>. PICK r \in Seq(DownMessages) : r = Tail(q)
    BY <1>0
  <1>. PICK h \in DownMessages : h = Head(q)
    OBVIOUS
  <1>. PICK z \in Nat : z = Len(r)
    OBVIOUS
  <1>1. DOMAIN r = 1..z /\ DOMAIN q = 1..z + 1 /\ q[1] = h /\ \A n \in 1..z : r[n] = q[n + 1]
    OBVIOUS
  <1>2. \A n \in 2..z + 1 : n - 1 \in 1..z /\ q[n] = r[n - 1]
    BY <1>1
  <1>3. CASE v # 0 /\ y = v /\ \A n \in DOMAIN r : ~Decides(r[n], s, i)
    <2>1. ASSUME NEW n \in DOMAIN q, n > 1 PROVE ~Decides(q[n], s, i)
      <3>1. n \in 2..z + 1 /\ n - 1 \in DOMAIN r
        BY <1>1, <2>1
      <3>. QED
        BY <1>2, <1>3, <3>1
    <2>2. CASE Decides(h, s, i)
      <3>1. Grants(h, i) /\ h.token = v
        BY <1>3, <2>2 DEF Decides
      <3>2. 1 \in DOMAIN q
        BY <1>1
      <3>. QED
        BY <1>1, <1>3, <2>1, <3>1, <3>2 DEF WillHold
    <2>3. CASE ~Decides(h, s, i)
      <3>1. \A n \in DOMAIN q : ~Decides(q[n], s, i)
        BY <1>1, <2>1, <2>3
      <3>2. x = v
        BY <1>3, <2>3
      <3>. QED
        BY <1>3, <3>1, <3>2 DEF WillHold
    <2>. QED
      BY <2>2, <2>3
  <1>4. CASE v # 0 /\ \E k \in DOMAIN r : Grants(r[k], i) /\ r[k].token = v /\ \A n \in DOMAIN r : n > k => ~Decides(r[n], s, i)
    <2>. PICK k \in DOMAIN r : Grants(r[k], i) /\ r[k].token = v /\ \A n \in DOMAIN r : n > k => ~Decides(r[n], s, i)
      BY <1>4
    <2>1. k + 1 \in DOMAIN q /\ q[k + 1] = r[k]
      BY <1>1
    <2>2. ASSUME NEW n \in DOMAIN q, n > k + 1 PROVE ~Decides(q[n], s, i)
      <3>1. n \in 2..z + 1 /\ n - 1 \in DOMAIN r /\ n - 1 > k
        BY <1>1, <2>2
      <3>. QED
        BY <1>2, <3>1
    <2>. QED
      BY <1>4, <2>1, <2>2 DEF WillHold
  <1>. QED
    BY <1>3, <1>4 DEF WillHold

\* A row that has lost its token will hold no more than before.
LEMMA WithoutToken ==
  ASSUME NEW x, NEW y, y = x \/ y = 0, NEW q, NEW s, NEW i, NEW v, WillHold(y, q, s, i, v)
  PROVE  WillHold(x, q, s, i, v)
  BY DEF WillHold
LEMMA NothingHeld ==
  ASSUME NEW s, NEW i, NEW v PROVE ~WillHold(0, <<>>, s, i, v)
  BY DEF WillHold

\* A render shows these rows: their tokens stay, and what is edited has one.
LEMMA Rendered ==
  ASSUME EditingTypeOK, NEW t \in Pages, NEW rows \in [Labels -> LockRows], NEW item \in Labels \cup {NoItem},
         NEW number \in Nat, NEW on \in BOOLEAN, NEW socket, socket = <<number, on>>, Render(t, rows, item, socket)
  PROVE  Renders(t, rows, number, on)
  <1>. PICK stops \in BOOLEAN :
         stops = (item # NoItem /\ (rows[item].token = 0 \/ rows[item].lock \notin {<<>>, <<t, number>>}))
    OBVIOUS
  <1>. PICK stays \in Labels \cup {NoItem} : stays = IF stops THEN NoItem ELSE item
    OBVIOUS
  <1>. PICK v \in Views : v = view[t]
    BY DEF EditingTypeOK
  <1>. PICK w : w = [v EXCEPT !.editing = stays, !.socket = number, !.connected = on]
    OBVIOUS
  <1>1. w \in Views /\ w.editing = stays /\ w.socket = number /\ w.connected = on
    BY DEF Views
  <1>2. view' = [view EXCEPT ![t] = w]
    BY DEF Render, EditingTypeOK
  <1>. PICK seen : seen = [i \in Labels |->
                  IF stops /\ i = item THEN [rows[i] EXCEPT !.kept = TRUE]
                  ELSE IF i # stays /\ ~rows[i].kept THEN [rows[i] EXCEPT !.draft = "label"]
                  ELSE rows[i]]
    OBVIOUS
  <1>3. ASSUME NEW i \in Labels PROVE seen[i] \in LockRows /\ seen[i].token = rows[i].token
    <2>. PICK r \in LockRows : r = rows[i]
      OBVIOUS
    <2>1. [r EXCEPT !.kept = TRUE] \in LockRows /\ [r EXCEPT !.kept = TRUE].token = r.token
      BY DEF LockRows
    <2>2. [r EXCEPT !.draft = "label"] \in LockRows /\ [r EXCEPT !.draft = "label"].token = r.token
      BY DEF LockRows
    <2>. QED
      BY <2>1, <2>2
  <1>4. seen \in [Labels -> LockRows]
    BY <1>3
  <1>5. field' = [field EXCEPT ![t] = seen]
    BY DEF Render
  <1>6. view' \in [Pages -> Views] /\ view'[t] = w /\ \A u \in Pages : u # t => view'[u] = view[u]
    BY <1>1, <1>2 DEF EditingTypeOK
  <1>7. field' \in [Pages -> [Labels -> LockRows]] /\ field'[t] = seen /\ \A u \in Pages : u # t => field'[u] = field[u]
    BY <1>4, <1>5 DEF EditingTypeOK
  <1>8. stays # NoItem => stays \in Labels /\ rows[stays].token # 0
    OBVIOUS
  <1>. QED
    BY <1>1, <1>3, <1>6, <1>7, <1>8 DEF Renders
LEMMA Shown ==
  ASSUME EditingInv, NEW t \in Pages, NEW rows \in [Labels -> LockRows], NEW item \in Labels \cup {NoItem},
         Show(t, rows, item)
  PROVE  Renders(t, rows, view[t].socket, view[t].connected)
  <1>1. EditingTypeOK
    BY DEF EditingInv
  <1>2. view[t].socket \in Nat /\ view[t].connected \in BOOLEAN
    BY <1>1 DEF EditingTypeOK, Views
  <1>. PICK number \in Nat, on \in BOOLEAN : number = view[t].socket /\ on = view[t].connected
    BY <1>2
  <1>. PICK socket : socket = <<number, on>>
    OBVIOUS
  <1>3. Render(t, rows, item, socket)
    BY DEF Show
  <1>. QED
    BY <1>1, <1>3, Rendered

\* Tokens, messages to the pages and leases stay.
LEMMA TokensStay ==
  ASSUME EditingInv, UNCHANGED <<lease, granted, view, down>>, up' \in [Pages -> Seq(UpMessages)],
         field' \in [Pages -> [Labels -> LockRows]],
         \A t \in Pages, i \in Labels : field'[t][i].token = field[t][i].token
  PROVE  EditingInv'
  <1>1. EditingTypeOK'
    BY DEF EditingInv, EditingTypeOK
  <1>2. \A t \in Pages : view[t].editing \in Labels \cup {NoItem}
    BY DEF EditingInv, EditingTypeOK, Views
  <1>3. \A t \in Pages : Socket(t)' = Socket(t)
    BY DEF Socket
  <1>4. \A t \in Pages : view'[t].editing # NoItem => field'[t][view'[t].editing].token # 0
    BY <1>2 DEF EditingInv
  <1>5. \A t \in Pages : ~view'[t].connected => down'[t] = <<>> /\ \A i \in Labels : field'[t][i].token = 0
    BY DEF EditingInv
  <1>6. ASSUME NEW t \in Pages, NEW i \in Labels, NEW v \in Nat, WillHold(field'[t][i].token, down'[t], Socket(t)', i, v)
        PROVE  lease'[i] = [socket |-> Socket(t)', token |-> v]
    <2>1. WillHold(field[t][i].token, down[t], Socket(t), i, v)
      BY <1>3, <1>6
    <2>. QED
      BY <1>3, <2>1 DEF EditingInv
  <1>. QED
    BY <1>1, <1>4, <1>5, <1>6 DEF EditingInv

\* A page renders rows, after it has heard messages or not, with a connection
\* or without: what it will hold is what the server has given to it.
LEMMA PageRenders ==
  ASSUME EditingInv, NEW t \in Pages, NEW rows, NEW number, NEW on, Renders(t, rows, number, on),
         UNCHANGED <<lease, granted>>, up' \in [Pages -> Seq(UpMessages)],
         down' \in [Pages -> Seq(DownMessages)], \A u \in Pages : u # t => down'[u] = down[u],
         ~on => down'[t] = <<>> /\ \A i \in Labels : rows[i].token = 0,
         \A i \in Labels, v \in Nat : WillHold(rows[i].token, down'[t], Socket(t)', i, v)
                                        => lease[i] = [socket |-> Socket(t)', token |-> v]
  PROVE  EditingInv'
  <1>1. EditingTypeOK
    BY DEF EditingInv
  <1>2. /\ view' \in [Pages -> Views] /\ field' \in [Pages -> [Labels -> LockRows]]
        /\ view'[t].socket = number /\ view'[t].connected = on
        /\ \A i \in Labels : field'[t][i].token = rows[i].token
        /\ view'[t].editing # NoItem => view'[t].editing \in Labels /\ rows[view'[t].editing].token # 0
        /\ \A u \in Pages : u # t => view'[u] = view[u] /\ field'[u] = field[u]
    BY DEF Renders
  <1>4. EditingTypeOK'
    BY <1>1, <1>2 DEF EditingTypeOK
  <1>5. ASSUME NEW u \in Pages
        PROVE  /\ view'[u].editing # NoItem => field'[u][view'[u].editing].token # 0
               /\ ~view'[u].connected => down'[u] = <<>> /\ \A i \in Labels : field'[u][i].token = 0
               /\ \A i \in Labels, v \in Nat : WillHold(field'[u][i].token, down'[u], Socket(u)', i, v)
                    => lease'[i] = [socket |-> Socket(u)', token |-> v]
    <2>1. CASE u = t
      <3>2. view'[u].editing # NoItem => field'[u][view'[u].editing].token # 0
        BY <1>2, <2>1
      <3>3. ~view'[u].connected => down'[u] = <<>> /\ \A i \in Labels : field'[u][i].token = 0
        BY <1>2, <2>1
      <3>4. ASSUME NEW i \in Labels, NEW v \in Nat, WillHold(field'[u][i].token, down'[u], Socket(u)', i, v)
            PROVE  lease'[i] = [socket |-> Socket(u)', token |-> v]
        <4>1. WillHold(rows[i].token, down'[t], Socket(t)', i, v)
          BY <1>2, <2>1, <3>4
        <4>. QED
          BY <2>1, <4>1
      <3>. QED
        BY <3>2, <3>3, <3>4
    <2>2. CASE u # t
      <3>1. Socket(u)' = Socket(u) /\ view'[u] = view[u] /\ field'[u] = field[u] /\ down'[u] = down[u]
        BY <1>2, <2>2 DEF Socket
      <3>. QED
        BY <3>1 DEF EditingInv
    <2>. QED
      BY <2>1, <2>2
  <1>. QED
    BY <1>4, <1>5 DEF EditingInv

\* A page shows rows that have the tokens it had, or none.
LEMMA PageShows ==
  ASSUME EditingInv, NEW t \in Pages, NEW rows \in [Labels -> LockRows], NEW item \in Labels \cup {NoItem},
         Show(t, rows, item), UNCHANGED <<lease, granted, down>>, up' \in [Pages -> Seq(UpMessages)],
         \A i \in Labels : rows[i].token = field[t][i].token \/ rows[i].token = 0
  PROVE  EditingInv'
  <1>1. Renders(t, rows, view[t].socket, view[t].connected)
    BY Shown
  <1>2. down' \in [Pages -> Seq(DownMessages)] /\ \A u \in Pages : u # t => down'[u] = down[u]
    BY DEF EditingInv, EditingTypeOK
  <1>3. ~view[t].connected => down'[t] = <<>> /\ \A i \in Labels : rows[i].token = 0
    BY DEF EditingInv
  <1>4. Socket(t)' = Socket(t)
    BY <1>1 DEF Renders, Socket
  <1>5. ASSUME NEW i \in Labels, NEW v \in Nat, WillHold(rows[i].token, down'[t], Socket(t)', i, v)
        PROVE  lease[i] = [socket |-> Socket(t)', token |-> v]
    <2>1. WillHold(field[t][i].token, down[t], Socket(t), i, v)
      BY <1>4, <1>5, WithoutToken
    <2>. QED
      BY <1>4, <2>1 DEF EditingInv
  <1>. QED
    BY <1>1, <1>2, <1>3, <1>5, PageRenders

LEMMA SavedRow ==
  ASSUME NEW r \in LockRows
  PROVE  SavedOnLeave(r) \in LockRows /\ SavedOnLeave(r).token = r.token /\ SavedOnLeave(r).lock = r.lock
  <1>1. CASE r.save # "no" \/ r.token = 0
    BY <1>1 DEF SavedOnLeave
  <1>2. CASE ~(r.save # "no" \/ r.token = 0)
    <2>. PICK n \in Nat, s \in {"done", "sent"} : n = r.token /\ s = IF r.draft = "label" THEN "done" ELSE "sent"
      BY DEF LockRows
    <2>1. SavedOnLeave(r) = [r EXCEPT !.with = n, !.save = s]
      BY <1>2 DEF SavedOnLeave
    <2>. QED
      BY <2>1 DEF LockRows
  <1>. QED
    BY <1>1, <1>2

LEMMA Emitted ==
  ASSUME EditingTypeOK, NEW t \in Pages, NEW m \in UpMessages, EmitUp(t, m)
  PROVE  up' \in [Pages -> Seq(UpMessages)]
  <1>1. Append(up[t], m) \in Seq(UpMessages)
    BY DEF EditingTypeOK
  <1>. QED
    BY <1>1 DEF EmitUp, EditingTypeOK

LEMMA StartEditSteps ==
  ASSUME EditingInv, NEW t \in Pages, NEW i \in Labels, StartEdit(t, i)
  PROVE  EditingInv'
  <1>1. up' \in [Pages -> Seq(UpMessages)]
    <2>. PICK m : m = [m |-> "lock", item |-> i, token |-> 0]
      OBVIOUS
    <2>1. m \in UpMessages
      BY DEF UpMessages
    <2>2. EmitUp(t, m)
      BY DEF StartEdit
    <2>. QED
      BY <2>1, <2>2, Emitted DEF EditingInv
  <1>. PICK open : open = view[t].editing
    OBVIOUS
  <1>. PICK rows : rows = [j \in Labels |->
                  IF j = i THEN [field[t][j] EXCEPT !.asked = TRUE]
                  ELSE IF j = open THEN SavedOnLeave(field[t][j]) ELSE field[t][j]]
    OBVIOUS
  <1>2. ASSUME NEW j \in Labels PROVE rows[j] \in LockRows /\ rows[j].token = field[t][j].token
    <2>. PICK r \in LockRows : r = field[t][j]
      BY DEF EditingInv, EditingTypeOK
    <2>1. [r EXCEPT !.asked = TRUE] \in LockRows /\ [r EXCEPT !.asked = TRUE].token = r.token
      BY DEF LockRows
    <2>2. SavedOnLeave(r) \in LockRows /\ SavedOnLeave(r).token = r.token
      BY SavedRow
    <2>. QED
      BY <2>1, <2>2
  <1>3. field' = [field EXCEPT ![t] = rows]
    BY DEF StartEdit
  <1>4. rows \in [Labels -> LockRows]
    BY <1>2
  <1>5. field' \in [Pages -> [Labels -> LockRows]] /\ field'[t] = rows /\ \A u \in Pages : u # t => field'[u] = field[u]
    BY <1>3, <1>4 DEF EditingInv, EditingTypeOK
  <1>6. \A u \in Pages, j \in Labels : field'[u][j].token = field[u][j].token
    BY <1>2, <1>5
  <1>7. UNCHANGED <<lease, granted, view, down>>
    BY DEF StartEdit
  <1>. QED
    BY <1>1, <1>5, <1>6, <1>7, TokensStay

\* A row of a page changes, but for its token.
LEMMA RowChanges ==
  ASSUME EditingInv, NEW t \in Pages, NEW i \in Labels, NEW r \in LockRows, r.token = field[t][i].token,
         field' = [field EXCEPT ![t][i] = r], UNCHANGED <<lease, granted, view, up, down>>
  PROVE  EditingInv'
  <1>1. field' \in [Pages -> [Labels -> LockRows]]
    BY DEF EditingInv, EditingTypeOK
  <1>2. \A u \in Pages, j \in Labels : field'[u][j].token = field[u][j].token
    BY DEF EditingInv, EditingTypeOK
  <1>3. up' \in [Pages -> Seq(UpMessages)]
    BY DEF EditingInv, EditingTypeOK
  <1>. QED
    BY <1>1, <1>2, <1>3, TokensStay

LEMMA TypeSteps ==
  ASSUME EditingInv, NEW t \in Pages, Type(t) \/ CommitLabel(t)
  PROVE  EditingInv'
  <1>. PICK i \in Labels : i = view[t].editing
    BY DEF Type, CommitLabel, EditingInv, EditingTypeOK, Views
  <1>. PICK r \in LockRows : r = field[t][i]
    BY DEF EditingInv, EditingTypeOK
  <1>1. CASE Type(t)
    <2>. PICK n : n = [r EXCEPT !.draft = "typed"]
      OBVIOUS
    <2>1. n \in LockRows /\ n.token = r.token
      BY DEF LockRows
    <2>2. field' = [field EXCEPT ![t][i] = n]
      BY <1>1 DEF Type, EditingInv, EditingTypeOK
    <2>3. UNCHANGED <<lease, granted, view, up, down>>
      BY <1>1 DEF Type
    <2>. QED
      BY <2>1, <2>2, <2>3, RowChanges
  <1>2. CASE CommitLabel(t)
    <2>1. SavedOnLeave(r) \in LockRows /\ SavedOnLeave(r).token = r.token
      BY SavedRow
    <2>2. field' = [field EXCEPT ![t][i] = SavedOnLeave(r)]
      BY <1>2 DEF CommitLabel
    <2>3. UNCHANGED <<lease, granted, view, up, down>>
      BY <1>2 DEF CommitLabel
    <2>. QED
      BY <2>1, <2>2, <2>3, RowChanges
  <1>. QED
    BY <1>1, <1>2

LEMMA PatchSteps ==
  ASSUME EditingInv, NEW t \in Pages, NEW i \in Labels, NEW admitted \in BOOLEAN, Patch(t, i, admitted)
  PROVE  EditingInv'
  <1>. PICK r \in LockRows : r = field[t][i]
    BY DEF EditingInv, EditingTypeOK
  <1>. PICK s \in {"done", "failed"} : s = IF admitted THEN "done" ELSE "failed"
    OBVIOUS
  <1>. PICK n : n = [r EXCEPT !.save = s]
    OBVIOUS
  <1>1. n \in LockRows /\ n.token = r.token
    BY DEF LockRows
  <1>2. field' = [field EXCEPT ![t][i] = n]
    BY DEF Patch, EditingInv, EditingTypeOK
  <1>3. UNCHANGED <<lease, granted, view, up, down>>
    BY DEF Patch
  <1>. QED
    BY <1>1, <1>2, <1>3, RowChanges

LEMMA RenewSteps ==
  ASSUME EditingInv, NEW t \in Pages, NEW i \in Labels, Renew(t, i)
  PROVE  EditingInv'
  <1>. PICK k \in Nat : k = field[t][i].token
    BY DEF EditingInv, EditingTypeOK, LockRows
  <1>. PICK m : m = [m |-> "renew", item |-> i, token |-> k]
    OBVIOUS
  <1>1. m \in UpMessages
    BY DEF UpMessages
  <1>2. EmitUp(t, m) /\ UNCHANGED <<lease, granted, view, down, field>>
    BY DEF Renew
  <1>3. up' \in [Pages -> Seq(UpMessages)]
    BY <1>1, <1>2, Emitted DEF EditingInv
  <1>4. field' \in [Pages -> [Labels -> LockRows]]
    BY <1>2 DEF EditingInv, EditingTypeOK
  <1>. QED
    BY <1>2, <1>3, <1>4, TokensStay

\* release: the row gives its lease back, and nothing is edited any more.
LEMMA StopShows ==
  ASSUME NEW t \in Pages, NEW i \in Labels, NEW rows \in [Labels -> LockRows], Stop(t, rows, i)
  PROVE  /\ \E m \in UpMessages : EmitUp(t, m)
         /\ \E after \in [Labels -> LockRows], item \in Labels \cup {NoItem} :
               Show(t, after, item) /\ \A j \in Labels : after[j].token = rows[j].token \/ after[j].token = 0
  <1>. PICK r \in LockRows : r = rows[i]
    OBVIOUS
  <1>. PICK m : m = [m |-> "unlock", item |-> i, token |-> 0]
    OBVIOUS
  <1>1. m \in UpMessages
    BY DEF UpMessages
  <1>2. EmitUp(t, m)
    BY DEF Stop
  <1>. PICK n : n = [r EXCEPT !.lock = <<>>, !.token = 0]
    OBVIOUS
  <1>3. n \in LockRows /\ n.token = 0
    BY DEF LockRows, LeaseSockets
  <1>. PICK after : after = [rows EXCEPT ![i] = n]
    OBVIOUS
  <1>4. after \in [Labels -> LockRows] /\ \A j \in Labels : after[j].token = rows[j].token \/ after[j].token = 0
    BY <1>3
  <1>5. Show(t, after, NoItem)
    BY DEF Stop
  <1>. QED
    BY <1>1, <1>2, <1>4, <1>5

LEMMA Stopped ==
  ASSUME EditingInv, NEW t \in Pages, NEW i \in Labels, NEW rows \in [Labels -> LockRows], Stop(t, rows, i),
         UNCHANGED <<lease, granted, down>>, \A j \in Labels : rows[j].token = field[t][j].token
  PROVE  EditingInv'
  <1>1. EditingTypeOK
    BY DEF EditingInv
  <1>2. up' \in [Pages -> Seq(UpMessages)]
    BY <1>1, StopShows, Emitted
  <1>. PICK after \in [Labels -> LockRows], item \in Labels \cup {NoItem} :
         Show(t, after, item) /\ \A j \in Labels : after[j].token = rows[j].token \/ after[j].token = 0
    BY StopShows
  <1>3. \A j \in Labels : after[j].token = field[t][j].token \/ after[j].token = 0
    OBVIOUS
  <1>. QED
    BY <1>2, <1>3, PageShows

LEMMA CancelSteps ==
  ASSUME EditingInv, NEW t \in Pages, Cancel(t)
  PROVE  EditingInv'
  <1>. PICK i \in Labels : i = view[t].editing
    BY DEF Cancel, EditingInv, EditingTypeOK, Views
  <1>. PICK r \in LockRows : r = field[t][i]
    BY DEF EditingInv, EditingTypeOK
  <1>. PICK n : n = [r EXCEPT !.kept = FALSE, !.draft = "label"]
    OBVIOUS
  <1>1. n \in LockRows /\ n.token = r.token
    BY DEF LockRows
  <1>2. field[t] \in [Labels -> LockRows]
    BY DEF EditingInv, EditingTypeOK
  <1>. PICK before \in [Labels -> LockRows] : before = field[t]
    BY <1>2
  <1>. PICK rows : rows = [before EXCEPT ![i] = n]
    OBVIOUS
  <1>3. rows \in [Labels -> LockRows] /\ \A j \in Labels : rows[j].token = field[t][j].token
    BY <1>1
  <1>4. Stop(t, rows, i) /\ UNCHANGED <<lease, granted, down>>
    BY DEF Cancel
  <1>. QED
    BY <1>3, <1>4, Stopped, ZenonT(40)

LEMMA SettleSteps ==
  ASSUME EditingInv, NEW t \in Pages, NEW i \in Labels, Settle(t, i)
  PROVE  EditingInv'
  <1>. PICK r \in LockRows : r = field[t][i]
    BY DEF EditingInv, EditingTypeOK
  <1>1. field[t] \in [Labels -> LockRows]
    BY DEF EditingInv, EditingTypeOK
  <1>. PICK before \in [Labels -> LockRows] : before = field[t]
    BY <1>1
  <1>. PICK n : n = [r EXCEPT !.save = "no", !.with = 0]
    OBVIOUS
  <1>2. n \in LockRows /\ n.token = r.token
    BY DEF LockRows
  <1>. PICK rows : rows = [before EXCEPT ![i] = n]
    OBVIOUS
  <1>3. rows \in [Labels -> LockRows] /\ \A j \in Labels : rows[j].token = field[t][j].token
    BY <1>2
  <1>4. UNCHANGED <<lease, granted, down>>
    BY DEF Settle
  <1>5. CASE r.save = "done"
    <2>. PICK d : d = [n EXCEPT !.draft = "label"]
      OBVIOUS
    <2>1. d \in LockRows /\ d.token = n.token
      BY <1>2 DEF LockRows
    <2>. PICK after : after = [before EXCEPT ![i] = d]
      OBVIOUS
    <2>2. after \in [Labels -> LockRows] /\ \A j \in Labels : after[j].token = field[t][j].token
      BY <1>2, <2>1
    <2>3. after = [rows EXCEPT ![i].draft = "label"]
      OBVIOUS
    <2>4. rows = [field[t] EXCEPT ![i].save = "no", ![i].with = 0]
      OBVIOUS
    <2>5. Stop(t, [rows EXCEPT ![i].draft = "label"], i)
      BY <1>5, <2>4 DEF Settle
    <2>6. Stop(t, after, i)
      BY <2>3, <2>5
    <2>. QED
      BY <1>4, <2>2, <2>6, Stopped, ZenonT(40)
  <1>6. CASE r.save # "done"
    <2>1. view[t].editing \in Labels \cup {NoItem}
      BY DEF EditingInv, EditingTypeOK, Views
    <2>2. Show(t, rows, view[t].editing) /\ up' = up
      BY <1>6 DEF Settle
    <2>3. up' \in [Pages -> Seq(UpMessages)]
      BY <2>2 DEF EditingInv, EditingTypeOK
    <2>. QED
      BY <1>3, <1>4, <2>1, <2>2, <2>3, PageShows
  <1>. QED
    BY <1>5, <1>6

-----------------------------------------------------------------------------
\* The server: what it does to leases and says to the pages.
LEMMA ServerSays ==
  ASSUME EditingInv, UNCHANGED <<view, field>>, granted' \in Nat, up' \in [Pages -> Seq(UpMessages)],
         lease' \in [Labels -> LeaseRows], down' \in [Pages -> Seq(DownMessages)],
         \A u \in Pages : ~view[u].connected => down'[u] = down[u],
         \A u \in Pages, i \in Labels, v \in Nat :
            view[u].connected /\ WillHold(field[u][i].token, down'[u], Socket(u), i, v)
               => lease'[i] = [socket |-> Socket(u), token |-> v]
  PROVE  EditingInv'
  <1>1. EditingTypeOK'
    BY DEF EditingInv, EditingTypeOK
  <1>2. \A u \in Pages : Socket(u)' = Socket(u)
    BY DEF Socket
  <1>3. ASSUME NEW u \in Pages, NEW i \in Labels, NEW v \in Nat, WillHold(field'[u][i].token, down'[u], Socket(u)', i, v)
        PROVE  lease'[i] = [socket |-> Socket(u)', token |-> v]
    <2>1. WillHold(field[u][i].token, down'[u], Socket(u), i, v)
      BY <1>2, <1>3
    <2>2. CASE ~view[u].connected
      <3>1. field[u][i].token = 0 /\ down'[u] = <<>>
        BY <2>2 DEF EditingInv
      <3>. QED
        BY <2>1, <3>1, NothingHeld
    <2>3. CASE view[u].connected
      BY <1>2, <2>1, <2>3
    <2>. QED
      BY <2>2, <2>3
  <1>4. \A t \in Pages : view'[t].editing # NoItem => field'[t][view'[t].editing].token # 0
    BY DEF EditingInv
  <1>5. \A t \in Pages : ~view'[t].connected => down'[t] = <<>> /\ \A i \in Labels : field'[t][i].token = 0
    BY DEF EditingInv
  <1>. QED
    BY <1>1, <1>3, <1>4, <1>5 DEF EditingInv

\* What is on its way to the pages after the server has said this.
LEMMA SaidTo ==
  ASSUME EditingTypeOK, NEW ms, Sent(ms), \A u \in Pages : ms[u] \in Seq(DownMessages)
  PROVE  /\ down' \in [Pages -> Seq(DownMessages)]
         /\ \A u \in Pages : ~view[u].connected => down'[u] = down[u]
         /\ \A u \in Pages : view[u].connected => down'[u] = down[u] \o ms[u]
  <1>1. \A u \in Pages : down[u] \in Seq(DownMessages) /\ down[u] \o ms[u] \in Seq(DownMessages)
    BY DEF EditingTypeOK
  <1>. QED
    BY <1>1 DEF Sent

LEMMA AtTheEnd ==
  ASSUME NEW q \in Seq(DownMessages)
  PROVE  /\ q \o <<>> = q
         /\ \A m \in DownMessages : <<m>> \in Seq(DownMessages) /\ <<m>> \o <<>> = <<m>> /\ q \o <<m>> = Append(q, m)
         /\ \A m \in DownMessages, a \in DownMessages :
               <<m>> \o <<a>> \in Seq(DownMessages) /\ q \o (<<m>> \o <<a>>) = Append(Append(q, m), a)
  <1>1. q \o <<>> = q
    OBVIOUS
  <1>2. ASSUME NEW p \in Seq(DownMessages), NEW m \in DownMessages
        PROVE  <<m>> \in Seq(DownMessages) /\ p \o <<m>> = Append(p, m) /\ Append(p, m) \in Seq(DownMessages)
    OBVIOUS
  <1>3. ASSUME NEW m \in DownMessages PROVE <<m>> \o <<>> = <<m>>
    OBVIOUS
  <1>4. \A o \in Seq(DownMessages), p \in Seq(DownMessages), r \in Seq(DownMessages) : (o \o p) \o r = o \o (p \o r)
    OBVIOUS
  <1>5. ASSUME NEW m \in DownMessages, NEW a \in DownMessages
        PROVE  <<m>> \o <<a>> \in Seq(DownMessages) /\ q \o (<<m>> \o <<a>>) = Append(Append(q, m), a)
    <2>. PICK o \in Seq(DownMessages), r \in Seq(DownMessages) : o = <<m>> /\ r = <<a>>
      BY <1>2
    <2>1. q \o (o \o r) = (q \o o) \o r
      BY <1>4
    <2>2. q \o o = Append(q, m) /\ Append(q, m) \in Seq(DownMessages)
      BY <1>2
    <2>3. Append(q, m) \o r = Append(Append(q, m), a)
      BY <1>2, <2>2
    <2>4. o \o r \in Seq(DownMessages)
      OBVIOUS
    <2>. QED
      BY <2>1, <2>2, <2>3, <2>4
  <1>. QED
    BY <1>1, <1>2, <1>3, <1>5

\* The server has a message from a page.
LEMMA ReceivedFrom ==
  ASSUME EditingTypeOK, NEW t \in Pages, NEW what, Received(t, what)
  PROVE  /\ Head(up[t]) \in UpMessages /\ up' \in [Pages -> Seq(UpMessages)] /\ view[t].connected
         /\ UNCHANGED <<view, field>>
  <1>1. up[t] \in Seq(UpMessages) /\ up[t] # <<>>
    BY DEF EditingTypeOK, Received
  <1>2. Head(up[t]) \in UpMessages /\ Tail(up[t]) \in Seq(UpMessages)
    BY <1>1
  <1>. QED
    BY <1>2 DEF Received, EditingTypeOK

\* A lease ends, and all are told.
LEMMA LeaseEnds ==
  ASSUME EditingInv, NEW i \in Labels, lease' = [lease EXCEPT ![i] = NoLease], Sent(ToAll(LeaseEnded(i))),
         UNCHANGED <<granted, view, field>>, up' \in [Pages -> Seq(UpMessages)]
  PROVE  EditingInv'
  <1>. PICK m : m = LeaseEnded(i)
    OBVIOUS
  <1>1. m \in DownMessages /\ m.item = i /\ m.m = "unlocked"
    BY DEF LeaseEnded, Message, DownMessages, LeaseSockets
  <1>. PICK ms : ms = ToAll(m)
    OBVIOUS
  <1>2. \A u \in Pages : ms[u] = <<m>> /\ ms[u] \in Seq(DownMessages)
    BY <1>1 DEF ToAll
  <1>3. EditingTypeOK /\ Sent(ms)
    BY DEF EditingInv
  <1>4. /\ down' \in [Pages -> Seq(DownMessages)]
        /\ \A u \in Pages : ~view[u].connected => down'[u] = down[u]
        /\ \A u \in Pages : view[u].connected => down'[u] = down[u] \o ms[u]
    BY <1>2, <1>3, SaidTo
  <1>5. NoLease \in LeaseRows
    BY DEF NoLease, LeaseRows, LeaseSockets
  <1>6. lease' \in [Labels -> LeaseRows] /\ \A j \in Labels : j # i => lease'[j] = lease[j]
    BY <1>3, <1>5 DEF EditingTypeOK
  <1>7. ASSUME NEW u \in Pages, NEW j \in Labels, NEW v \in Nat, view[u].connected,
               WillHold(field[u][j].token, down'[u], Socket(u), j, v)
        PROVE  lease'[j] = [socket |-> Socket(u), token |-> v]
    <2>1. down[u] \in Seq(DownMessages) /\ field[u][j].token \in Nat
      BY <1>3 DEF EditingTypeOK, LockRows
    <2>2. down'[u] = Append(down[u], m)
      <3>1. down'[u] = down[u] \o <<m>>
        BY <1>2, <1>4, <1>7
      <3>2. down[u] \o <<m>> = Append(down[u], m)
        BY <1>1, <2>1, AtTheEnd
      <3>. QED
        BY <3>1, <3>2
    <2>3. WillHold(field[u][j].token, Append(down[u], m), Socket(u), j, v)
      BY <1>7, <2>2
    <2>4. ~Ends(m, Socket(u), j) /\ (~Grants(m, j) => WillHold(field[u][j].token, down[u], Socket(u), j, v))
      BY <1>1, <2>1, <2>3, OneMore
    <2>5. j # i /\ ~Grants(m, j)
      BY <1>1, <2>4 DEF Ends, Grants
    <2>6. lease[j] = [socket |-> Socket(u), token |-> v]
      BY <2>4, <2>5 DEF EditingInv
    <2>. QED
      BY <1>6, <2>5, <2>6
  <1>8. granted' \in Nat
    BY <1>3 DEF EditingTypeOK
  <1>. QED
    BY <1>4, <1>6, <1>7, <1>8, ServerSays

\* An answer to one page that grants nothing.
LEMMA Answered ==
  ASSUME EditingInv, NEW t \in Pages, NEW m \in DownMessages, ~(m.m = "answer" /\ m.token # 0), Sent(To(t, m)),
         UNCHANGED <<lease, granted, view, field>>, up' \in [Pages -> Seq(UpMessages)]
  PROVE  EditingInv'
  <1>. PICK ms : ms = To(t, m)
    OBVIOUS
  <1>1. \A u \in Pages : ms[u] = IF u = t THEN <<m>> ELSE <<>>
    BY DEF To
  <1>2. ASSUME NEW u \in Pages PROVE ms[u] \in Seq(DownMessages)
    <2>1. <<m>> \in Seq(DownMessages) /\ <<>> \in Seq(DownMessages)
      OBVIOUS
    <2>. QED
      BY <1>1, <2>1
  <1>3. EditingTypeOK /\ Sent(ms)
    BY DEF EditingInv
  <1>4. /\ down' \in [Pages -> Seq(DownMessages)]
        /\ \A u \in Pages : ~view[u].connected => down'[u] = down[u]
        /\ \A u \in Pages : view[u].connected => down'[u] = down[u] \o ms[u]
    BY <1>2, <1>3, SaidTo
  <1>5. ASSUME NEW u \in Pages, NEW j \in Labels, NEW v \in Nat, view[u].connected,
               WillHold(field[u][j].token, down'[u], Socket(u), j, v)
        PROVE  lease'[j] = [socket |-> Socket(u), token |-> v]
    <2>1. down[u] \in Seq(DownMessages) /\ field[u][j].token \in Nat
      BY <1>3 DEF EditingTypeOK, LockRows
    <2>2. down'[u] = Append(down[u], m) \/ down'[u] = down[u]
      <3>1. down'[u] = down[u] \o <<m>> \/ down'[u] = down[u] \o <<>>
        BY <1>1, <1>4, <1>5
      <3>2. down[u] \o <<m>> = Append(down[u], m) /\ down[u] \o <<>> = down[u]
        BY <2>1, AtTheEnd
      <3>. QED
        BY <3>1, <3>2
    <2>3. ~Grants(m, j)
      BY DEF Grants
    <2>4. WillHold(field[u][j].token, down[u], Socket(u), j, v)
      BY <1>5, <2>1, <2>2, <2>3, OneMore
    <2>. QED
      BY <2>4 DEF EditingInv
  <1>6. granted' \in Nat /\ lease' \in [Labels -> LeaseRows]
    BY <1>3 DEF EditingTypeOK
  <1>. QED
    BY <1>4, <1>5, <1>6, ServerSays

LEMMA NothingSaid ==
  ASSUME EditingInv, UNCHANGED <<lease, granted, view, field, down>>, up' \in [Pages -> Seq(UpMessages)]
  PROVE  EditingInv'
  <1>1. field' \in [Pages -> [Labels -> LockRows]] /\ \A t \in Pages, i \in Labels : field'[t][i].token = field[t][i].token
    BY DEF EditingInv, EditingTypeOK
  <1>. QED
    BY <1>1, TokensStay

LEMMA EndLeaseSteps ==
  ASSUME EditingInv, NEW i \in Labels, EndLease(i)
  PROVE  EditingInv'
  <1>1. up' \in [Pages -> Seq(UpMessages)]
    BY DEF EndLease, EditingInv, EditingTypeOK
  <1>2. lease' = [lease EXCEPT ![i] = NoLease] /\ Sent(ToAll(LeaseEnded(i))) /\ UNCHANGED <<granted, view, field>>
    BY DEF EndLease
  <1>. QED
    BY <1>1, <1>2, LeaseEnds

LEMMA ServeUnlockSteps ==
  ASSUME EditingInv, NEW t \in Pages, ServeUnlock(t)
  PROVE  EditingInv'
  <1>1. EditingTypeOK /\ Received(t, "unlock")
    BY DEF EditingInv, ServeUnlock
  <1>2. Head(up[t]) \in UpMessages /\ up' \in [Pages -> Seq(UpMessages)] /\ UNCHANGED <<view, field, granted>>
    BY <1>1, ReceivedFrom DEF ServeUnlock
  <1>. PICK i \in Labels : i = Head(up[t]).item
    BY <1>2 DEF UpMessages
  <1>3. CASE lease[i].socket = Socket(t)
    <2>1. lease' = [lease EXCEPT ![i] = NoLease] /\ Sent(ToAll(LeaseEnded(i)))
      BY <1>3 DEF ServeUnlock
    <2>. QED
      BY <1>2, <2>1, LeaseEnds
  <1>4. CASE lease[i].socket # Socket(t)
    <2>1. UNCHANGED <<lease, down>>
      BY <1>4 DEF ServeUnlock
    <2>. QED
      BY <1>2, <2>1, NothingSaid
  <1>. QED
    BY <1>3, <1>4

LEMMA ServeRenewSteps ==
  ASSUME EditingInv, NEW t \in Pages, ServeRenew(t)
  PROVE  EditingInv'
  <1>1. EditingTypeOK /\ Received(t, "renew")
    BY DEF EditingInv, ServeRenew
  <1>2. Head(up[t]) \in UpMessages /\ up' \in [Pages -> Seq(UpMessages)] /\ UNCHANGED <<view, field, granted, lease>>
    BY <1>1, ReceivedFrom DEF ServeRenew
  <1>. PICK i \in Labels : i = Head(up[t]).item
    BY <1>2 DEF UpMessages
  <1>3. CASE UNCHANGED down
    BY <1>2, <1>3, NothingSaid
  <1>4. CASE Sent(To(t, Message("refused", i, <<>>, 0)))
    <2>. PICK m : m = Message("refused", i, <<>>, 0)
      OBVIOUS
    <2>1. m \in DownMessages /\ m.m = "refused"
      BY DEF Message, DownMessages, LeaseSockets
    <2>. QED
      BY <1>2, <1>4, <2>1, Answered
  <1>. QED
    BY <1>3, <1>4 DEF ServeRenew

LEMMA ServeQuerySteps ==
  ASSUME EditingInv, NEW t \in Pages, ServeQuery(t)
  PROVE  EditingInv'
  <1>1. EditingTypeOK /\ Received(t, "query")
    BY DEF EditingInv, ServeQuery
  <1>2. Head(up[t]) \in UpMessages /\ up' \in [Pages -> Seq(UpMessages)] /\ UNCHANGED <<view, field, granted, lease>>
    BY <1>1, ReceivedFrom DEF ServeQuery
  <1>. PICK i \in Labels : i = Head(up[t]).item
    BY <1>2 DEF UpMessages
  <1>. PICK s \in LeaseSockets : s = lease[i].socket
    BY <1>1 DEF EditingTypeOK, LeaseRows
  <1>. PICK m : m = Message("query", i, s, 0)
    OBVIOUS
  <1>3. m \in DownMessages /\ m.m = "query"
    BY DEF Message, DownMessages
  <1>4. Sent(To(t, m))
    BY DEF ServeQuery
  <1>. QED
    BY <1>2, <1>3, <1>4, Answered

\* acquire: all hear of the lease, and then the one who asked has the answer.
LEMMA LeaseTold ==
  ASSUME EditingTypeOK, NEW t \in Pages, NEW heard \in DownMessages, NEW answer \in DownMessages,
         NEW ms, Sent(ms), \A u \in Pages : ms[u] = IF u = t THEN <<heard>> \o <<answer>> ELSE <<heard>> \o <<>>
  PROVE  Told(t, heard, answer)
  <1>1. ASSUME NEW u \in Pages
        PROVE  /\ ms[u] \in Seq(DownMessages)
               /\ u = t => down[u] \o ms[u] = Append(Append(down[u], heard), answer)
               /\ u # t => down[u] \o ms[u] = Append(down[u], heard)
    <2>. PICK q \in Seq(DownMessages) : q = down[u]
      BY DEF EditingTypeOK
    <2>1. /\ <<heard>> \o <<answer>> \in Seq(DownMessages)
          /\ q \o (<<heard>> \o <<answer>>) = Append(Append(q, heard), answer)
      BY AtTheEnd, ZenonT(40)
    <2>2. <<heard>> \in Seq(DownMessages) /\ <<heard>> \o <<>> = <<heard>> /\ q \o <<heard>> = Append(q, heard)
      BY AtTheEnd
    <2>. PICK two : two = <<heard>> \o <<answer>>
      OBVIOUS
    <2>. PICK one : one = <<heard>> \o <<>>
      OBVIOUS
    <2>3. two \in Seq(DownMessages) /\ q \o two = Append(Append(q, heard), answer)
      BY <2>1, Zenon
    <2>4. one \in Seq(DownMessages) /\ q \o one = Append(q, heard)
      BY <2>2, Zenon
    <2>5. ms[u] = IF u = t THEN two ELSE one
      BY Zenon
    <2>. QED
      BY <2>3, <2>4, <2>5, Zenon
  <1>2. \A u \in Pages : ms[u] \in Seq(DownMessages)
    BY <1>1, Zenon
  <1>3. /\ down' \in [Pages -> Seq(DownMessages)]
        /\ \A u \in Pages : ~view[u].connected => down'[u] = down[u]
        /\ \A u \in Pages : view[u].connected => down'[u] = down[u] \o ms[u]
    BY <1>2, SaidTo
  <1>. QED
    BY <1>1, <1>3, Zenon DEF Told

\* What a page will hold after it has heard of a lease of another.
LEMMA HeardOf ==
  ASSUME EditingInv, NEW u \in Pages, NEW j \in Labels, NEW v \in Nat,
         NEW heard \in DownMessages, heard.m = "locked",
         WillHold(field[u][j].token, Append(down[u], heard), Socket(u), j, v)
  PROVE  lease[j] = [socket |-> Socket(u), token |-> v]
  <1>1. down[u] \in Seq(DownMessages)
    BY DEF EditingInv, EditingTypeOK
  <1>2. field[u][j].token \in Nat
    BY DEF EditingInv, EditingTypeOK, LockRows
  <1>3. ~Grants(heard, j)
    BY DEF Grants
  <1>4. WillHold(field[u][j].token, down[u], Socket(u), j, v)
    BY <1>1, <1>2, <1>3, OneMore
  <1>. QED
    BY <1>4 DEF EditingInv

\* The answer to a request is the last that a page hears of its row.
LEMMA AnswerLast ==
  ASSUME NEW p \in Seq(DownMessages), NEW answer \in DownMessages, answer.m = "answer", NEW x \in Nat,
         NEW s, NEW j, NEW v, WillHold(x, Append(p, answer), s, j, v)
  PROVE  (j = answer.item => v = answer.token) /\ (j # answer.item => WillHold(x, p, s, j, v))
  <1>1. /\ ~Ends(answer, s, j)
        /\ Grants(answer, j) => v = answer.token
        /\ ~Grants(answer, j) => WillHold(x, p, s, j, v)
    BY OneMore
  <1>. QED
    BY <1>1 DEF Ends, Grants

\* A lease that nobody has is given to the page, or it has it already.
LEMMA LeaseGiven ==
  ASSUME EditingInv, NEW t \in Pages, NEW i \in Labels, NEW token \in Nat,
         lease[i] = NoLease \/ lease[i].socket = Socket(t),
         NEW given \in LeaseRows, given.socket = Socket(t), given.token = token,
         Gives(i, given), view[t].connected,
         NEW heard \in DownMessages, heard.m = "locked",
         NEW answer \in DownMessages, answer.m = "answer", answer.item = i, answer.token = token,
         Told(t, heard, answer), granted' \in Nat, UNCHANGED <<view, field>>, up' \in [Pages -> Seq(UpMessages)]
  PROVE  EditingInv'
  <1>1. lease' \in [Labels -> LeaseRows] /\ lease'[i] = given /\ \A j \in Labels : j # i => lease'[j] = lease[j]
    BY DEF Gives
  <1>2. given = [socket |-> Socket(t), token |-> token]
    BY DEF LeaseRows
  <1>3. ASSUME NEW u \in Pages, NEW j \in Labels, NEW v \in Nat, u # t, view[u].connected,
               WillHold(field[u][j].token, down'[u], Socket(u), j, v)
        PROVE  lease'[j] = [socket |-> Socket(u), token |-> v]
    <2>1. down'[u] = Append(down[u], heard)
      BY <1>3 DEF Told
    <2>2. WillHold(field[u][j].token, Append(down[u], heard), Socket(u), j, v)
      BY <1>3, <2>1, Zenon
    <2>3. lease[j] = [socket |-> Socket(u), token |-> v]
      BY <2>2, HeardOf
    <2>4. Socket(u) # Socket(t) /\ Socket(u) # <<>>
      BY <1>3 DEF Socket
    <2>5. j # i
      BY <2>3, <2>4 DEF NoLease
    <2>. QED
      BY <1>1, <2>3, <2>5
  <1>4. ASSUME NEW j \in Labels, NEW v \in Nat, WillHold(field[t][j].token, down'[t], Socket(t), j, v)
        PROVE  lease'[j] = [socket |-> Socket(t), token |-> v]
    <2>1. down'[t] = Append(Append(down[t], heard), answer)
      BY DEF Told
    <2>2. down[t] \in Seq(DownMessages)
      BY DEF EditingInv, EditingTypeOK
    <2>3. Append(down[t], heard) \in Seq(DownMessages)
      BY <2>2
    <2>4. field[t][j].token \in Nat
      BY DEF EditingInv, EditingTypeOK, LockRows
    <2>5. WillHold(field[t][j].token, Append(Append(down[t], heard), answer), Socket(t), j, v)
      BY <1>4, <2>1, Zenon
    <2>0. \A p \in Seq(DownMessages), x \in Nat : WillHold(x, Append(p, answer), Socket(t), j, v)
             => (j = i => v = token) /\ (j # i => WillHold(x, p, Socket(t), j, v))
      BY AnswerLast
    <2>6. (j = i => v = token) /\ (j # i => WillHold(field[t][j].token, Append(down[t], heard), Socket(t), j, v))
      BY <2>0, <2>3, <2>4, <2>5, Zenon
    <2>7. CASE j = i
      <3>1. v = token
        BY <2>6, <2>7
      <3>. QED
        BY <1>1, <1>2, <2>7, <3>1
    <2>8. CASE j # i
      <3>0. WillHold(field[t][j].token, Append(down[t], heard), Socket(t), j, v)
        BY <2>6, <2>8, Zenon
      <3>2. lease[j] = [socket |-> Socket(t), token |-> v]
        BY <3>0, HeardOf
      <3>. QED
        BY <1>1, <2>8, <3>2
    <2>. QED
      BY <2>7, <2>8
  <1>5. /\ down' \in [Pages -> Seq(DownMessages)]
        /\ \A u \in Pages : ~view[u].connected => down'[u] = down[u]
    BY DEF Told
  <1>. QED
    BY <1>1, <1>3, <1>4, <1>5, ServerSays

LEMMA ServeLockSteps ==
  ASSUME EditingInv, NEW t \in Pages, ServeLock(t)
  PROVE  EditingInv'
  <1>1. EditingTypeOK /\ Received(t, "lock")
    BY DEF EditingInv, ServeLock
  <1>2. Head(up[t]) \in UpMessages /\ up' \in [Pages -> Seq(UpMessages)] /\ view[t].connected /\ UNCHANGED <<view, field>>
    BY <1>1, ReceivedFrom
  <1>. PICK i \in Labels : i = Head(up[t]).item
    BY <1>2 DEF UpMessages
  <1>3. lease[i] \in LeaseRows /\ granted \in Nat
    BY <1>1 DEF EditingTypeOK
  <1>. PICK s \in LeaseSockets, old \in Nat : s = lease[i].socket /\ old = lease[i].token
    BY <1>3 DEF LeaseRows
  <1>4. granted + 1 \in Nat
    BY <1>3
  <1>. PICK token \in Nat : token = IF s = Socket(t) THEN old ELSE granted + 1
    BY <1>4
  <1>5. CASE s = Socket(t) \/ (lease[i] = NoLease /\ granted < MaxLeases)
    <2>1. /\ lease' = [lease EXCEPT ![i] = [socket |-> Socket(t), token |-> token]]
          /\ granted' \in Nat
          /\ Sent([u \in Pages |-> ToAll(Message("locked", i, Socket(t), 0))[u]
                                     \o To(t, Message("answer", i, Socket(t), token))[u]])
      BY <1>3, <1>4, <1>5 DEF ServeLock
    <2>2. \E given \in LeaseRows, heard \in DownMessages, answer \in DownMessages :
             /\ given.socket = Socket(t) /\ given.token = token /\ Gives(i, given)
             /\ heard.m = "locked" /\ answer.m = "answer" /\ answer.item = i /\ answer.token = token
             /\ Told(t, heard, answer)
      <3>2. view[t].socket \in Nat
        BY <1>1 DEF EditingTypeOK, Views
      <3>3. Socket(t) \in LeaseSockets
        BY <3>2 DEF Socket, LeaseSockets
      <3>. PICK heard : heard = Message("locked", i, Socket(t), 0)
        OBVIOUS
      <3>. PICK answer : answer = Message("answer", i, Socket(t), token)
        OBVIOUS
      <3>4. heard \in DownMessages /\ answer \in DownMessages
        BY <3>3 DEF Message, DownMessages
      <3>. PICK ms : ms = [u \in Pages |-> ToAll(heard)[u] \o To(t, answer)[u]]
        OBVIOUS
      <3>5. heard.m = "locked" /\ answer.m = "answer" /\ answer.item = i /\ answer.token = token
        BY DEF Message
      <3>6. Sent(ms)
        BY <2>1
      <3>7. \A u \in Pages : ms[u] = IF u = t THEN <<heard>> \o <<answer>> ELSE <<heard>> \o <<>>
        BY Zenon DEF ToAll, To
      <3>8. Told(t, heard, answer)
        BY <1>1, <3>4, <3>6, <3>7, LeaseTold
      <3>. PICK given : given = [socket |-> Socket(t), token |-> token]
        OBVIOUS
      <3>9. given \in LeaseRows /\ given.socket = Socket(t) /\ given.token = token
        BY <3>3 DEF LeaseRows
      <3>10. Gives(i, given)
        BY <1>1, <2>1, <3>9 DEF EditingTypeOK, Gives
      <3>. QED
        BY <3>4, <3>5, <3>8, <3>9, <3>10, Zenon
    <2>3. lease[i] = NoLease \/ lease[i].socket = Socket(t)
      BY <1>5
    <2>. QED
      BY <1>2, <2>1, <2>2, <2>3, LeaseGiven
  <1>6. CASE ~(s = Socket(t) \/ (lease[i] = NoLease /\ granted < MaxLeases))
    <2>. PICK m : m = Message("answer", i, s, 0)
      OBVIOUS
    <2>1. m \in DownMessages /\ m.token = 0
      BY DEF Message, DownMessages
    <2>2. Sent(To(t, m)) /\ UNCHANGED <<lease, granted>>
      BY <1>6 DEF ServeLock
    <2>. QED
      BY <1>2, <2>1, <2>2, Answered
  <1>. QED
    BY <1>5, <1>6

-----------------------------------------------------------------------------
\* A row after a message about the lease of an item: what the message says of
\* this row decides about its token.
LEMMA HeardShows ==
  ASSUME EditingTypeOK, NEW t \in Pages, NEW m \in DownMessages, Heard(t, m)
  PROVE  \E rows \in [Labels -> LockRows], item \in Labels \cup {NoItem} :
            Show(t, rows, item) /\ \A j \in Labels : Decided(m, Socket(t), j, field[t][j].token, rows[j].token)
  <1>. PICK s \in LeaseSockets, k \in Nat, i \in Labels : s = m.socket /\ k = m.token /\ i = m.item
    BY DEF DownMessages
  <1>. PICK mine : mine = Socket(t)
    OBVIOUS
  <1>1. field[t] \in [Labels -> LockRows] /\ view[t].editing \in Labels \cup {NoItem}
    BY DEF EditingTypeOK, Views
  <1>. PICK before \in [Labels -> LockRows], open \in Labels \cup {NoItem} :
         before = field[t] /\ open = view[t].editing
    BY <1>1
  <1>. PICK r \in LockRows : r = before[i]
    OBVIOUS
  <1>2. m.m \in {"locked", "unlocked", "query", "refused", "answer"}
    BY DEF DownMessages
  <1>3. CASE m.m = "locked"
    <2>. PICK n : n = [r EXCEPT !.lock = s]
      OBVIOUS
    <2>1. n \in LockRows /\ n.token = r.token
      BY DEF LockRows
    <2>. PICK rows : rows = [before EXCEPT ![i] = n]
      OBVIOUS
    <2>2. Show(t, rows, open)
      BY <1>3 DEF Heard
    <2>3. rows \in [Labels -> LockRows] /\ \A j \in Labels : rows[j].token = before[j].token
      BY <2>1
    <2>4. \A j \in Labels : ~Ends(m, mine, j) /\ ~Grants(m, j)
      BY <1>3 DEF Ends, Grants
    <2>6. \A j \in Labels : Decided(m, mine, j, before[j].token, rows[j].token)
      BY <2>3, <2>4 DEF Decided, Decides
    <2>. QED
      BY <2>2, <2>3, <2>6, Zenon
  <1>4. CASE m.m \in {"unlocked", "refused"}
    <2>. PICK n : n = [r EXCEPT !.lock = <<>>, !.token = 0]
      OBVIOUS
    <2>1. n \in LockRows /\ n.token = 0
      BY DEF LockRows, LeaseSockets
    <2>. PICK rows : rows = [before EXCEPT ![i] = n]
      OBVIOUS
    <2>2. Show(t, rows, open)
      BY <1>4 DEF Heard
    <2>3. rows \in [Labels -> LockRows] /\ \A j \in Labels : rows[j].token = IF j = i THEN 0 ELSE before[j].token
      BY <2>1
    <2>4. \A j \in Labels : (Ends(m, mine, j) <=> j = i) /\ ~Grants(m, j)
      BY <1>4 DEF Ends, Grants
    <2>6. \A j \in Labels : Decided(m, mine, j, before[j].token, rows[j].token)
      BY <2>3, <2>4 DEF Decided, Decides
    <2>. QED
      BY <2>2, <2>3, <2>6, Zenon
  <1>5. CASE m.m = "query"
    <2>. PICK k0 \in Nat : k0 = IF s = mine THEN r.token ELSE 0
      BY DEF LockRows
    <2>. PICK n : n = [r EXCEPT !.lock = s, !.token = k0]
      OBVIOUS
    <2>1. n \in LockRows /\ n.token = k0
      BY DEF LockRows
    <2>. PICK rows : rows = [before EXCEPT ![i] = n]
      OBVIOUS
    <2>2. Show(t, rows, open)
      BY <1>5 DEF Heard
    <2>3. rows \in [Labels -> LockRows] /\ \A j \in Labels : rows[j].token = IF j = i THEN k0 ELSE before[j].token
      BY <2>1
    <2>4. \A j \in Labels : (Ends(m, mine, j) <=> j = i /\ s # mine) /\ ~Grants(m, j)
      BY <1>5 DEF Ends, Grants
    <2>6. \A j \in Labels : Decided(m, mine, j, before[j].token, rows[j].token)
      BY <2>3, <2>4 DEF Decided, Decides
    <2>. QED
      BY <2>2, <2>3, <2>6, Zenon
  <1>6. CASE m.m = "answer" /\ k = 0
    <2>. PICK n : n = [r EXCEPT !.lock = s, !.token = 0, !.asked = FALSE]
      OBVIOUS
    <2>1. n \in LockRows /\ n.token = 0
      BY DEF LockRows
    <2>. PICK rows : rows = [before EXCEPT ![i] = n]
      OBVIOUS
    <2>2. Show(t, rows, open)
      BY <1>6 DEF Heard
    <2>3. rows \in [Labels -> LockRows] /\ \A j \in Labels : rows[j].token = IF j = i THEN 0 ELSE before[j].token
      BY <2>1
    <2>4. \A j \in Labels : (Ends(m, mine, j) <=> j = i) /\ ~Grants(m, j)
      BY <1>6 DEF Ends, Grants
    <2>6. \A j \in Labels : Decided(m, mine, j, before[j].token, rows[j].token)
      BY <2>3, <2>4 DEF Decided, Decides
    <2>. QED
      BY <2>2, <2>3, <2>6, Zenon
  <1>7. CASE m.m = "answer" /\ k # 0
    <2>. PICK n : n = [r EXCEPT !.lock = s, !.token = k, !.asked = FALSE, !.kept = FALSE]
      OBVIOUS
    <2>1. n \in LockRows /\ n.token = k
      BY DEF LockRows
    <2>. PICK rows : rows = [j \in Labels |-> IF j = i THEN n
                               ELSE IF j = open THEN SavedOnLeave(before[j]) ELSE before[j]]
      OBVIOUS
    <2>2. Show(t, rows, i)
      BY <1>7 DEF Heard
    <2>3. \A j \in Labels : SavedOnLeave(before[j]) \in LockRows /\ SavedOnLeave(before[j]).token = before[j].token
      BY SavedRow
    <2>4. rows \in [Labels -> LockRows] /\ \A j \in Labels : rows[j].token = IF j = i THEN k ELSE before[j].token
      BY <2>1, <2>3
    <2>5. \A j \in Labels : ~Ends(m, mine, j) /\ (Grants(m, j) <=> j = i)
      BY <1>7 DEF Ends, Grants
    <2>6. \A j \in Labels : Decided(m, mine, j, before[j].token, rows[j].token)
      BY <2>4, <2>5 DEF Decided, Decides
    <2>. QED
      BY <2>2, <2>4, <2>6, Zenon
  <1>. QED
    BY <1>2, <1>3, <1>4, <1>5, <1>6, <1>7

LEMMA HearLeaseSteps ==
  ASSUME EditingInv, NEW t \in Pages, HearLease(t)
  PROVE  EditingInv'
  <1>1. EditingTypeOK
    BY DEF EditingInv
  <1>2. down[t] \in Seq(DownMessages) /\ down[t] # <<>>
    BY <1>1 DEF HearLease, EditingTypeOK
  <1>. PICK q \in Seq(DownMessages) : q = down[t]
    BY <1>2
  <1>3. Head(q) \in DownMessages /\ Tail(q) \in Seq(DownMessages)
    BY <1>2
  <1>4. Heard(t, Head(q)) /\ down' = [down EXCEPT ![t] = Tail(q)] /\ UNCHANGED <<lease, granted, up>>
    BY DEF HearLease
  <1>5. \E rows \in [Labels -> LockRows], item \in Labels \cup {NoItem} :
            Show(t, rows, item) /\ \A j \in Labels : Decided(Head(q), Socket(t), j, field[t][j].token, rows[j].token)
    BY <1>1, <1>3, <1>4, HeardShows
  <1>. PICK rows \in [Labels -> LockRows], item \in Labels \cup {NoItem} :
            Show(t, rows, item) /\ \A j \in Labels : Decided(Head(q), Socket(t), j, field[t][j].token, rows[j].token)
    BY <1>5
  <1>6. Renders(t, rows, view[t].socket, view[t].connected)
    BY Shown
  <1>7. /\ down' \in [Pages -> Seq(DownMessages)] /\ down'[t] = Tail(q)
        /\ \A u \in Pages : u # t => down'[u] = down[u]
    BY <1>1, <1>3, <1>4 DEF EditingTypeOK
  <1>8. view[t].connected
    BY <1>2 DEF EditingInv
  <1>9. Socket(t)' = Socket(t)
    BY <1>6 DEF Renders, Socket
  <1>10. ASSUME NEW i \in Labels, NEW v \in Nat, WillHold(rows[i].token, down'[t], Socket(t)', i, v)
         PROVE  lease[i] = [socket |-> Socket(t)', token |-> v]
    <2>1. WillHold(rows[i].token, Tail(q), Socket(t), i, v)
      BY <1>7, <1>9, <1>10, Zenon
    <2>2. rows[i].token \in Nat /\ field[t][i].token \in Nat
      BY <1>1 DEF EditingTypeOK, LockRows
    <2>3. Decided(Head(q), Socket(t), i, field[t][i].token, rows[i].token)
      OBVIOUS
    <2>4. WillHold(field[t][i].token, q, Socket(t), i, v)
      BY <1>2, <2>1, <2>2, <2>3, OneLess DEF Decided
    <2>5. lease[i] = [socket |-> Socket(t), token |-> v]
      BY <2>4 DEF EditingInv
    <2>. QED
      BY <1>9, <2>5, Zenon
  <1>11. up' \in [Pages -> Seq(UpMessages)]
    BY <1>1, <1>4 DEF EditingTypeOK
  <1>. QED
    BY <1>4, <1>6, <1>7, <1>8, <1>10, <1>11, PageRenders

\* A page connects or is cut off: it holds nothing, and nothing is on its way.
LEMMA HoldsNothing ==
  ASSUME EditingInv, NEW t \in Pages, NEW rows, NEW number, NEW on, Renders(t, rows, number, on),
         UNCHANGED <<lease, granted>>, up' \in [Pages -> Seq(UpMessages)],
         down' \in [Pages -> Seq(DownMessages)], \A u \in Pages : u # t => down'[u] = down[u],
         down'[t] = <<>>, \A i \in Labels : rows[i].token = 0
  PROVE  EditingInv'
  <1>1. ASSUME NEW i \in Labels, NEW v \in Nat, WillHold(rows[i].token, down'[t], Socket(t)', i, v)
        PROVE  lease[i] = [socket |-> Socket(t)', token |-> v]
    <2>1. WillHold(0, <<>>, Socket(t)', i, v)
      BY <1>1, Zenon
    <2>. QED
      BY <2>1, NothingHeld, Zenon
  <1>. QED
    BY <1>1, PageRenders, ZenonT(40)

LEMMA NothingOnItsWay ==
  ASSUME EditingTypeOK, NEW t \in Pages, NEW none, none = <<>>,
         up' = [up EXCEPT ![t] = none], down' = [down EXCEPT ![t] = none]
  PROVE  /\ up' \in [Pages -> Seq(UpMessages)] /\ down' \in [Pages -> Seq(DownMessages)] /\ down'[t] = none
         /\ \A u \in Pages : u # t => down'[u] = down[u]
  <1>1. none \in Seq(UpMessages) /\ none \in Seq(DownMessages)
    OBVIOUS
  <1>2. up \in [Pages -> Seq(UpMessages)] /\ down \in [Pages -> Seq(DownMessages)]
    BY DEF EditingTypeOK
  <1>. QED
    BY <1>1, <1>2, Zenon

LEMMA LoseSocketSteps ==
  ASSUME EditingInv, NEW t \in Pages, LoseSocket(t)
  PROVE  EditingInv'
  <1>1. EditingTypeOK
    BY DEF EditingInv
  <1>2. view[t].socket \in Nat /\ view[t].editing \in Labels \cup {NoItem}
    BY <1>1 DEF EditingTypeOK, Views
  <1>. PICK number \in Nat : number = view[t].socket
    BY <1>2
  <1>. PICK rows : rows = [i \in Labels |-> [field[t][i] EXCEPT !.lock = <<>>, !.token = 0, !.asked = FALSE]]
    OBVIOUS
  <1>3. ASSUME NEW i \in Labels PROVE rows[i] \in LockRows /\ rows[i].token = 0
    <2>. PICK r \in LockRows : r = field[t][i]
      BY <1>1 DEF EditingTypeOK
    <2>. PICK n : n = [r EXCEPT !.lock = <<>>, !.token = 0, !.asked = FALSE]
      OBVIOUS
    <2>1. n \in LockRows /\ n.token = 0
      BY DEF LockRows, LeaseSockets
    <2>. QED
      BY <2>1
  <1>4. rows \in [Labels -> LockRows]
    BY <1>3
  <1>. PICK socket : socket = <<number, FALSE>>
    OBVIOUS
  <1>5. Render(t, rows, view[t].editing, socket)
    BY DEF LoseSocket
  <1>6. Renders(t, rows, number, FALSE)
    BY <1>1, <1>2, <1>4, <1>5, Rendered
  <1>7. UNCHANGED <<lease, granted>>
    BY DEF LoseSocket
  <1>8. up' = [up EXCEPT ![t] = <<>>] /\ down' = [down EXCEPT ![t] = <<>>]
    BY DEF LoseSocket
  <1>9. /\ up' \in [Pages -> Seq(UpMessages)] /\ down' \in [Pages -> Seq(DownMessages)] /\ down'[t] = <<>>
        /\ \A u \in Pages : u # t => down'[u] = down[u]
    BY <1>1, <1>8, NothingOnItsWay, Zenon
  <1>10. \A i \in Labels : rows[i].token = 0
    BY <1>3
  <1>. QED
    BY <1>6, <1>7, <1>9, <1>10, HoldsNothing, Zenon

LEMMA OpenSocketSteps ==
  ASSUME EditingInv, NEW t \in Pages, OpenSocket(t)
  PROVE  EditingInv'
  <1>1. EditingTypeOK /\ ~view[t].connected
    BY DEF EditingInv, OpenSocket
  <1>2. view[t].socket + 1 \in Nat /\ view[t].editing \in Labels \cup {NoItem} /\ field[t] \in [Labels -> LockRows]
    BY <1>1 DEF EditingTypeOK, Views
  <1>. PICK number \in Nat : number = view[t].socket + 1
    BY <1>2
  <1>. PICK asked \in PageOrders :
          up' = [up EXCEPT ![t] = @ \o [n \in DOMAIN asked |-> [m |-> "query", item |-> asked[n], token |-> 0]]]
    BY DEF OpenSocket
  <1>. PICK queries : queries = [n \in DOMAIN asked |-> [m |-> "query", item |-> asked[n], token |-> 0]]
    OBVIOUS
  <1>3. queries \in Seq(UpMessages)
    <2>1. Cardinality(Labels) \in Nat
      BY EditingBounds, FS_CardinalityType
    <2>. PICK z \in Nat : z = Cardinality(Labels)
      BY <2>1
    <2>2. asked \in [1..z -> Labels]
      BY DEF PageOrders
    <2>3. queries \in [1..z -> UpMessages]
      BY <2>2 DEF UpMessages
    <2>. QED
      BY <2>3
  <1>4. up[t] \in Seq(UpMessages)
    BY <1>1 DEF EditingTypeOK
  <1>5. up[t] \o queries \in Seq(UpMessages)
    BY <1>3, <1>4
  <1>6. up' \in [Pages -> Seq(UpMessages)]
    BY <1>1, <1>5 DEF EditingTypeOK
  <1>. PICK rows \in [Labels -> LockRows] : rows = field[t]
    BY <1>2
  <1>. PICK socket : socket = <<number, TRUE>>
    OBVIOUS
  <1>7. Render(t, rows, view[t].editing, socket) /\ UNCHANGED <<lease, granted, down>>
    BY DEF OpenSocket
  <1>8. Renders(t, rows, number, TRUE)
    BY <1>1, <1>2, <1>7, Rendered
  <1>9. down[t] = <<>> /\ \A i \in Labels : rows[i].token = 0
    BY <1>1 DEF EditingInv
  <1>10. down' \in [Pages -> Seq(DownMessages)] /\ \A u \in Pages : u # t => down'[u] = down[u]
    BY <1>1, <1>7 DEF EditingTypeOK
  <1>11. UNCHANGED <<lease, granted>> /\ down'[t] = <<>>
    BY <1>7, <1>9
  <1>. QED
    BY <1>6, <1>8, <1>9, <1>10, <1>11, HoldsNothing, Zenon

-----------------------------------------------------------------------------
LEMMA EditingStarts ==
  ASSUME EditingInit PROVE EditingInv
  <1>1. FreshRow \in LockRows /\ FreshRow.token = 0
    BY DEF FreshRow, LockRows, LeaseSockets
  <1>2. NoLease \in LeaseRows
    BY DEF NoLease, LeaseRows, LeaseSockets
  <1>3. [socket |-> 1, connected |-> TRUE, editing |-> NoItem] \in Views
    BY DEF Views
  <1>4. EditingTypeOK
    <2>1. lease \in [Labels -> LeaseRows] /\ granted \in Nat
      BY <1>2 DEF EditingInit
    <2>2. view \in [Pages -> Views]
      BY <1>3 DEF EditingInit
    <2>3. up \in [Pages -> Seq(UpMessages)] /\ down \in [Pages -> Seq(DownMessages)]
      BY DEF EditingInit
    <2>4. field \in [Pages -> [Labels -> LockRows]]
      BY <1>1 DEF EditingInit
    <2>. QED
      BY <2>1, <2>2, <2>3, <2>4 DEF EditingTypeOK
  <1>5. \A t \in Pages : view[t].editing = NoItem /\ view[t].connected /\ down[t] = <<>> /\ \A i \in Labels : field[t][i].token = 0
    BY <1>1 DEF EditingInit
  <1>6. \A t \in Pages, i \in Labels, v \in Nat : ~WillHold(field[t][i].token, down[t], Socket(t), i, v)
    BY <1>5, NothingHeld
  <1>. QED
    BY <1>4, <1>5, <1>6 DEF EditingInv

LEMMA EditingSteps ==
  ASSUME EditingInv, [EditingNext]_editing
  PROVE  EditingInv'
  <1>1. CASE UNCHANGED editing
    <2>1. UNCHANGED <<lease, granted, view, field, down>>
      BY <1>1 DEF editing
    <2>2. up' \in [Pages -> Seq(UpMessages)]
      BY <1>1 DEF editing, EditingInv, EditingTypeOK
    <2>. QED
      BY <2>1, <2>2, NothingSaid
  <1>2. ASSUME NEW t \in Pages,
               \/ Type(t) \/ CommitLabel(t) \/ Cancel(t) \/ HearLease(t) \/ LoseSocket(t) \/ OpenSocket(t)
               \/ ServeLock(t) \/ ServeUnlock(t) \/ ServeRenew(t) \/ ServeQuery(t)
        PROVE  EditingInv'
    BY <1>2, TypeSteps, CancelSteps, HearLeaseSteps, LoseSocketSteps, OpenSocketSteps,
       ServeLockSteps, ServeUnlockSteps, ServeRenewSteps, ServeQuerySteps
  <1>3. ASSUME NEW t \in Pages, NEW i \in Labels,
               StartEdit(t, i) \/ Renew(t, i) \/ Patch(t, i, TRUE) \/ Patch(t, i, FALSE) \/ Settle(t, i)
        PROVE  EditingInv'
    BY <1>3, StartEditSteps, RenewSteps, PatchSteps, SettleSteps
  <1>4. ASSUME NEW i \in Labels, EndLease(i) PROVE EditingInv'
    BY <1>4, EndLeaseSteps
  <1>. QED
    BY <1>1, <1>2, <1>3, <1>4 DEF EditingNext

\* The field that is open has its lease once all is heard: what a row will hold
\* after the messages on their way, the server has given to this socket.
LEMMA EditorHolds ==
  ASSUME EditingInv PROVE EditorHoldsLease
  <1>. SUFFICES ASSUME NEW t \in Pages, view[t].connected, down[t] = <<>>, view[t].editing # NoItem
                PROVE  lease[view[t].editing] = [socket |-> Socket(t), token |-> field[t][view[t].editing].token]
    BY DEF EditorHoldsLease
  <1>1. view[t].editing \in Labels
    BY DEF EditingInv, EditingTypeOK, Views
  <1>. PICK i \in Labels : i = view[t].editing
    BY <1>1
  <1>2. field[t][i].token \in Nat /\ field[t][i].token # 0
    BY DEF EditingInv, EditingTypeOK, LockRows
  <1>3. WillHold(field[t][i].token, <<>>, Socket(t), i, field[t][i].token)
    BY <1>2 DEF WillHold
  <1>4. WillHold(field[t][i].token, down[t], Socket(t), i, field[t][i].token)
    BY <1>3, Zenon
  <1>. QED
    BY <1>2, <1>4 DEF EditingInv

\* The lease hook of a row and the one editingId of the checklist page
\* (useFieldLock.ts, ChecklistItemRow.tsx): a field is open only with the lease
\* that the server has given to this very connection, as far as the tab knows.
THEOREM EditorHoldsLeaseAlways == EditingSpec => []EditorHoldsLease
  <1>1. EditingInit => EditingInv
    BY EditingStarts
  <1>2. EditingInv /\ [EditingNext]_editing => EditingInv'
    BY EditingSteps
  <1>3. EditingInv => EditorHoldsLease
    BY EditorHolds
  <1>. QED
    BY <1>1, <1>2, <1>3, PTL DEF EditingSpec

-----------------------------------------------------------------------------
(* A list of check boxes.                                                  *)

ItemOps == {"create", "update", "delete"}
OrderPhases == {"sent", "found", "absent", "written", "told", "failed"}
Orders == [op: ItemOps, mine: BOOLEAN, id: Ids \cup {0}, on: BOOLEAN, phase: OrderPhases, change: Nat,
           before: BOOLEAN, touched: BOOLEAN]
ItemRows == [is: {"unborn", "there", "gone"}, on: BOOLEAN, n: Nat]
ItemEvents == {e \in [op: ItemOps, id: Ids, change: Nat, on: BOOLEAN] : e.op = "update" \/ ~e.on}
ItemLoads == [at: {"none", "asked"}, stock: {<<>>}] \cup [at: {"answered"}, stock: [Ids -> ItemRows]]

ItemsTypeOK ==
    /\ style \in {"checklist", "block"}
    /\ stock \in [Ids -> ItemRows] /\ listed \in [Ids -> Seq(BOOLEAN)]
    /\ order \in [Slots -> Orders \cup {NoOrder}]
    /\ wire \in Seq(ItemEvents) /\ loading \in ItemLoads
    /\ shown \in [Ids -> Nat] /\ skipped \in [Ids -> Nat] /\ spoiled \subseteq Ids

\* The rows count their changes.
Counted(r) == (r.is = "unborn" => r.n = 0) /\ (r.is # "unborn" => r.n >= 1)

\* A change that is the latest of its row says what the row is.
Carries(op, on, r) ==
    /\ op = "delete" => r.is # "there"
    /\ op # "delete" => r.is = "there" /\ r.on = (op = "update" /\ on)
Tells(op, change, on, r) ==
    /\ r.is # "unborn" /\ change >= 1 /\ change <= r.n /\ (op = "create" => change = 1)
    /\ change = r.n => Carries(op, on, r)

OrderTells(o) ==
    LET r == order[o] IN
    r.op # "none" =>
        /\ r.op # "create" \/ r.phase \in {"written", "told"} => r.id \in Ids
        /\ r.id \in Ids => stock[r.id].is # "unborn" /\ r.change <= stock[r.id].n
        /\ r.phase \in {"written", "told"} => Tells(r.op, r.change, r.on, stock[r.id])
        /\ r.phase = "absent" => r.op # "create" /\ stock[r.id].is = "gone"
WireTells == \A k \in DOMAIN wire : Tells(wire[k].op, wire[k].change, wire[k].on, stock[wire[k].id])
LoadTells ==
    loading.at = "answered" =>
        \A i \in Ids : /\ loading.stock[i].n <= stock[i].n /\ Counted(loading.stock[i])
                       /\ loading.stock[i].n = stock[i].n => loading.stock[i] = stock[i]

\* The latest change of each item is known to the list or on its way to it.
Known(i) == Larger(shown[i], skipped[i])
Underway(i) ==
    \/ \E o \in Slots : order[o].op # "none" /\ order[o].phase = "written" /\ order[o].id = i /\ order[o].change = stock[i].n
    \/ \E k \in DOMAIN wire : wire[k].id = i /\ wire[k].change = stock[i].n
ChangeKnown(i) ==
    /\ shown[i] <= stock[i].n /\ skipped[i] <= stock[i].n /\ Counted(stock[i])
    /\ stock[i].n <= Known(i) \/ Underway(i)
    /\ listed[i] # <<>> => Known(i) >= 1

\* An own request that shows what is not so yet.
Acts(o, i) == order[o].op \in {"update", "delete"} /\ order[o].mine /\ order[o].id = i
Leads(o, i) ==
    /\ Acts(o, i) /\ order[o].phase \in {"sent", "found", "absent", "failed"}
    /\ order[o].op = "update" \/ style = "checklist"
Latest(i) == shown[i] = stock[i].n /\ i \notin spoiled
AsItIs(i) == IF HasRow(i) THEN <<stock[i].on>> ELSE <<>>

ListTells(i) ==
    /\ i \notin spoiled => Len(listed[i]) <= 1
    /\ Latest(i) => listed[i] = AsItIs(i) \/ \E o \in Slots : Leads(o, i)

\* What an own request will put back, if the list has not moved on.
PutsBack(o, i) ==
    /\ Known(i) >= 1
    /\ ~order[o].touched =>
        /\ \A p \in Slots : p # o /\ Acts(p, i) => order[p].touched
        /\ Latest(i) => <<order[o].before>> = AsItIs(i)
        /\ order[o].op = "update" /\ Latest(i) => listed[i] # <<>> \/ \E p \in Slots : p # o /\ Leads(p, i)
        /\ order[o].op = "delete" /\ style = "checklist" =>
              listed[i] = <<>> /\ \A p \in Slots : p # o => ~Acts(p, i)

ItemInv(i) == ChangeKnown(i) /\ ListTells(i) /\ \A o \in Slots : Acts(o, i) => PutsBack(o, i)

\* The deletions of one item of the checklist are one after the other.
Deletes(o, i) == order[o].op = "delete" /\ order[o].phase = "found" /\ order[o].id = i
DeletesWait ==
    style = "checklist" =>
        \A o \in Slots, i \in Ids : Deletes(o, i) => HasRow(i) /\ \A p \in Slots : p # o => ~Deletes(p, i)

ItemsInv ==
    /\ ItemsTypeOK /\ WireTells /\ LoadTells /\ DeletesWait
    /\ \A o \in Slots : OrderTells(o)
    /\ \A i \in Ids : ItemInv(i)

\* The requests about an item are the ones of before, or fewer.
SameOrders(i) ==
    /\ \A o \in Slots : Acts(o, i)' =>
          /\ Acts(o, i) /\ order'[o].op = order[o].op /\ order'[o].before = order[o].before
          /\ order[o].touched => order'[o].touched
    /\ \A o \in Slots : Leads(o, i) => Leads(o, i)'
\* One request gets on, or is done with.
Progresses(o) ==
    /\ order' \in [Slots -> Orders \cup {NoOrder}]
    /\ \A p \in Slots : p # o => order'[p] = order[p]
    /\ order'[o].op # "none" =>
          /\ order'[o].op = order[o].op /\ order'[o].mine = order[o].mine
          /\ order'[o].before = order[o].before /\ order'[o].touched = order[o].touched
          /\ order[o].op # "create" => order'[o].id = order[o].id

\* What is said of an item that a step leaves alone, but that the list may know
\* of more changes to be missing.
LEMMA ItemStays ==
  ASSUME ItemsInv, ItemsTypeOK', NEW i \in Ids, style' = style, stock'[i] = stock[i], listed'[i] = listed[i],
         shown'[i] = shown[i], skipped[i] <= skipped'[i], skipped'[i] <= stock[i].n,
         i \in spoiled' <=> i \in spoiled, SameOrders(i), stock[i].n <= Known(i)' \/ Underway(i)'
  PROVE  ItemInv(i)'
  <1>1. ItemInv(i)
    BY DEF ItemsInv
  <1>2. shown[i] \in Nat /\ skipped[i] \in Nat /\ skipped'[i] \in Nat
    BY DEF ItemsInv, ItemsTypeOK
  <1>3. Known(i) <= Known(i)' /\ Known(i) \in Nat /\ Known(i)' \in Nat
    BY <1>2 DEF Known, Larger
  <1>4. ChangeKnown(i)'
    <2>1. ChangeKnown(i)
      BY <1>1 DEF ItemInv
    <2>2. listed'[i] # <<>> => Known(i)' >= 1
      BY <1>3, <2>1 DEF ChangeKnown
    <2>. QED
      BY <2>1, <2>2 DEF ChangeKnown
  <1>5. (Latest(i)' <=> Latest(i)) /\ AsItIs(i)' = AsItIs(i)
    BY DEF Latest, AsItIs, HasRow
  <1>6. ListTells(i)'
    BY <1>1, <1>5 DEF ItemInv, ListTells, SameOrders
  <1>7. ASSUME NEW o \in Slots, Acts(o, i)' PROVE PutsBack(o, i)'
    <2>1. Acts(o, i) /\ order'[o].op = order[o].op /\ order'[o].before = order[o].before /\ (order[o].touched => order'[o].touched)
      BY <1>7 DEF SameOrders
    <2>2. PutsBack(o, i)
      BY <1>1, <2>1 DEF ItemInv
    <2>3. Known(i)' >= 1
      BY <1>3, <2>2 DEF PutsBack
    <2>4. CASE ~order'[o].touched
      <3>1. ~order[o].touched
        BY <2>1, <2>4
      <3>2. \A p \in Slots : p # o /\ Acts(p, i)' => order'[p].touched
        BY <2>2, <3>1 DEF PutsBack, SameOrders
      <3>3. Latest(i)' => <<order'[o].before>> = AsItIs(i)'
        BY <1>5, <2>1, <2>2, <3>1 DEF PutsBack
      <3>4. order'[o].op = "update" /\ Latest(i)' => listed'[i] # <<>> \/ \E p \in Slots : p # o /\ Leads(p, i)'
        BY <1>5, <2>1, <2>2, <3>1 DEF PutsBack, SameOrders
      <3>5. order'[o].op = "delete" /\ style' = "checklist" =>
              listed'[i] = <<>> /\ \A p \in Slots : p # o => ~Acts(p, i)'
        BY <2>1, <2>2, <3>1 DEF PutsBack, SameOrders
      <3>. QED
        BY <2>3, <3>2, <3>3, <3>4, <3>5 DEF PutsBack
    <2>. QED
      BY <2>3, <2>4 DEF PutsBack
  <1>. QED
    BY <1>4, <1>6, <1>7 DEF ItemInv

\* What is said of an item that has just got a change, or a reading of its row.
LEMMA ItemIsSet ==
  ASSUME ItemsTypeOK', NEW i \in Ids, ChangeKnown(i)',
         i \notin spoiled' => Len(listed'[i]) <= 1, Latest(i)' => listed'[i] = AsItIs(i)',
         \A o \in Slots : Acts(o, i)' => order'[o].touched /\ Known(i)' >= 1
  PROVE  ItemInv(i)'
  BY DEF ItemInv, ListTells, PutsBack

\* A request that gets on leaves the requests about an item as they were, if it
\* goes on showing what is not so yet.
LEMMA OrdersStay ==
  ASSUME ItemsTypeOK, style' = style, NEW o \in Slots, Progresses(o), NEW i \in Ids,
         Leads(o, i) => Leads(o, i)'
  PROVE  SameOrders(i)
  <1>1. ASSUME NEW p \in Slots, Acts(p, i)'
        PROVE  /\ Acts(p, i) /\ order'[p].op = order[p].op /\ order'[p].before = order[p].before
               /\ order[p].touched => order'[p].touched
    <2>1. CASE p = o
      BY <1>1, <2>1 DEF Progresses, Acts
    <2>2. CASE p # o
      BY <1>1, <2>2 DEF Progresses, Acts
    <2>. QED
      BY <2>1, <2>2
  <1>2. ASSUME NEW p \in Slots, Leads(p, i) PROVE Leads(p, i)'
    BY <1>2 DEF Progresses, Leads, Acts
  <1>. QED
    BY <1>1, <1>2 DEF SameOrders

LEMMA StillUnderway ==
  ASSUME NEW o \in Slots, \A p \in Slots : p # o => order'[p] = order[p], order[o].phase # "written",
         wire' = wire, NEW i \in Ids, stock'[i] = stock[i], Underway(i)
  PROVE  Underway(i)'
  BY DEF Underway

LEMMA KnownStays ==
  ASSUME NEW i, shown'[i] = shown[i], skipped'[i] = skipped[i]
  PROVE  Known(i)' = Known(i)
  BY DEF Known

\* A request that has written nothing gets on: the list knows as much as before.
LEMMA QuietSteps ==
  ASSUME ItemsInv, NEW o \in Slots, order[o].phase # "written", Progresses(o), DeletesWait',
         UNCHANGED <<style, stock, listed, wire, shown, skipped, spoiled>>, loading' \in ItemLoads, LoadTells',
         OrderTells(o)', \A i \in Ids : Leads(o, i) => Leads(o, i)'
  PROVE  ItemsInv'
  <1>1. ItemsTypeOK
    BY DEF ItemsInv
  <1>2. ItemsTypeOK'
    BY <1>1 DEF ItemsTypeOK, Progresses
  <1>3. WireTells'
    BY DEF ItemsInv, WireTells
  <1>4. ASSUME NEW p \in Slots PROVE OrderTells(p)'
    <2>1. CASE p = o
      BY <2>1
    <2>2. CASE p # o
      BY <2>2 DEF ItemsInv, OrderTells, Progresses
    <2>. QED
      BY <2>1, <2>2
  <1>5. ASSUME NEW i \in Ids PROVE ItemInv(i)'
    <2>1. SameOrders(i)
      BY <1>1, OrdersStay
    <2>2. stock[i].n <= Known(i) \/ Underway(i)
      BY DEF ItemsInv, ItemInv, ChangeKnown
    <2>3. Underway(i) => Underway(i)'
      BY StillUnderway DEF Progresses
    <2>4. Known(i)' = Known(i)
      BY KnownStays
    <2>5. skipped[i] <= skipped'[i] /\ skipped'[i] <= stock[i].n
      BY <1>1 DEF ItemsInv, ItemInv, ChangeKnown, ItemsTypeOK
    <2>. QED
      BY <1>2, <2>1, <2>2, <2>3, <2>4, <2>5, ItemStays
  <1>. QED
    BY <1>2, <1>3, <1>4, <1>5 DEF ItemsInv
LEMMA LoaderStays ==
  ASSUME ItemsInv, UNCHANGED <<stock, loading>>
  PROVE  loading' \in ItemLoads /\ LoadTells'
  BY DEF ItemsInv, ItemsTypeOK, LoadTells
LEMMA DeletesStay ==
  ASSUME ItemsInv, style' = style, NEW o \in Slots, order'[o].phase # "found", \A p \in Slots : p # o => order'[p] = order[p],
         \A i \in Ids : HasRow(i)' <=> HasRow(i)
  PROVE  DeletesWait'
  <1>1. \A p \in Slots, i \in Ids : Deletes(p, i)' => Deletes(p, i)
    BY DEF Deletes
  <1>. QED
    BY <1>1 DEF ItemsInv, DeletesWait

LEMMA FindByIdSteps ==
  ASSUME ItemsInv, NEW o \in Slots, FindById(o)
  PROVE  ItemsInv'
  <1>1. ItemsTypeOK /\ OrderTells(o)
    BY DEF ItemsInv
  <1>2. order[o] \in Orders /\ order[o].phase = "sent"
    BY <1>1 DEF FindById, ItemsTypeOK, NoOrder
  <1>. PICK r \in Orders : r = order[o]
    BY <1>2
  <1>3. r.op # "create" => r.id \in Ids
    BY <1>1, <1>2 DEF OrderTells, Orders, ItemOps
  <1>. PICK found \in {"found", "absent"} : found = IF r.op = "create" \/ HasRow(r.id) THEN "found" ELSE "absent"
    OBVIOUS
  <1>4. (IF r.op = "create" THEN 0 ELSE stock[r.id].n) \in Nat
    BY <1>1, <1>3 DEF ItemsTypeOK, ItemRows
  <1>. PICK c \in Nat : c = IF r.op = "create" THEN 0 ELSE stock[r.id].n
    BY <1>4
  <1>. PICK n : n = [r EXCEPT !.phase = found, !.change = c]
    OBVIOUS
  <1>5. /\ n \in Orders /\ n.phase = found /\ n.change = c /\ n.op = r.op /\ n.mine = r.mine /\ n.id = r.id
        /\ n.before = r.before /\ n.touched = r.touched
    BY DEF Orders, OrderPhases
  <1>6. order' = [order EXCEPT ![o] = n]
    BY DEF FindById
  <1>7. order' \in [Slots -> Orders \cup {NoOrder}] /\ order'[o] = n /\ \A p \in Slots : p # o => order'[p] = order[p]
    BY <1>1, <1>5, <1>6 DEF ItemsTypeOK
  <1>8. Progresses(o)
    BY <1>5, <1>7 DEF Progresses
  <1>9. UNCHANGED <<style, stock, listed, wire, loading, shown, skipped, spoiled>>
    BY DEF FindById, Waits
  <1>10. OrderTells(o)'
    <2>1. r.op = "create" => c = 0 /\ found = "found"
      OBVIOUS
    <2>2. r.op # "create" => c = stock[r.id].n /\ stock[r.id].is # "unborn" /\ stock[r.id] \in ItemRows
      BY <1>1, <1>2, <1>3 DEF OrderTells, ItemsTypeOK, Orders, ItemOps
    <2>3. found = "absent" => r.op # "create" /\ stock[r.id].is = "gone"
      BY <2>2 DEF HasRow, ItemRows
    <2>4. r.id \in Ids => stock[r.id].is # "unborn" /\ stock[r.id].n \in Nat
      BY <1>1, <1>2 DEF OrderTells, Orders, ItemOps, ItemsTypeOK, ItemRows
    <2>5. r.id \in Ids => c <= stock[r.id].n
      BY <2>1, <2>2, <2>4
    <2>. QED
      BY <1>3, <1>5, <1>7, <1>9, <2>3, <2>4, <2>5 DEF OrderTells
  <1>11. \A i \in Ids : Leads(o, i) => Leads(o, i)'
    BY <1>5, <1>7, <1>9 DEF Leads, Acts
  <1>12. DeletesWait'
    <2>. SUFFICES ASSUME style = "checklist", NEW p \in Slots, NEW i \in Ids, Deletes(p, i)'
                  PROVE  HasRow(i)' /\ \A q \in Slots : q # p => ~Deletes(q, i)'
      BY <1>9 DEF DeletesWait
    <2>1. HasRow(i)' = HasRow(i)
      BY <1>9 DEF HasRow
    <2>2. \A q \in Slots : q # o => (Deletes(q, i)' <=> Deletes(q, i))
      BY <1>7 DEF Deletes
    <2>3. Deletes(o, i)' => r.op = "delete" /\ r.id = i /\ found = "found"
      BY <1>5, <1>7 DEF Deletes
    <2>4. Deletes(o, i)' => HasRow(i) /\ \A q \in Slots : q # o => ~Deletes(q, i)
      BY <2>3 DEF FindById, Deletes
    <2>. QED
      BY <2>1, <2>2, <2>4 DEF ItemsInv, DeletesWait
  <1>. QED
    BY <1>2, <1>8, <1>9, <1>10, <1>11, <1>12, QuietSteps, LoaderStays

\* A request that is done with, having written nothing or been told of.
LEMMA Forgotten ==
  ASSUME ItemsInv, NEW o \in Slots, order' = Forget(o)
  PROVE  Progresses(o) /\ order'[o] = NoOrder /\ OrderTells(o)'
  <1>1. /\ order' \in [Slots -> Orders \cup {NoOrder}] /\ order'[o] = NoOrder
        /\ \A p \in Slots : p # o => order'[p] = order[p]
    BY DEF Forget, ItemsInv, ItemsTypeOK
  <1>. QED
    BY <1>1 DEF Progresses, OrderTells, NoOrder

LEMMA ForgetSteps ==
  ASSUME ItemsInv, NEW o \in Slots, order[o].phase # "written", order' = Forget(o), \A i \in Ids : ~Leads(o, i),
         UNCHANGED <<style, stock, listed, wire, shown, skipped, spoiled>>, loading' \in ItemLoads, LoadTells'
  PROVE  ItemsInv'
  <1>1. Progresses(o) /\ order'[o] = NoOrder /\ OrderTells(o)'
    BY Forgotten
  <1>2. order'[o].phase # "found" /\ \A p \in Slots : p # o => order'[p] = order[p]
    BY <1>1 DEF NoOrder, Progresses
  <1>3. \A i \in Ids : HasRow(i)' <=> HasRow(i)
    BY DEF HasRow
  <1>4. DeletesWait'
    BY <1>2, <1>3, DeletesStay
  <1>. QED
    BY <1>1, <1>4, QuietSteps

LEMMA OtherAnswerSteps ==
  ASSUME ItemsInv, NEW o \in Slots, OtherAnswer(o)
  PROVE  ItemsInv'
  <1>1. order[o].phase # "written" /\ order' = Forget(o) /\ \A i \in Ids : ~Leads(o, i)
    BY DEF OtherAnswer, Leads, Acts
  <1>2. UNCHANGED <<style, stock, listed, wire, loading, shown, skipped, spoiled>>
    BY DEF OtherAnswer, Waits
  <1>. QED
    BY <1>1, <1>2, ForgetSteps, LoaderStays

\* The answer of a request is on its way, or nobody of this page waits for it.
LEMMA EndedSo ==
  ASSUME ItemsInv, NEW o \in Slots, NEW phase \in {"told", "failed"}, Ended(o, phase), order[o].op # "none"
  PROVE  /\ Progresses(o)
         /\ order'[o].phase # "found" /\ order'[o].phase # "written"
         /\ order'[o].op # "none" =>
               /\ order'[o].phase = phase /\ order'[o].change = order[o].change /\ order'[o].id = order[o].id
               /\ order'[o].on = order[o].on /\ order'[o].op = order[o].op /\ order'[o].mine
         /\ \A i \in Ids : phase = "failed" /\ Leads(o, i) => order'[o].op # "none"
  <1>1. order \in [Slots -> Orders \cup {NoOrder}]
    BY DEF ItemsInv, ItemsTypeOK
  <1>. PICK r \in Orders : r = order[o]
    BY <1>1 DEF NoOrder
  <1>2. CASE r.mine
    <2>. PICK n : n = [r EXCEPT !.phase = phase]
      OBVIOUS
    <2>1. /\ n \in Orders /\ n.phase = phase /\ n.change = r.change /\ n.id = r.id /\ n.on = r.on /\ n.op = r.op /\ n.mine = r.mine
          /\ n.before = r.before /\ n.touched = r.touched
      BY DEF Orders, OrderPhases
    <2>2. order' = [order EXCEPT ![o] = n]
      BY <1>2 DEF Ended
    <2>3. order' \in [Slots -> Orders \cup {NoOrder}] /\ order'[o] = n /\ \A p \in Slots : p # o => order'[p] = order[p]
      BY <1>1, <2>1, <2>2
    <2>4. r.op # "none"
      BY DEF Orders, ItemOps
    <2>. QED
      BY <1>2, <2>1, <2>3, <2>4 DEF Progresses
  <1>3. CASE ~r.mine
    <2>1. order' = [order EXCEPT ![o] = NoOrder]
      BY <1>3 DEF Ended
    <2>2. order' \in [Slots -> Orders \cup {NoOrder}] /\ order'[o] = NoOrder /\ \A p \in Slots : p # o => order'[p] = order[p]
      BY <1>1, <2>1
    <2>. QED
      BY <1>3, <2>2 DEF Progresses, NoOrder, Leads, Acts
  <1>. QED
    BY <1>2, <1>3

LEMMA FailSteps ==
  ASSUME ItemsInv, NEW o \in Slots, Fail(o)
  PROVE  ItemsInv'
  <1>1. ItemsTypeOK /\ OrderTells(o)
    BY DEF ItemsInv
  <1>2. order[o].phase \in {"sent", "found", "written"} /\ Ended(o, "failed") /\ UNCHANGED <<style, stock, listed, wire, loading, spoiled>>
    BY DEF Fail, Waits
  <1>3. order[o] \in Orders /\ order[o].op # "none"
    BY <1>1, <1>2 DEF ItemsTypeOK, NoOrder, Orders, ItemOps
  <1>. PICK r \in Orders : r = order[o]
    BY <1>3
  <1>4. /\ Progresses(o)
        /\ order'[o].phase # "found" /\ order'[o].phase # "written"
        /\ order'[o].op # "none" =>
               /\ order'[o].phase = "failed" /\ order'[o].change = order[o].change /\ order'[o].id = order[o].id
               /\ order'[o].on = order[o].on /\ order'[o].op = order[o].op /\ order'[o].mine
        /\ \A i \in Ids : Leads(o, i) => order'[o].op # "none"
    BY <1>2, <1>3, EndedSo
  <1>5. OrderTells(o)'
    <2>1. order'[o].op # "none" => (r.op # "create" => r.id \in Ids)
      BY <1>1, <1>3, <1>4 DEF OrderTells
    <2>. QED
      BY <1>1, <1>2, <1>4, <2>1 DEF OrderTells
  <1>6. \A i \in Ids : Leads(o, i) => Leads(o, i)'
    BY <1>2, <1>4 DEF Leads, Acts
  <1>7. DeletesWait'
    BY <1>2, <1>4, DeletesStay DEF Progresses, HasRow
  <1>8. loading' \in ItemLoads /\ LoadTells'
    BY <1>2, LoaderStays
  <1>9. CASE r.phase # "written"
    <2>1. UNCHANGED <<shown, skipped>>
      BY <1>9 DEF Fail
    <2>. QED
      BY <1>2, <1>4, <1>5, <1>6, <1>7, <1>8, <1>9, <2>1, QuietSteps
  <1>10. CASE r.phase = "written"
    <2>1. r.id \in Ids /\ r.change <= stock[r.id].n
      BY <1>1, <1>3, <1>10 DEF OrderTells
    <2>. PICK i \in Ids, c \in Nat : i = r.id /\ c = r.change
      BY <2>1 DEF Orders
    <2>2. skipped' = [skipped EXCEPT ![i] = Larger(@, c)] /\ shown' = shown
      BY <1>10 DEF Fail, Skips
    <2>3. \A j \in Ids : shown[j] \in Nat /\ skipped[j] \in Nat /\ stock[j].n \in Nat /\ skipped[j] <= stock[j].n
      BY <1>1 DEF ItemsTypeOK, ItemRows, ItemsInv, ItemInv, ChangeKnown
    <2>4. skipped'[i] = Larger(skipped[i], c) /\ \A j \in Ids : j # i => skipped'[j] = skipped[j]
      BY <1>1, <2>2 DEF ItemsTypeOK
    <2>5. Larger(skipped[i], c) \in Nat /\ skipped[i] <= Larger(skipped[i], c) /\ c <= Larger(skipped[i], c) /\ Larger(skipped[i], c) <= stock[i].n
      BY <2>1, <2>3 DEF Larger
    <2>6. skipped' \in [Ids -> Nat]
      BY <1>1, <2>2, <2>5 DEF ItemsTypeOK
    <2>7. ItemsTypeOK'
      BY <1>1, <1>2, <1>4, <1>8, <2>2, <2>6 DEF ItemsTypeOK, Progresses
    <2>8. WireTells' /\ \A p \in Slots : OrderTells(p)'
      BY <1>2, <1>4, <1>5 DEF ItemsInv, WireTells, OrderTells, Progresses
    <2>9. ASSUME NEW j \in Ids PROVE ItemInv(j)'
      <3>1. SameOrders(j)
        BY <1>1, <1>2, <1>4, <1>6, OrdersStay
      <3>2. skipped[j] <= skipped'[j] /\ skipped'[j] <= stock[j].n /\ shown'[j] = shown[j]
        BY <2>2, <2>3, <2>4, <2>5
      <3>3. stock[j].n <= Known(j) \/ Underway(j)
        BY DEF ItemsInv, ItemInv, ChangeKnown
      <3>4. Known(j) <= Known(j)' /\ skipped'[j] <= Known(j)' /\ Known(j) \in Nat /\ Known(j)' \in Nat
        BY <2>3, <2>6, <3>2 DEF Known, Larger
      <3>5. CASE Underway(j) /\ ~Underway(j)'
        <4>1. j = i /\ c = stock[j].n
          BY <1>2, <1>4, <3>5 DEF Underway, Progresses
        <4>. QED
          BY <1>2, <2>4, <2>5, <2>3, <3>1, <3>2, <3>4, <4>1, <2>7, ItemStays
      <3>6. CASE ~Underway(j) \/ Underway(j)'
        <4>1. stock[j].n <= Known(j)' \/ Underway(j)'
          BY <2>3, <3>3, <3>4, <3>6
        <4>. QED
          BY <1>2, <2>7, <3>1, <3>2, <4>1, ItemStays
      <3>. QED
        BY <3>5, <3>6
    <2>. QED
      BY <1>7, <1>8, <2>7, <2>8, <2>9 DEF ItemsInv
  <1>. QED
    BY <1>9, <1>10

LEMMA EmitChangeSteps ==
  ASSUME ItemsInv, NEW o \in Slots, EmitChange(o)
  PROVE  ItemsInv'
  <1>1. ItemsTypeOK /\ OrderTells(o)
    BY DEF ItemsInv
  <1>2. order[o].phase = "written" /\ Ended(o, "told") /\ UNCHANGED <<style, stock, listed, loading, spoiled, shown, skipped>>
    BY DEF EmitChange, Waits
  <1>3. order[o] \in Orders /\ order[o].op # "none"
    BY <1>1, <1>2 DEF ItemsTypeOK, NoOrder, Orders, ItemOps
  <1>. PICK r \in Orders : r = order[o]
    BY <1>3
  <1>4. /\ Progresses(o)
        /\ order'[o].phase # "found" /\ order'[o].phase # "written"
        /\ order'[o].op # "none" =>
               /\ order'[o].phase = "told" /\ order'[o].change = order[o].change /\ order'[o].id = order[o].id
               /\ order'[o].on = order[o].on /\ order'[o].op = order[o].op /\ order'[o].mine
    BY <1>2, <1>3, EndedSo
  <1>5. r.id \in Ids /\ Tells(r.op, r.change, r.on, stock[r.id])
    BY <1>1, <1>2, <1>3 DEF OrderTells
  <1>. PICK i \in Ids, c \in Nat, on \in BOOLEAN : i = r.id /\ c = r.change /\ on = (r.op = "update" /\ r.on)
    BY <1>5 DEF Orders
  <1>. PICK e : e = [op |-> r.op, id |-> i, change |-> c, on |-> on]
    OBVIOUS
  <1>6. e \in ItemEvents /\ e.op = r.op /\ e.id = i /\ e.change = c /\ e.on = on
    BY DEF ItemEvents, Orders
  <1>7. wire' = Append(wire, e)
    BY DEF EmitChange
  <1>. PICK len \in Nat : len = Len(wire)
    BY <1>1 DEF ItemsTypeOK
  <1>8. /\ wire' \in Seq(ItemEvents) /\ DOMAIN wire' = 1..len + 1 /\ DOMAIN wire = 1..len
        /\ wire'[len + 1] = e /\ \A k \in DOMAIN wire : wire'[k] = wire[k]
    BY <1>1, <1>6, <1>7 DEF ItemsTypeOK
  <1>9. ItemsTypeOK'
    BY <1>1, <1>2, <1>4, <1>8 DEF ItemsTypeOK, Progresses
  <1>10. OrderTells(o)'
    BY <1>1, <1>2, <1>4, <1>5 DEF OrderTells
  <1>11. \A p \in Slots : OrderTells(p)'
    BY <1>2, <1>4, <1>10 DEF ItemsInv, OrderTells, Progresses
  <1>12. WireTells'
    <2>1. Tells(e.op, e.change, e.on, stock[e.id])
      BY <1>5, <1>6 DEF Tells, Carries
    <2>. SUFFICES ASSUME NEW k \in DOMAIN wire'
                  PROVE  Tells(wire'[k].op, wire'[k].change, wire'[k].on, stock[wire'[k].id])
      BY <1>2 DEF WireTells
    <2>2. CASE k = len + 1
      BY <1>8, <2>1, <2>2
    <2>3. CASE k # len + 1
      <3>1. k \in DOMAIN wire /\ wire'[k] = wire[k]
        BY <1>8, <2>3
      <3>. QED
        BY <3>1 DEF ItemsInv, WireTells
    <2>. QED
      BY <2>2, <2>3
  <1>13. DeletesWait'
    BY <1>2, <1>4, DeletesStay DEF Progresses, HasRow
  <1>14. LoadTells'
    BY <1>2, LoaderStays
  <1>15. ASSUME NEW j \in Ids PROVE ItemInv(j)'
    <2>1. ~Leads(o, j)
      BY <1>2 DEF Leads
    <2>2. SameOrders(j)
      BY <1>1, <1>2, <1>4, <2>1, OrdersStay
    <2>3. stock[j].n <= Known(j) \/ Underway(j)
      BY DEF ItemsInv, ItemInv, ChangeKnown
    <2>4. Known(j)' = Known(j)
      BY <1>2, KnownStays
    <2>5. ASSUME Underway(j) PROVE Underway(j)'
      <3>1. CASE \E k \in DOMAIN wire : wire[k].id = j /\ wire[k].change = stock[j].n
        <4>. PICK k \in DOMAIN wire : wire[k].id = j /\ wire[k].change = stock[j].n
          BY <3>1
        <4>1. k \in DOMAIN wire' /\ wire'[k] = wire[k]
          BY <1>8
        <4>. QED
          BY <1>2, <4>1 DEF Underway
      <3>2. CASE \E p \in Slots : order[p].op # "none" /\ order[p].phase = "written" /\ order[p].id = j /\ order[p].change = stock[j].n
        <4>. PICK p \in Slots : order[p].op # "none" /\ order[p].phase = "written" /\ order[p].id = j /\ order[p].change = stock[j].n
          BY <3>2
        <4>1. CASE p = o
          <5>1. len + 1 \in DOMAIN wire' /\ wire'[len + 1].id = j /\ wire'[len + 1].change = stock[j].n
            BY <1>6, <1>8, <4>1
          <5>. QED
            BY <1>2, <5>1 DEF Underway
        <4>2. CASE p # o
          BY <1>2, <1>4, <4>2 DEF Underway, Progresses
        <4>. QED
          BY <4>1, <4>2
      <3>. QED
        BY <2>5, <3>1, <3>2 DEF Underway
    <2>6. skipped[j] <= skipped'[j] /\ skipped'[j] <= stock[j].n
      BY <1>1, <1>2 DEF ItemsTypeOK, ItemsInv, ItemInv, ChangeKnown
    <2>. QED
      BY <1>2, <1>9, <2>2, <2>3, <2>4, <2>5, <2>6, ItemStays
  <1>. QED
    BY <1>9, <1>11, <1>12, <1>13, <1>14, <1>15 DEF ItemsInv

-----------------------------------------------------------------------------
\* A request has written the row of an item; what is said of that item and of
\* the others.
RowWritten(o, i, row) ==
    /\ stock' = [stock EXCEPT ![i] = row] /\ row.n = stock[i].n + 1 /\ row.is # "unborn"
    /\ row.is # "there" => order[o].op = "delete"
    /\ order' \in [Slots -> Orders \cup {NoOrder}] /\ \A p \in Slots : p # o => order'[p] = order[p]
    /\ order[o].phase = "found" /\ order'[o].phase = "written"
    /\ order'[o].op = order[o].op /\ order'[o].mine = order[o].mine /\ order'[o].id = i
    /\ order'[o].before = order[o].before /\ order'[o].touched = order[o].touched /\ order'[o].change = row.n
    /\ order[o].op # "create" => order[o].id = i /\ stock[i].is = "there"
    /\ order[o].op = "create" => stock[i].is = "unborn"
    /\ Tells(order'[o].op, order'[o].change, order'[o].on, row)
    /\ UNCHANGED <<style, listed, wire, loading, shown, skipped, spoiled>>
LEMMA RowIsWritten ==
  ASSUME ItemsInv, NEW o \in Slots, NEW i \in Ids, NEW row \in ItemRows, RowWritten(o, i, row)
  PROVE  ItemsInv'
  <1>. USE DEF RowWritten
  <1>1. ItemsTypeOK /\ ItemInv(i)
    BY DEF ItemsInv
  <1>2. stock' \in [Ids -> ItemRows] /\ stock'[i] = row /\ \A j \in Ids : j # i => stock'[j] = stock[j]
    BY <1>1 DEF ItemsTypeOK
  <1>3. ItemsTypeOK'
    BY <1>1, <1>2 DEF ItemsTypeOK
  <1>4. stock[i].n \in Nat /\ row.n \in Nat /\ shown[i] \in Nat /\ skipped[i] \in Nat
    BY <1>1 DEF ItemsTypeOK, ItemRows
  <1>5. ASSUME NEW j \in Ids, NEW op \in ItemOps, NEW c \in Nat, NEW on, Tells(op, c, on, stock[j])
        PROVE  Tells(op, c, on, stock'[j])
    BY <1>2, <1>4, <1>5 DEF Tells
  <1>6. WireTells'
    <2>. SUFFICES ASSUME NEW k \in DOMAIN wire
                  PROVE  Tells(wire[k].op, wire[k].change, wire[k].on, stock'[wire[k].id])
      BY DEF WireTells
    <2>1. wire[k] \in ItemEvents
      BY <1>1 DEF ItemsTypeOK
    <2>2. Tells(wire[k].op, wire[k].change, wire[k].on, stock[wire[k].id])
      BY DEF ItemsInv, WireTells
    <2>. QED
      BY <1>5, <2>1, <2>2 DEF ItemEvents
  <1>7. LoadTells'
    <2>. SUFFICES ASSUME loading.at = "answered", NEW j \in Ids
                  PROVE  /\ loading.stock[j].n <= stock'[j].n /\ Counted(loading.stock[j])
                         /\ loading.stock[j].n = stock'[j].n => loading.stock[j] = stock'[j]
      BY DEF LoadTells
    <2>1. /\ loading.stock[j].n <= stock[j].n /\ Counted(loading.stock[j])
          /\ loading.stock[j].n = stock[j].n => loading.stock[j] = stock[j]
      BY DEF ItemsInv, LoadTells
    <2>2. loading.stock[j].n \in Nat
      BY <1>1 DEF ItemsTypeOK, ItemLoads, ItemRows
    <2>. QED
      BY <1>2, <1>4, <2>1, <2>2
  <1>8. ASSUME NEW p \in Slots PROVE OrderTells(p)'
    <2>1. CASE p = o
      <3>1. stock'[i].is # "unborn" /\ order'[o].change <= stock'[i].n
        BY <1>2, <1>4
      <3>. QED
        BY <1>2, <2>1, <3>1 DEF OrderTells
    <2>2. CASE p # o
      <3>. SUFFICES ASSUME order[p].op # "none" PROVE OrderTells(p)'
        BY <2>2 DEF OrderTells
      <3>. PICK s \in Orders : s = order[p]
        BY <1>1 DEF ItemsTypeOK, NoOrder
      <3>1. /\ s.op # "create" \/ s.phase \in {"written", "told"} => s.id \in Ids
            /\ s.id \in Ids => stock[s.id].is # "unborn" /\ s.change <= stock[s.id].n
            /\ s.phase \in {"written", "told"} => Tells(s.op, s.change, s.on, stock[s.id])
            /\ s.phase = "absent" => s.op # "create" /\ stock[s.id].is = "gone"
        BY DEF ItemsInv, OrderTells
      <3>2. s.phase \in {"written", "told"} => Tells(s.op, s.change, s.on, stock'[s.id])
        BY <1>5, <3>1 DEF Orders
      <3>3. s.id \in Ids => stock'[s.id].is # "unborn" /\ s.change <= stock'[s.id].n
        <4>1. s.change \in Nat
          BY DEF Orders
        <4>. QED
          BY <1>2, <1>4, <3>1, <4>1
      <3>4. s.phase = "absent" => s.op # "create" /\ stock'[s.id].is = "gone"
        <4>. SUFFICES ASSUME s.phase = "absent" PROVE s.op # "create" /\ stock'[s.id].is = "gone"
          OBVIOUS
        <4>1. s.op # "create" /\ s.id \in Ids /\ stock[s.id].is = "gone"
          BY <3>1
        <4>2. s.id # i
          BY <4>1
        <4>. QED
          BY <1>2, <4>1, <4>2
      <3>. QED
        BY <2>2, <3>1, <3>2, <3>3, <3>4 DEF OrderTells
    <2>. QED
      BY <2>1, <2>2
  <1>9. \A p \in Slots, j \in Ids : Acts(p, j)' => Acts(p, j) /\ order'[p].op = order[p].op
                                    /\ order'[p].before = order[p].before /\ order'[p].touched = order[p].touched
    <2>. SUFFICES ASSUME NEW p \in Slots, NEW j \in Ids, Acts(p, j)'
                  PROVE  Acts(p, j) /\ order'[p].op = order[p].op
                         /\ order'[p].before = order[p].before /\ order'[p].touched = order[p].touched
      OBVIOUS
    <2>1. CASE p = o
      BY <2>1 DEF Acts
    <2>2. CASE p # o
      BY <2>2 DEF Acts
    <2>. QED
      BY <2>1, <2>2
  <1>10. DeletesWait'
    <2>. SUFFICES ASSUME style = "checklist", NEW p \in Slots, NEW j \in Ids, Deletes(p, j)'
                  PROVE  HasRow(j)' /\ \A q \in Slots : q # p => ~Deletes(q, j)'
      BY DEF DeletesWait
    <2>1. \A q \in Slots : Deletes(q, j)' => q # o /\ Deletes(q, j)
      BY DEF Deletes
    <2>2. HasRow(j) /\ \A q \in Slots : q # p => ~Deletes(q, j)
      BY <2>1 DEF ItemsInv, DeletesWait
    <2>3. j = i => row.is = "there"
      BY <2>1, <2>2 DEF Deletes
    <2>. QED
      BY <1>2, <2>1, <2>2, <2>3 DEF HasRow
  <1>11. ASSUME NEW j \in Ids, j # i PROVE ItemInv(j)'
    <2>1. ~Leads(o, j)
      BY <1>11 DEF Leads, Acts
    <2>2. Progresses(o)
      <3>1. order[o].op # "create" => order'[o].id = order[o].id
        OBVIOUS
      <3>. QED
        BY <3>1 DEF Progresses
    <2>3. SameOrders(j)
      BY <1>1, <2>1, <2>2, OrdersStay
    <2>4. stock[j].n <= Known(j) \/ Underway(j)
      BY DEF ItemsInv, ItemInv, ChangeKnown
    <2>5. Underway(j) => Underway(j)'
      BY <1>2, <1>11, StillUnderway
    <2>6. Known(j)' = Known(j)
      BY KnownStays
    <2>7. skipped[j] <= skipped'[j] /\ skipped'[j] <= stock[j].n
      BY <1>1 DEF ItemsInv, ItemInv, ChangeKnown, ItemsTypeOK
    <2>. QED
      BY <1>2, <1>3, <1>11, <2>3, <2>4, <2>5, <2>6, <2>7, ItemStays
  <1>12. ItemInv(i)'
    <2>1. ChangeKnown(i)'
      <3>1. ChangeKnown(i)
        BY <1>1 DEF ItemInv
      <3>2. Known(i)' = Known(i)
        BY KnownStays
      <3>3. shown'[i] <= stock'[i].n /\ skipped'[i] <= stock'[i].n
        BY <1>2, <1>4, <3>1 DEF ChangeKnown
      <3>4. Underway(i)'
        BY <1>2 DEF Underway, Tells, Carries, Orders, ItemOps, NoOrder
      <3>5. Counted(stock'[i])
        BY <1>2, <1>4 DEF Counted
      <3>. QED
        BY <3>1, <3>2, <3>3, <3>4, <3>5 DEF ChangeKnown
    <2>2. ~Latest(i)'
      BY <1>1, <1>2, <1>4 DEF Latest, ItemInv, ChangeKnown
    <2>3. ListTells(i)'
      BY <1>1, <2>2 DEF ListTells, ItemInv
    <2>4. ASSUME NEW p \in Slots, Acts(p, i)' PROVE PutsBack(p, i)'
      <3>1. Acts(p, i) /\ order'[p].op = order[p].op /\ order'[p].touched = order[p].touched
        BY <1>9, <2>4
      <3>2. PutsBack(p, i)
        BY <1>1, <3>1 DEF ItemInv
      <3>3. Known(i)' = Known(i)
        BY KnownStays
      <3>4. \A q \in Slots : Acts(q, i)' => Acts(q, i) /\ order'[q].touched = order[q].touched
        BY <1>9
      <3>. QED
        BY <2>2, <3>1, <3>2, <3>3, <3>4 DEF PutsBack
    <2>. QED
      BY <2>1, <2>3, <2>4 DEF ItemInv
  <1>. QED
    BY <1>3, <1>6, <1>7, <1>8, <1>10, <1>11, <1>12 DEF ItemsInv

\* A new row is as its creation says.
LEMMA CreateTells ==
  ASSUME NEW row, row.is = "there", row.on = FALSE, row.n = 1, NEW on \in BOOLEAN
  PROVE  Tells("create", 1, on, row)
  <1>1. ("create" = "update" /\ on) = FALSE
    OBVIOUS
  <1>2. Carries("create", on, row)
    BY <1>1 DEF Carries
  <1>. QED
    BY <1>2 DEF Tells

LEMMA WriteSteps ==
  ASSUME ItemsInv, NEW o \in Slots, Write(o)
  PROVE  ItemsInv'
  <1>1. ItemsTypeOK /\ OrderTells(o)
    BY DEF ItemsInv
  <1>2. order[o].phase = "found" /\ UNCHANGED <<style, listed, wire, loading, shown, skipped, spoiled>>
    BY DEF Write, Waits
  <1>3. order[o] \in Orders /\ order[o].op # "none"
    BY <1>1, <1>2 DEF ItemsTypeOK, NoOrder, Orders, ItemOps
  <1>. PICK r \in Orders : r = order[o]
    BY <1>3
  <1>4. CASE r.op = "create"
    <2>. PICK i \in Ids : /\ stock[i].is = "unborn"
                          /\ stock' = [stock EXCEPT ![i] = [is |-> "there", on |-> FALSE, n |-> 1]]
                          /\ order' = [order EXCEPT ![o].phase = "written", ![o].id = i, ![o].change = 1]
      BY <1>4 DEF Write
    <2>. PICK row : row = [is |-> "there", on |-> FALSE, n |-> 1]
      OBVIOUS
    <2>1. row \in ItemRows /\ row.is = "there" /\ row.on = FALSE /\ row.n = 1
      BY DEF ItemRows
    <2>2. stock[i].n = 0
      BY DEF ItemsInv, ItemInv, ChangeKnown, Counted
    <2>. PICK on \in BOOLEAN : on = r.on
      BY DEF Orders
    <2>. PICK n : n = [r EXCEPT !.phase = "written", !.id = i, !.change = 1]
      OBVIOUS
    <2>3. /\ n \in Orders /\ n.phase = "written" /\ n.change = 1 /\ n.op = r.op /\ n.mine = r.mine /\ n.id = i /\ n.on = on
          /\ n.before = r.before /\ n.touched = r.touched
      BY DEF Orders, OrderPhases
    <2>4. order' = [order EXCEPT ![o] = n]
      OBVIOUS
    <2>5. order' \in [Slots -> Orders \cup {NoOrder}] /\ order'[o] = n /\ \A p \in Slots : p # o => order'[p] = order[p]
      BY <1>1, <2>3, <2>4 DEF ItemsTypeOK
    <2>6. Tells(n.op, n.change, n.on, row)
      <3>1. Tells("create", 1, on, row)
        BY <2>1, CreateTells
      <3>. QED
        BY <1>4, <2>3, <3>1
    <2>7. stock' = [stock EXCEPT ![i] = row]
      OBVIOUS
    <2>8. row.n = stock[i].n + 1
      BY <2>1, <2>2
    <2>9. RowWritten(o, i, row)
      BY <1>2, <1>4, <2>1, <2>3, <2>5, <2>6, <2>7, <2>8 DEF RowWritten
    <2>. QED
      BY <2>1, <2>9, RowIsWritten
  <1>5. CASE r.op # "create" /\ HasRow(r.id)
    <2>1. r.id \in Ids
      BY <1>1, <1>3, <1>5 DEF OrderTells, Orders, ItemOps
    <2>. PICK i \in Ids : i = r.id
      BY <2>1
    <2>2. \E row \in ItemRows, n \in Orders :
             /\ stock' = [stock EXCEPT ![i] = row] /\ order' = [order EXCEPT ![o] = n]
             /\ row.n = stock[i].n + 1 /\ row.is # "unborn" /\ (row.is # "there" => r.op = "delete")
             /\ n.phase = "written" /\ n.change = row.n /\ n.op = r.op /\ n.mine = r.mine /\ n.id = i
             /\ n.before = r.before /\ n.touched = r.touched
             /\ Tells(n.op, n.change, n.on, row)
      <3>. PICK on \in BOOLEAN : on = r.on
        BY DEF Orders
      <3>. PICK s \in ItemRows : s = stock[i]
        BY <1>1 DEF ItemsTypeOK
      <3>1. s.is = "there" /\ s.n \in Nat /\ s.n + 1 \in Nat /\ s.n + 1 >= 1
        BY <1>5 DEF HasRow, ItemRows
      <3>. PICK m \in Nat : m = s.n + 1
        BY <3>1
      <3>. PICK row : row = [is |-> IF r.op = "delete" THEN "gone" ELSE s.is, on |-> IF r.op = "update" THEN on ELSE s.on, n |-> m]
        OBVIOUS
      <3>2. /\ row \in ItemRows /\ row.is = (IF r.op = "delete" THEN "gone" ELSE "there") /\ row.n = m
            /\ row.on = IF r.op = "update" THEN on ELSE s.on
        BY <3>1 DEF ItemRows
      <3>. PICK n : n = [r EXCEPT !.phase = "written", !.change = m]
        OBVIOUS
      <3>3. /\ n \in Orders /\ n.phase = "written" /\ n.change = m /\ n.op = r.op /\ n.mine = r.mine /\ n.id = i
            /\ n.before = r.before /\ n.touched = r.touched /\ n.on = on
        BY DEF Orders, OrderPhases
      <3>4. stock' = [stock EXCEPT ![i] = row] /\ order' = [order EXCEPT ![o] = n]
        BY <1>5 DEF Write
      <3>5. Tells(n.op, n.change, n.on, row)
        BY <1>5, <3>1, <3>2, <3>3 DEF Tells, Carries, Orders, ItemOps
      <3>6. row.n = stock[i].n + 1 /\ n.change = row.n
        BY <3>1, <3>2, <3>3
      <3>7. row.is # "unborn" /\ (row.is # "there" => r.op = "delete")
        BY <3>2
      <3>. QED
        BY <3>2, <3>3, <3>4, <3>5, <3>6, <3>7
    <2>. PICK row \in ItemRows, n \in Orders :
             /\ stock' = [stock EXCEPT ![i] = row] /\ order' = [order EXCEPT ![o] = n]
             /\ row.n = stock[i].n + 1 /\ row.is # "unborn" /\ (row.is # "there" => r.op = "delete")
             /\ n.phase = "written" /\ n.change = row.n /\ n.op = r.op /\ n.mine = r.mine /\ n.id = i
             /\ n.before = r.before /\ n.touched = r.touched
             /\ Tells(n.op, n.change, n.on, row)
      BY <2>2
    <2>3. order' \in [Slots -> Orders \cup {NoOrder}] /\ order'[o] = n /\ \A p \in Slots : p # o => order'[p] = order[p]
      BY <1>1 DEF ItemsTypeOK
    <2>4. stock[i].is = "there"
      BY <1>5 DEF HasRow
    <2>5. RowWritten(o, i, row)
      BY <1>2, <1>5, <2>3, <2>4 DEF RowWritten
    <2>. QED
      BY <2>5, RowIsWritten
  <1>6. CASE r.op # "create" /\ ~HasRow(r.id)
    <2>1. r.id \in Ids
      BY <1>1, <1>3, <1>6 DEF OrderTells, Orders, ItemOps
    <2>. PICK i \in Ids : i = r.id
      BY <2>1
    <2>2. stock[i].is = "gone" /\ stock[i].n \in Nat /\ stock[i].n >= 1
      BY <1>1, <1>3, <1>6 DEF OrderTells, HasRow, ItemsTypeOK, ItemRows, ItemsInv, ItemInv, ChangeKnown, Counted
    <2>. PICK m \in Nat : m = stock[i].n
      BY <2>2
    <2>. PICK phase \in {"written", "absent"} : phase = IF r.op = "delete" THEN "written" ELSE "absent"
      OBVIOUS
    <2>. PICK n : n = [r EXCEPT !.phase = phase, !.change = m]
      OBVIOUS
    <2>4. /\ n \in Orders /\ n.phase = phase /\ n.change = m /\ n.op = r.op /\ n.mine = r.mine /\ n.id = i
          /\ n.before = r.before /\ n.touched = r.touched
      BY DEF Orders, OrderPhases
    <2>5. order' = [order EXCEPT ![o] = n] /\ stock' = stock
      BY <1>6 DEF Write
    <2>6. order' \in [Slots -> Orders \cup {NoOrder}] /\ order'[o] = n /\ \A p \in Slots : p # o => order'[p] = order[p]
      BY <1>1, <2>4, <2>5 DEF ItemsTypeOK
    <2>7. Progresses(o)
      BY <2>4, <2>6 DEF Progresses
    <2>8. OrderTells(o)'
      <3>1. phase = "written" => Tells(n.op, m, n.on, stock[i])
        BY <1>6, <2>2, <2>4 DEF Tells, Carries
      <3>2. m <= stock[i].n
        BY <2>2
      <3>. QED
        BY <1>6, <2>2, <2>4, <2>5, <2>6, <3>1, <3>2 DEF OrderTells
    <2>9. \A j \in Ids : Leads(o, j) => Leads(o, j)'
      <3>1. CASE r.op = "delete"
        <4>1. style # "checklist"
          BY <1>2, <1>6, <3>1 DEF ItemsInv, DeletesWait, Deletes
        <4>. QED
          BY <3>1, <4>1 DEF Leads, Acts
      <3>2. CASE r.op # "delete"
        BY <1>2, <2>4, <2>6, <3>2 DEF Leads, Acts
      <3>. QED
        BY <3>1, <3>2
    <2>10. DeletesWait'
      <3>1. order'[o].phase # "found"
        BY <2>4, <2>6
      <3>. QED
        BY <1>2, <2>5, <2>6, <3>1, DeletesStay DEF HasRow
    <2>11. loading' \in ItemLoads /\ LoadTells'
      BY <1>2, <2>5, LoaderStays
    <2>. QED
      BY <1>2, <2>5, <2>7, <2>8, <2>9, <2>10, <2>11, QuietSteps
  <1>. QED
    BY <1>4, <1>5, <1>6

-----------------------------------------------------------------------------
\* A request is sent: it is of the page and about an item that is listed, or
\* nothing is shown of it.
Asked(o, op, mine, i, on) ==
    /\ order'[o].op = op /\ order'[o].mine = mine /\ order'[o].id = i /\ order'[o].phase = "sent" /\ order'[o].change = 0
    /\ mine /\ i # 0 => /\ order'[o].before = Head(listed[i])
                        /\ order'[o].touched = \E p \in Slots : Mine(p) /\ order[p].id = i
    /\ order[o] = NoOrder /\ order' \in [Slots -> Orders \cup {NoOrder}]
    /\ \A p \in Slots : p # o => order'[p] = order[p]
    /\ UNCHANGED <<style, stock, wire, loading, shown, skipped, spoiled>>
LEMMA Asking ==
  ASSUME ItemsTypeOK, NEW o \in Slots, NEW op \in ItemOps, NEW mine \in BOOLEAN, NEW i \in Ids \cup {0}, NEW on \in BOOLEAN,
         mine /\ i # 0 => listed[i] # <<>>, AskBackend(o, op, mine, i, on)
  PROVE  Asked(o, op, mine, i, on)
  <1>1. mine /\ i # 0 => Head(listed[i]) \in BOOLEAN
    BY DEF ItemsTypeOK
  <1>. PICK before \in BOOLEAN : before = IF mine /\ i # 0 THEN Head(listed[i]) ELSE FALSE
    BY <1>1
  <1>. PICK touched \in BOOLEAN : touched = (mine /\ i # 0 /\ \E p \in Slots : Mine(p) /\ order[p].id = i)
    OBVIOUS
  <1>. PICK n : n = [op |-> op, mine |-> mine, id |-> i, on |-> on, phase |-> "sent", change |-> 0,
                     before |-> before, touched |-> touched]
    OBVIOUS
  <1>2. /\ n \in Orders /\ n.op = op /\ n.mine = mine /\ n.id = i /\ n.phase = "sent" /\ n.change = 0
        /\ n.before = before /\ n.touched = touched
    BY DEF Orders, OrderPhases
  <1>3. order' = [order EXCEPT ![o] = n] /\ order[o] = NoOrder
    BY DEF AskBackend
  <1>4. order' \in [Slots -> Orders \cup {NoOrder}] /\ order'[o] = n /\ \A p \in Slots : p # o => order'[p] = order[p]
    BY <1>2, <1>3 DEF ItemsTypeOK
  <1>5. UNCHANGED <<style, stock, wire, loading, shown, skipped, spoiled>>
    BY DEF AskBackend
  <1>. QED
    BY <1>2, <1>3, <1>4, <1>5 DEF Asked

\* What is said of everything but the items, after a request is sent.
LEMMA AskedWell ==
  ASSUME ItemsInv, NEW o \in Slots, NEW op \in ItemOps, NEW mine \in BOOLEAN, NEW i \in Ids \cup {0}, NEW on \in BOOLEAN,
         Asked(o, op, mine, i, on), i \in Ids => stock[i].is # "unborn", op # "create" => i \in Ids,
         listed' \in [Ids -> Seq(BOOLEAN)]
  PROVE  ItemsTypeOK' /\ WireTells' /\ LoadTells' /\ DeletesWait' /\ \A p \in Slots : OrderTells(p)'
  <1>1. ItemsTypeOK'
    BY DEF ItemsInv, ItemsTypeOK, Asked
  <1>2. WireTells' /\ LoadTells'
    BY DEF ItemsInv, WireTells, LoadTells, Asked
  <1>3. DeletesWait'
    BY DeletesStay DEF Asked, HasRow
  <1>4. ASSUME NEW p \in Slots PROVE OrderTells(p)'
    <2>1. CASE p = o
      <3>1. i \in Ids => 0 <= stock[i].n
        BY DEF ItemsInv, ItemsTypeOK, ItemRows
      <3>. QED
        BY <2>1, <3>1 DEF OrderTells, Asked
    <2>2. CASE p # o
      BY <2>2 DEF ItemsInv, OrderTells, Asked
    <2>. QED
      BY <2>1, <2>2
  <1>. QED
    BY <1>1, <1>2, <1>3, <1>4

\* An item that a new request is not about, or not from this page.
LEMMA NotAsked ==
  ASSUME ItemsInv, ItemsTypeOK', NEW o \in Slots, NEW op, NEW mine, NEW i, NEW on, Asked(o, op, mine, i, on),
         NEW j \in Ids, ~(mine /\ op \in {"update", "delete"} /\ i = j), listed'[j] = listed[j]
  PROVE  ItemInv(j)'
  <1>1. ~Acts(o, j)'
    BY DEF Acts, Asked
  <1>2. \A p \in Slots : p # o => order'[p] = order[p]
    BY DEF Asked
  <1>3. order[o] = NoOrder /\ ~Leads(o, j) /\ order[o].phase # "written"
    BY DEF Asked, Leads, Acts, NoOrder
  <1>4. SameOrders(j)
    BY <1>1, <1>2, <1>3 DEF SameOrders, Acts, Leads, Asked
  <1>5. UNCHANGED <<style, stock, wire, shown, skipped, spoiled>>
    BY DEF Asked
  <1>6. stock[j].n <= Known(j)' \/ Underway(j)'
    <2>1. stock[j].n <= Known(j) \/ Underway(j)
      BY DEF ItemsInv, ItemInv, ChangeKnown
    <2>2. Known(j)' = Known(j)
      BY <1>5, KnownStays
    <2>3. Underway(j) => Underway(j)'
      BY <1>2, <1>3, <1>5, StillUnderway
    <2>. QED
      BY <2>1, <2>2, <2>3
  <1>7. skipped[j] <= skipped'[j] /\ skipped'[j] <= stock[j].n
    BY <1>5 DEF ItemsInv, ItemInv, ChangeKnown, ItemsTypeOK
  <1>. QED
    BY <1>4, <1>5, <1>6, <1>7, ItemStays

LEMMA IdPositive == \A i \in Ids : i # 0
  BY DEF Ids

\* An item that a new request of the page is about: an update is shown at once,
\* and so is a deletion of the checklist.
LEMMA OwnAsked ==
  ASSUME ItemsInv, ItemsTypeOK', NEW o \in Slots, NEW op \in {"update", "delete"}, NEW i \in Ids, NEW on,
         Asked(o, op, TRUE, i, on), listed[i] # <<>>, Len(listed'[i]) <= Len(listed[i]),
         op = "update" => listed'[i] # <<>>,
         op = "delete" /\ style = "checklist" => listed'[i] = <<>>,
         op = "delete" /\ style # "checklist" => listed'[i] = listed[i]
  PROVE  ItemInv(i)'
  <1>1. ItemInv(i) /\ ItemsTypeOK
    BY DEF ItemsInv
  <1>2. /\ order'[o].op = op /\ order'[o].mine /\ order'[o].id = i /\ order'[o].phase = "sent"
        /\ order'[o].before = Head(listed[i]) /\ order[o] = NoOrder
        /\ order'[o].touched = \E p \in Slots : Mine(p) /\ order[p].id = i
        /\ UNCHANGED <<style, stock, wire, shown, skipped, spoiled>>
        /\ \A p \in Slots : p # o => order'[p] = order[p]
    BY IdPositive DEF Asked
  <1>3. \A p \in Slots : p # o => (Acts(p, i)' <=> Acts(p, i)) /\ (Leads(p, i)' <=> Leads(p, i))
    BY <1>2 DEF Acts, Leads
  <1>4. ~Acts(o, i) /\ ~Leads(o, i)
    BY <1>2 DEF Acts, Leads, NoOrder
  <1>5. Acts(o, i)' /\ (op = "update" \/ style = "checklist" => Leads(o, i)')
    BY <1>2 DEF Acts, Leads
  <1>6. Known(i)' = Known(i) /\ Known(i) >= 1
    BY <1>1, <1>2, KnownStays DEF ItemInv, ChangeKnown
  <1>7. (Latest(i)' <=> Latest(i)) /\ AsItIs(i)' = AsItIs(i)
    BY <1>2 DEF Latest, AsItIs, HasRow
  <1>8. ASSUME NEW p \in Slots, Acts(p, i) PROVE order'[o].touched
    BY <1>2, <1>8 DEF Acts, Mine
  <1>9. ChangeKnown(i)'
    <2>1. order[o].phase # "written"
      BY <1>2 DEF NoOrder
    <2>2. Underway(i) => Underway(i)'
      BY <1>2, <2>1, StillUnderway
    <2>. QED
      BY <1>1, <1>2, <1>6, <2>2 DEF ItemInv, ChangeKnown
  <1>10. ListTells(i)'
    <2>1. i \notin spoiled => Len(listed'[i]) <= 1
      BY <1>1, <1>2 DEF ItemInv, ListTells, ItemsTypeOK
    <2>2. CASE op = "update" \/ style = "checklist"
      BY <1>2, <1>5, <2>1, <2>2 DEF ListTells
    <2>3. CASE op = "delete" /\ style # "checklist"
      BY <1>1, <1>2, <1>3, <1>4, <1>7, <2>1, <2>3 DEF ItemInv, ListTells
    <2>. QED
      BY <2>2, <2>3
  <1>11. PutsBack(o, i)'
    <2>1. CASE order'[o].touched
      BY <1>6, <2>1 DEF PutsBack
    <2>2. CASE ~order'[o].touched
      <3>1. \A p \in Slots : ~Acts(p, i) /\ ~Leads(p, i)
        BY <1>8, <2>2 DEF Leads
      <3>2. Latest(i) => <<order'[o].before>> = AsItIs(i)
        <4>. SUFFICES ASSUME Latest(i) PROVE <<order'[o].before>> = AsItIs(i)
          OBVIOUS
        <4>1. listed[i] = AsItIs(i)
          BY <1>1, <3>1 DEF ItemInv, ListTells
        <4>2. listed[i] = <<stock[i].on>>
          BY <4>1 DEF AsItIs
        <4>3. Head(listed[i]) = stock[i].on
          BY <4>2
        <4>. QED
          BY <1>2, <4>1, <4>2, <4>3
      <3>3. \A p \in Slots : p # o => ~Acts(p, i)'
        BY <1>3, <3>1
      <3>4. order'[o].op = "delete" /\ style' = "checklist" => listed'[i] = <<>>
        BY <1>2
      <3>5. order'[o].op = "update" => listed'[i] # <<>>
        BY <1>2
      <3>. QED
        BY <1>6, <1>7, <3>2, <3>3, <3>4, <3>5 DEF PutsBack
    <2>. QED
      BY <2>1, <2>2
  <1>12. ASSUME NEW p \in Slots, p # o, Acts(p, i)' PROVE PutsBack(p, i)'
    <2>1. Acts(p, i) /\ order'[p] = order[p] /\ order'[o].touched
      BY <1>2, <1>3, <1>8, <1>12
    <2>2. PutsBack(p, i)
      BY <1>1, <2>1 DEF ItemInv
    <2>3. CASE order[p].touched
      BY <1>6, <2>1, <2>3 DEF PutsBack
    <2>4. CASE ~order[p].touched
      <3>1. \A q \in Slots : q # p /\ Acts(q, i)' => order'[q].touched
        <4>. SUFFICES ASSUME NEW q \in Slots, q # p, Acts(q, i)' PROVE order'[q].touched
          OBVIOUS
        <4>1. CASE q = o
          BY <2>1, <4>1
        <4>2. CASE q # o
          BY <1>2, <1>3, <2>2, <2>4, <4>2 DEF PutsBack
        <4>. QED
          BY <4>1, <4>2
      <3>2. Latest(i)' => <<order'[p].before>> = AsItIs(i)'
        BY <1>7, <2>1, <2>2, <2>4 DEF PutsBack
      <3>3. listed'[i] # <<>> \/ Leads(o, i)'
        BY <1>5
      <3>4. ~(order[p].op = "delete" /\ style = "checklist")
        BY <2>2, <2>4 DEF PutsBack
      <3>. QED
        BY <1>2, <1>6, <1>12, <2>1, <3>1, <3>2, <3>3, <3>4 DEF PutsBack
    <2>. QED
      BY <2>3, <2>4
  <1>. QED
    BY <1>9, <1>10, <1>11, <1>12 DEF ItemInv

LEMMA HandleAddItemSteps ==
  ASSUME ItemsInv, NEW o \in Slots, HandleAddItem(o)
  PROVE  ItemsInv'
  <1>1. ItemsTypeOK
    BY DEF ItemsInv
  <1>2. AskBackend(o, "create", TRUE, 0, FALSE) /\ listed' = listed
    BY DEF HandleAddItem
  <1>3. Asked(o, "create", TRUE, 0, FALSE)
    BY <1>1, <1>2, Asking DEF ItemOps
  <1>4. listed' \in [Ids -> Seq(BOOLEAN)]
    BY <1>1, <1>2 DEF ItemsTypeOK
  <1>5. ItemsTypeOK' /\ WireTells' /\ LoadTells' /\ DeletesWait' /\ \A p \in Slots : OrderTells(p)'
    <2>1. "create" \in ItemOps /\ TRUE \in BOOLEAN /\ FALSE \in BOOLEAN /\ 0 \in Ids \cup {0} /\ 0 \notin Ids
      BY IdPositive DEF ItemOps
    <2>. QED
      BY <1>3, <1>4, <2>1, AskedWell
  <1>6. ASSUME NEW j \in Ids PROVE ItemInv(j)'
    <2>1. ~(TRUE /\ "create" \in {"update", "delete"} /\ 0 = j) /\ listed'[j] = listed[j]
      BY <1>2
    <2>. QED
      BY <1>3, <1>5, <2>1, NotAsked
  <1>. QED
    BY <1>5, <1>6 DEF ItemsInv

LEMMA OtherAsksSteps ==
  ASSUME ItemsInv, NEW o \in Slots, OtherAsks(o)
  PROVE  ItemsInv'
  <1>1. ItemsTypeOK /\ listed' = listed
    BY DEF ItemsInv, OtherAsks
  <1>2. \E op \in ItemOps, i \in Ids \cup {0}, on \in BOOLEAN :
           AskBackend(o, op, FALSE, i, on) /\ (i \in Ids => stock[i].is # "unborn") /\ (op # "create" => i \in Ids)
    <2>1. CASE AskBackend(o, "create", FALSE, 0, FALSE)
      <3>1. "create" \in ItemOps /\ FALSE \in BOOLEAN /\ 0 \in Ids \cup {0} /\ 0 \notin Ids
        BY IdPositive DEF ItemOps
      <3>. QED
        BY <2>1, <3>1
    <2>2. CASE \E i \in Ids : /\ HasRow(i)
                              /\ AskBackend(o, "update", FALSE, i, ~stock[i].on) \/ AskBackend(o, "delete", FALSE, i, FALSE)
      <3>. PICK i \in Ids : /\ HasRow(i)
                            /\ AskBackend(o, "update", FALSE, i, ~stock[i].on) \/ AskBackend(o, "delete", FALSE, i, FALSE)
        BY <2>2
      <3>1. stock[i].is # "unborn" /\ (~stock[i].on) \in BOOLEAN
        BY DEF HasRow
      <3>. QED
        BY <3>1 DEF ItemOps
    <2>. QED
      BY <2>1, <2>2 DEF OtherAsks
  <1>. PICK op \in ItemOps, i \in Ids \cup {0}, on \in BOOLEAN :
           AskBackend(o, op, FALSE, i, on) /\ (i \in Ids => stock[i].is # "unborn") /\ (op # "create" => i \in Ids)
    BY <1>2
  <1>3. Asked(o, op, FALSE, i, on)
    BY <1>1, Asking
  <1>4. listed' \in [Ids -> Seq(BOOLEAN)]
    BY <1>1 DEF ItemsTypeOK
  <1>5. ItemsTypeOK' /\ WireTells' /\ LoadTells' /\ DeletesWait' /\ \A p \in Slots : OrderTells(p)'
    BY <1>3, <1>4, AskedWell
  <1>6. \A j \in Ids : ItemInv(j)'
    BY <1>1, <1>3, <1>5, NotAsked
  <1>. QED
    BY <1>5, <1>6 DEF ItemsInv

\* A request of the page about an item, with what its list shows of it.
LEMMA OwnAskSteps ==
  ASSUME ItemsInv, NEW o \in Slots, NEW op \in {"update", "delete"}, NEW i \in Ids, NEW on \in BOOLEAN,
         AskBackend(o, op, TRUE, i, on), listed[i] # <<>>, listed' \in [Ids -> Seq(BOOLEAN)],
         \A j \in Ids : j # i => listed'[j] = listed[j],
         Len(listed'[i]) <= Len(listed[i]), op = "update" => listed'[i] # <<>>,
         op = "delete" /\ style = "checklist" => listed'[i] = <<>>,
         op = "delete" /\ style # "checklist" => listed'[i] = listed[i]
  PROVE  ItemsInv'
  <1>1. ItemsTypeOK
    BY DEF ItemsInv
  <1>2. Asked(o, op, TRUE, i, on)
    BY <1>1, Asking DEF ItemOps
  <1>3. stock[i].is # "unborn"
    <2>1. ChangeKnown(i) /\ stock[i].n \in Nat /\ shown[i] \in Nat /\ skipped[i] \in Nat
      BY DEF ItemsInv, ItemInv, ItemsTypeOK, ItemRows
    <2>. QED
      BY <2>1 DEF ChangeKnown, Known, Larger, Counted
  <1>4. ItemsTypeOK' /\ WireTells' /\ LoadTells' /\ DeletesWait' /\ \A p \in Slots : OrderTells(p)'
    BY <1>2, <1>3, AskedWell DEF ItemOps
  <1>5. ItemInv(i)'
    BY <1>2, <1>4, OwnAsked
  <1>6. ASSUME NEW j \in Ids, j # i PROVE ItemInv(j)'
    BY <1>2, <1>4, <1>6, NotAsked
  <1>. QED
    BY <1>4, <1>5, <1>6 DEF ItemsInv

\* A list of one item's entries, all set to the same.
AllSet(t, on) == [n \in DOMAIN t |-> on]
LEMMA SetAll ==
  ASSUME NEW t \in Seq(BOOLEAN), NEW on \in BOOLEAN
  PROVE  /\ AllSet(t, on) \in Seq(BOOLEAN) /\ Len(AllSet(t, on)) <= Len(t)
         /\ t # <<>> => AllSet(t, on) # <<>>
         /\ Len(t) <= 1 => Len(AllSet(t, on)) <= 1 /\ (t # <<>> => AllSet(t, on) = <<on>>)
  <1>. PICK len \in Nat : len = Len(t)
    OBVIOUS
  <1>1. DOMAIN t = 1..len /\ (t # <<>> => len >= 1)
    OBVIOUS
  <1>. PICK s : s = AllSet(t, on)
    OBVIOUS
  <1>2. s = [n \in 1..len |-> on]
    BY <1>1 DEF AllSet
  <1>3. s \in Seq(BOOLEAN) /\ Len(s) = len
    BY <1>2
  <1>4. ASSUME t # <<>>, len <= 1 PROVE s = <<on>>
    <2>1. len = 1
      BY <1>1, <1>4
    <2>. QED
      BY <1>2, <2>1
  <1>. QED
    BY <1>1, <1>3, <1>4

LEMMA ChangedSo ==
  ASSUME NEW i, NEW on
  PROVE  Changed(i, on) = [listed EXCEPT ![i] = AllSet(listed[i], on)]
  BY DEF Changed, AllSet

LEMMA HandleUpdateSteps ==
  ASSUME ItemsInv, NEW o \in Slots, NEW i \in Ids, HandleUpdate(o, i)
  PROVE  ItemsInv'
  <1>1. listed \in [Ids -> Seq(BOOLEAN)] /\ listed[i] # <<>>
    BY DEF ItemsInv, ItemsTypeOK, HandleUpdate
  <1>2. Head(listed[i]) \in BOOLEAN /\ listed[i] \in Seq(BOOLEAN)
    BY <1>1
  <1>3. \E on \in BOOLEAN : AskBackend(o, "update", TRUE, i, on) /\ listed' = Changed(i, on)
    BY <1>2 DEF HandleUpdate
  <1>. PICK on \in BOOLEAN : AskBackend(o, "update", TRUE, i, on) /\ listed' = Changed(i, on)
    BY <1>3
  <1>4. /\ AllSet(listed[i], on) \in Seq(BOOLEAN) /\ Len(AllSet(listed[i], on)) <= Len(listed[i])
        /\ AllSet(listed[i], on) # <<>>
    BY <1>1, <1>2, SetAll
  <1>5. listed' \in [Ids -> Seq(BOOLEAN)] /\ listed'[i] = AllSet(listed[i], on) /\ \A j \in Ids : j # i => listed'[j] = listed[j]
    BY <1>1, <1>4, ChangedSo
  <1>6. Len(listed'[i]) <= Len(listed[i]) /\ listed'[i] # <<>>
    BY <1>4, <1>5
  <1>. QED
    BY <1>1, <1>5, <1>6, OwnAskSteps

LEMMA HandleDeleteSteps ==
  ASSUME ItemsInv, NEW o \in Slots, NEW i \in Ids, HandleDelete(o, i)
  PROVE  ItemsInv'
  <1>1. ItemsTypeOK /\ listed[i] # <<>> /\ AskBackend(o, "delete", TRUE, i, FALSE)
    BY DEF ItemsInv, HandleDelete
  <1>2. Len(listed[i]) \in Nat
    BY <1>1 DEF ItemsTypeOK
  <1>3. CASE style = "checklist"
    <2>1. listed' = [listed EXCEPT ![i] = <<>>]
      BY <1>3 DEF HandleDelete, Removed
    <2>2. listed' \in [Ids -> Seq(BOOLEAN)] /\ listed'[i] = <<>> /\ \A j \in Ids : j # i => listed'[j] = listed[j]
      BY <1>1, <2>1 DEF ItemsTypeOK
    <2>3. Len(listed'[i]) <= Len(listed[i])
      BY <1>2, <2>2
    <2>. QED
      BY <1>1, <1>3, <2>2, <2>3, OwnAskSteps
  <1>4. CASE style # "checklist"
    <2>1. listed' = listed
      BY <1>4 DEF HandleDelete
    <2>2. listed' \in [Ids -> Seq(BOOLEAN)] /\ Len(listed'[i]) <= Len(listed[i])
      BY <1>1, <1>2, <2>1 DEF ItemsTypeOK
    <2>. QED
      BY <1>1, <1>4, <2>1, <2>2, OwnAskSteps
  <1>. QED
    BY <1>3, <1>4

-----------------------------------------------------------------------------
\* Requests get no further, but those about some items learn that the list has
\* moved on; one that nobody waits for any more may be done with.
MovesOn(items) ==
    /\ order' \in [Slots -> Orders \cup {NoOrder}]
    /\ \A p \in Slots : order'[p].op # "none" =>
          /\ order'[p].op = order[p].op /\ order'[p].mine = order[p].mine /\ order'[p].id = order[p].id
          /\ order'[p].on = order[p].on /\ order'[p].phase = order[p].phase /\ order'[p].change = order[p].change
          /\ order'[p].before = order[p].before /\ (order[p].touched => order'[p].touched)
          /\ order[p].mine /\ order[p].id \in items => order'[p].touched
    /\ \A p \in Slots : order[p].op # "none" /\ order'[p].op = "none" => order[p].phase # "written" /\ \A j \in Ids : ~Leads(p, j)

\* What becomes of one request.
LEMMA TouchedSo ==
  ASSUME NEW s \in Orders, NEW n, n = [s EXCEPT !.touched = TRUE]
  PROVE  /\ n \in Orders /\ n.op = s.op /\ n.mine = s.mine /\ n.id = s.id /\ n.on = s.on /\ n.phase = s.phase
         /\ n.change = s.change /\ n.before = s.before /\ n.touched
  BY DEF Orders

LEMMA TouchMoves ==
  ASSUME ItemsTypeOK, NEW items, NEW os \in [Slots -> Orders \cup {NoOrder}], order' = Touch(os, items),
         \A p \in Slots : os[p] = order[p] \/ (os[p] = NoOrder /\ order[p].phase # "written" /\ \A j \in Ids : ~Leads(p, j))
  PROVE  MovesOn(items)
  <1>1. ASSUME NEW p \in Slots
        PROVE  /\ order'[p] \in Orders \cup {NoOrder}
               /\ order'[p].op # "none" =>
                     /\ order'[p].op = order[p].op /\ order'[p].mine = order[p].mine /\ order'[p].id = order[p].id
                     /\ order'[p].on = order[p].on /\ order'[p].phase = order[p].phase /\ order'[p].change = order[p].change
                     /\ order'[p].before = order[p].before /\ (order[p].touched => order'[p].touched)
                     /\ order[p].mine /\ order[p].id \in items => order'[p].touched
               /\ order[p].op # "none" /\ order'[p].op = "none" => order[p].phase # "written" /\ \A j \in Ids : ~Leads(p, j)
    <2>1. order'[p] = IF os[p].op # "none" /\ os[p].mine /\ os[p].id \in items
                      THEN [os[p] EXCEPT !.touched = TRUE] ELSE os[p]
      BY DEF Touch
    <2>2. CASE os[p] = NoOrder
      <3>1. order'[p] = NoOrder
        BY <2>1, <2>2 DEF NoOrder
      <3>. QED
        BY <2>2, <3>1 DEF NoOrder
    <2>3. CASE os[p] # NoOrder
      <3>. PICK s \in Orders : s = os[p]
        BY <2>3
      <3>1. s = order[p]
        BY <2>3
      <3>2. s.op # "none"
        BY DEF Orders, ItemOps
      <3>3. CASE s.mine /\ s.id \in items
        <4>. PICK n : n = [s EXCEPT !.touched = TRUE]
          OBVIOUS
        <4>1. order'[p] = n
          BY <2>1, <3>2, <3>3
        <4>2. /\ n \in Orders /\ n.op = s.op /\ n.mine = s.mine /\ n.id = s.id /\ n.on = s.on /\ n.phase = s.phase
              /\ n.change = s.change /\ n.before = s.before /\ n.touched
          BY TouchedSo
        <4>. QED
          BY <3>1, <3>2, <4>1, <4>2
      <3>4. CASE ~(s.mine /\ s.id \in items)
        <4>1. order'[p] = s
          BY <2>1, <3>4
        <4>. QED
          BY <3>1, <3>2, <3>4, <4>1
      <3>. QED
        BY <3>3, <3>4
    <2>. QED
      BY <2>2, <2>3
  <1>2. order' = [p \in Slots |-> order'[p]]
    BY DEF Touch
  <1>3. order' \in [Slots -> Orders \cup {NoOrder}]
    BY <1>1, <1>2
  <1>. QED
    BY <1>1, <1>3 DEF MovesOn

LEMMA ForgetMoves ==
  ASSUME ItemsTypeOK, NEW items, NEW o \in Slots, order' = Touch(Forget(o), items), order[o].phase # "written",
         \A j \in Ids : ~Leads(o, j)
  PROVE  MovesOn(items)
  <1>. PICK os : os = Forget(o)
    OBVIOUS
  <1>1. os \in [Slots -> Orders \cup {NoOrder}] /\ os[o] = NoOrder /\ \A p \in Slots : p # o => os[p] = order[p]
    BY DEF Forget, ItemsTypeOK
  <1>2. \A p \in Slots : os[p] = order[p] \/ (os[p] = NoOrder /\ order[p].phase # "written" /\ \A j \in Ids : ~Leads(p, j))
    BY <1>1
  <1>. QED
    BY <1>1, <1>2, TouchMoves

\* What is said of the requests goes on being so.
LEMMA MovedWell ==
  ASSUME ItemsInv, NEW items, MovesOn(items), UNCHANGED <<style, stock>>
  PROVE  DeletesWait' /\ (\A p \in Slots : OrderTells(p)') /\ (\A j \in Ids : SameOrders(j))
  <1>1. ASSUME NEW p \in Slots PROVE OrderTells(p)'
    <2>1. OrderTells(p)
      BY DEF ItemsInv
    <2>2. CASE order'[p].op = "none"
      BY <2>2 DEF OrderTells
    <2>3. CASE order'[p].op # "none"
      BY <2>1, <2>3 DEF OrderTells, MovesOn
    <2>. QED
      BY <2>2, <2>3
  <1>2. \A p \in Slots, j \in Ids : Deletes(p, j)' => Deletes(p, j)
    BY DEF Deletes, MovesOn
  <1>3. DeletesWait'
    BY <1>2 DEF ItemsInv, DeletesWait, HasRow
  <1>4. ASSUME NEW j \in Ids PROVE SameOrders(j)
    <2>1. ASSUME NEW p \in Slots, Acts(p, j)'
          PROVE  /\ Acts(p, j) /\ order'[p].op = order[p].op /\ order'[p].before = order[p].before
                 /\ order[p].touched => order'[p].touched
      BY <2>1 DEF Acts, MovesOn
    <2>2. ASSUME NEW p \in Slots, Leads(p, j) PROVE Leads(p, j)'
      <3>1. order[p].op # "none"
        BY <2>2 DEF Leads, Acts
      <3>2. order'[p].op # "none"
        BY <2>2, <3>1 DEF MovesOn
      <3>. QED
        BY <2>2, <3>2 DEF Leads, Acts, MovesOn
    <2>. QED
      BY <2>1, <2>2 DEF SameOrders
  <1>. QED
    BY <1>1, <1>3, <1>4

LEMMA MovesUnderway ==
  ASSUME NEW items, MovesOn(items), wire' = wire, NEW j \in Ids, stock'[j] = stock[j], Underway(j)
  PROVE  Underway(j)'
  BY DEF Underway, MovesOn

\* The list knows no less after a change that got into it.
LEMMA GetsKnows ==
  ASSUME ItemsTypeOK, NEW i \in Ids, NEW c \in Nat, shown'[i] = c, shown[i] <= stock[i].n, skipped[i] <= stock[i].n,
         skipped'[i] = IF shown[i] > c THEN Larger(skipped[i], shown[i]) ELSE skipped[i]
  PROVE  /\ Known(i) \in Nat /\ Known(i)' \in Nat /\ Known(i) <= Known(i)' /\ c <= Known(i)'
         /\ skipped'[i] \in Nat /\ skipped'[i] <= stock[i].n
  <1>1. shown[i] \in Nat /\ skipped[i] \in Nat /\ stock[i].n \in Nat
    BY DEF ItemsTypeOK, ItemRows
  <1>. QED
    BY <1>1 DEF Known, Larger

\* A change of one item gets into the list.
LEMMA OneItemSet ==
  ASSUME ItemsInv, ItemsTypeOK', NEW i \in Ids, NEW c \in Nat, MovesOn({i}), UNCHANGED <<style, stock>>, Gets(i, c),
         c >= 1 \/ listed'[i] = <<>>, c <= stock[i].n, \A j \in Ids : j # i => listed'[j] = listed[j] /\ (j \in spoiled' <=> j \in spoiled),
         i \notin spoiled' => Len(listed'[i]) <= 1, i \notin spoiled' /\ c = stock[i].n => listed'[i] = AsItIs(i),
         \A j \in Ids : Underway(j) => Underway(j)' \/ (j = i /\ stock[i].n <= c)
  PROVE  \A j \in Ids : ItemInv(j)'
  <1>1. ItemsTypeOK
    BY DEF ItemsInv
  <1>2. shown'[i] = c /\ skipped'[i] = IF shown[i] > c THEN Larger(skipped[i], shown[i]) ELSE skipped[i]
    BY <1>1 DEF Gets, ItemsTypeOK
  <1>3. \A j \in Ids : j # i => shown'[j] = shown[j] /\ skipped'[j] = skipped[j]
    BY <1>1 DEF Gets, ItemsTypeOK
  <1>4. \A j \in Ids : ChangeKnown(j) /\ stock[j].n \in Nat /\ skipped[j] \in Nat
    BY <1>1 DEF ItemsInv, ItemInv, ItemsTypeOK, ItemRows
  <1>5. ItemInv(i)'
    <2>1. shown[i] <= stock[i].n /\ skipped[i] <= stock[i].n
      BY <1>4 DEF ChangeKnown
    <2>2. /\ Known(i) \in Nat /\ Known(i)' \in Nat /\ Known(i) <= Known(i)' /\ c <= Known(i)'
          /\ skipped'[i] \in Nat /\ skipped'[i] <= stock[i].n
      BY <1>1, <1>2, <2>1, GetsKnows
    <2>3. stock[i].n <= Known(i)' \/ Underway(i)'
      <3>1. stock[i].n <= Known(i) \/ Underway(i)
        BY <1>4 DEF ChangeKnown
      <3>2. stock[i].n <= c => stock[i].n <= Known(i)'
        BY <1>4, <2>2
      <3>3. stock[i].n <= Known(i) => stock[i].n <= Known(i)'
        BY <1>4, <2>2
      <3>. QED
        BY <3>1, <3>2, <3>3
    <2>4. listed'[i] # <<>> => Known(i)' >= 1
      BY <2>2
    <2>5. ChangeKnown(i)'
      BY <1>2, <1>4, <2>2, <2>3, <2>4 DEF ChangeKnown
    <2>6. Latest(i)' => listed'[i] = AsItIs(i)'
      BY <1>2 DEF Latest, AsItIs, HasRow
    <2>7. ASSUME NEW p \in Slots, Acts(p, i)' PROVE order'[p].touched /\ Known(i)' >= 1
      <3>1. order'[p].touched /\ Acts(p, i)
        BY <2>7 DEF Acts, MovesOn
      <3>2. Known(i) >= 1
        BY <3>1 DEF ItemsInv, ItemInv, PutsBack
      <3>. QED
        BY <2>2, <3>1, <3>2
    <2>. QED
      BY <2>5, <2>6, <2>7, ItemIsSet
  <1>6. ASSUME NEW j \in Ids, j # i PROVE ItemInv(j)'
    <2>1. SameOrders(j)
      BY MovedWell
    <2>2. Known(j)' = Known(j)
      BY <1>3, <1>6, KnownStays
    <2>3. stock[j].n <= Known(j)' \/ Underway(j)'
      BY <1>4, <1>6, <2>2 DEF ChangeKnown
    <2>4. skipped[j] <= skipped'[j] /\ skipped'[j] <= stock[j].n
      BY <1>3, <1>4, <1>6 DEF ChangeKnown
    <2>. QED
      BY <1>3, <1>6, <2>1, <2>3, <2>4, ItemStays
  <1>. QED
    BY <1>5, <1>6

LEMMA InvalidateLoads ==
  ASSUME ItemsInv, Invalidate, stock' = stock
  PROVE  loading' \in ItemLoads /\ LoadTells'
  <1>1. CASE loading' = [NotLoading EXCEPT !.at = "asked"]
    <2>. PICK l : l = [NotLoading EXCEPT !.at = "asked"]
      OBVIOUS
    <2>1. l.at = "asked" /\ l \in ItemLoads
      BY DEF NotLoading, ItemLoads
    <2>. QED
      BY <1>1, <2>1 DEF LoadTells
  <1>2. CASE loading' = loading
    BY <1>2, LoaderStays
  <1>. QED
    BY <1>1, <1>2 DEF Invalidate

\* A change of one item gets into the list, and whoever has shown something of
\* that item learns of it.
GetsIn(i, c, s) ==
    /\ MovesOn({i}) /\ UNCHANGED <<style, stock>> /\ Gets(i, c)
    /\ (c >= 1 \/ s = <<>>) /\ c <= stock[i].n /\ listed' = [listed EXCEPT ![i] = s]
    /\ spoiled' \subseteq Ids /\ \A j \in Ids : j # i => (j \in spoiled' <=> j \in spoiled)
    /\ i \notin spoiled' => Len(s) <= 1 /\ (c = stock[i].n => s = AsItIs(i))
    /\ \A j \in Ids : Underway(j) => Underway(j)' \/ (j = i /\ stock[i].n <= c)
LEMMA GettingSteps ==
  ASSUME ItemsInv, NEW i \in Ids, NEW c \in Nat, NEW s \in Seq(BOOLEAN), GetsIn(i, c, s),
         wire' \in Seq(ItemEvents), WireTells', loading' \in ItemLoads, LoadTells'
  PROVE  ItemsInv'
  <1>. USE DEF GetsIn
  <1>1. ItemsTypeOK /\ shown[i] <= stock[i].n /\ skipped[i] <= stock[i].n
    BY DEF ItemsInv, ItemInv, ChangeKnown
  <1>2. listed' \in [Ids -> Seq(BOOLEAN)] /\ listed'[i] = s /\ \A j \in Ids : j # i => listed'[j] = listed[j]
    BY <1>1 DEF ItemsTypeOK
  <1>3. shown' \in [Ids -> Nat]
    BY <1>1 DEF Gets, ItemsTypeOK
  <1>4. skipped' \in [Ids -> Nat]
    <2>1. shown[i] \in Nat /\ skipped[i] \in Nat
      BY <1>1 DEF ItemsTypeOK
    <2>. PICK k \in Nat : k = IF shown[i] > c THEN Larger(skipped[i], shown[i]) ELSE skipped[i]
      BY <2>1 DEF Larger
    <2>2. skipped' = [skipped EXCEPT ![i] = k]
      BY DEF Gets
    <2>. QED
      BY <1>1, <2>2 DEF ItemsTypeOK
  <1>5. order' \in [Slots -> Orders \cup {NoOrder}]
    BY DEF MovesOn
  <1>6. ItemsTypeOK'
    BY <1>1, <1>2, <1>3, <1>4, <1>5 DEF ItemsTypeOK
  <1>7. \A j \in Ids : ItemInv(j)'
    BY <1>2, <1>6, OneItemSet
  <1>8. DeletesWait' /\ \A p \in Slots : OrderTells(p)'
    BY MovedWell
  <1>. QED
    BY <1>6, <1>7, <1>8 DEF ItemsInv

LEMMA SucceedsSteps ==
  ASSUME ItemsInv, NEW o \in Slots, HandleAnswer(o), Succeeds(o),
         order[o].phase = "told" \/ (order[o].phase = "absent" /\ style = "block" /\ order[o].op = "delete")
  PROVE  ItemsInv'
  <1>1. ItemsTypeOK /\ OrderTells(o) /\ order[o].op # "none"
    BY DEF ItemsInv, HandleAnswer, Mine
  <1>2. UNCHANGED <<style, stock, wire, spoiled>> /\ order[o].phase # "written" /\ \A j \in Ids : ~Leads(o, j)
    BY DEF HandleAnswer, Succeeds, Leads
  <1>. PICK r \in Orders : r = order[o]
    BY <1>1 DEF ItemsTypeOK, NoOrder
  <1>3. loading' \in ItemLoads /\ LoadTells'
    BY <1>2, InvalidateLoads DEF Succeeds
  <1>4. wire' \in Seq(ItemEvents) /\ WireTells' /\ spoiled' \subseteq Ids
    BY <1>1, <1>2 DEF ItemsInv, ItemsTypeOK, WireTells
  <1>5. r.id \in Ids
    BY <1>1 DEF OrderTells
  <1>. PICK i \in Ids, c \in Nat : i = r.id /\ c = r.change
    BY <1>5 DEF Orders
  <1>6. ASSUME NEW items, order' = Touch(Forget(o), items)
        PROVE  MovesOn(items) /\ \A j \in Ids : Underway(j) => Underway(j)'
    <2>1. MovesOn(items)
      BY <1>1, <1>2, <1>6, ForgetMoves
    <2>. QED
      BY <1>2, <2>1, MovesUnderway
  <1>7. CASE r.op = "create" /\ listed[i] = <<>>
    <2>1. listed' = Added(i, FALSE) /\ Gets(i, c) /\ order' = Touch(Forget(o), {i})
      BY <1>7 DEF Succeeds
    <2>2. MovesOn({i}) /\ \A j \in Ids : Underway(j) => Underway(j)'
      BY <1>6, <2>1
    <2>3. c >= 1 /\ c <= stock[i].n /\ (c = stock[i].n => Carries("create", r.on, stock[i]))
      BY <1>1, <1>7 DEF OrderTells, Tells
    <2>. PICK s : s = <<FALSE>>
      OBVIOUS
    <2>4. s \in Seq(BOOLEAN) /\ Len(s) <= 1 /\ listed' = [listed EXCEPT ![i] = s]
      BY <1>7, <2>1 DEF Added
    <2>5. c = stock[i].n => s = AsItIs(i)
      BY <2>3 DEF Carries, AsItIs, HasRow
    <2>6. GetsIn(i, c, s)
      BY <1>2, <1>4, <2>1, <2>2, <2>3, <2>4, <2>5 DEF GetsIn
    <2>. QED
      BY <1>3, <1>4, <2>4, <2>6, GettingSteps
  <1>8. CASE r.op = "delete" /\ style = "block"
    <2>1. listed' = Removed(i) /\ Gets(i, c) /\ order' = Touch(Forget(o), {i})
      BY <1>8 DEF Succeeds
    <2>2. MovesOn({i}) /\ \A j \in Ids : Underway(j) => Underway(j)'
      BY <1>6, <2>1
    <2>3. c <= stock[i].n /\ (c = stock[i].n => ~HasRow(i))
      BY <1>1, <1>8 DEF OrderTells, Tells, Carries, HasRow
    <2>. PICK s : s = <<>>
      OBVIOUS
    <2>4. s \in Seq(BOOLEAN) /\ Len(s) <= 1 /\ listed' = [listed EXCEPT ![i] = s]
      BY <2>1 DEF Removed
    <2>5. c = stock[i].n => s = AsItIs(i)
      BY <2>3 DEF AsItIs
    <2>6. c >= 1 \/ s = <<>>
      OBVIOUS
    <2>7. GetsIn(i, c, s)
      BY <1>2, <1>4, <2>1, <2>2, <2>3, <2>4, <2>5, <2>6 DEF GetsIn
    <2>. QED
      BY <1>3, <1>4, <2>4, <2>7, GettingSteps
  <1>9. CASE ~(r.op = "create" /\ listed[i] = <<>>) /\ ~(r.op = "delete" /\ style = "block")
    <2>1. order' = Forget(o) /\ UNCHANGED <<listed, shown, skipped>>
      BY <1>9 DEF Succeeds, Added
    <2>. QED
      BY <1>2, <1>3, <2>1, ForgetSteps
  <1>. QED
    BY <1>7, <1>8, <1>9

\* What becomes of the entries of an item that is put back.
ListPutBack(o, i) ==
    /\ order[o].op = "update" => listed'[i] = AllSet(listed[i], order[o].before)
    /\ order[o].op = "delete" /\ style = "checklist" => listed'[i] = Append(listed[i], order[o].before)
    /\ order[o].op = "delete" /\ style # "checklist" => listed'[i] = listed[i]

\* What was shown of an update or a deletion is put back: as it was, or the
\* item counts as put back although the list had moved on.
LEMMA PutBackItem ==
  ASSUME ItemsInv, ItemsTypeOK', NEW o \in Slots, NEW i \in Ids, Acts(o, i), order[o].phase # "written",
         order'[o].op = "none", \A p \in Slots : p # o => order'[p] = order[p],
         UNCHANGED <<style, stock, wire, shown, skipped>>,
         order[o].touched => i \in spoiled', ~order[o].touched => (i \in spoiled' <=> i \in spoiled),
         ListPutBack(o, i)
  PROVE  ItemInv(i)'
  <1>. USE DEF ListPutBack
  <1>1. ItemsTypeOK /\ ItemInv(i) /\ PutsBack(o, i)
    BY DEF ItemsInv, ItemInv
  <1>2. \A p \in Slots : Acts(p, i)' => p # o /\ Acts(p, i) /\ order'[p] = order[p]
    BY DEF Acts
  <1>3. Known(i)' = Known(i) /\ Known(i) >= 1
    BY <1>1, KnownStays DEF PutsBack
  <1>4. ChangeKnown(i)'
    <2>1. Underway(i) => Underway(i)'
      BY StillUnderway
    <2>. QED
      BY <1>1, <1>3, <2>1 DEF ItemInv, ChangeKnown
  <1>5. AsItIs(i)' = AsItIs(i)
    BY DEF AsItIs, HasRow
  <1>6. CASE order[o].touched
    <2>1. ~Latest(i)' /\ ListTells(i)'
      BY <1>6 DEF Latest, ListTells
    <2>2. ASSUME NEW p \in Slots, Acts(p, i)' PROVE PutsBack(p, i)'
      <3>1. Acts(p, i) /\ order'[p] = order[p] /\ PutsBack(p, i) /\ p # o
        BY <1>1, <1>2, <2>2 DEF ItemInv
      <3>2. ~order[p].touched => ~(order[p].op = "delete" /\ style = "checklist")
        BY <3>1 DEF PutsBack
      <3>3. ~order[p].touched => \A q \in Slots : q # p /\ Acts(q, i)' => order'[q].touched
        BY <1>2, <3>1 DEF PutsBack
      <3>. QED
        BY <1>3, <2>1, <3>1, <3>2, <3>3 DEF PutsBack
    <2>. QED
      BY <1>4, <2>1, <2>2 DEF ItemInv
  <1>7. CASE ~order[o].touched
    <2>1. ASSUME NEW p \in Slots, Acts(p, i)' PROVE PutsBack(p, i)'
      <3>1. order'[p].touched
        BY <1>1, <1>2, <1>7, <2>1 DEF PutsBack
      <3>. QED
        BY <1>3, <3>1 DEF PutsBack
    <2>2. Latest(i)' <=> Latest(i)
      BY <1>7 DEF Latest
    <2>3. \A p \in Slots : p # o /\ Leads(p, i) => Leads(p, i)'
      BY DEF Leads, Acts
    <2>4. listed[i] \in Seq(BOOLEAN) /\ (i \notin spoiled => Len(listed[i]) <= 1)
      BY <1>1 DEF ItemsTypeOK, ItemInv, ListTells
    <2>. PICK t \in Seq(BOOLEAN) : t = listed[i]
      BY <2>4
    <2>5. CASE order[o].op = "update"
      <3>. PICK b \in BOOLEAN : b = order[o].before
        <4>1. order \in [Slots -> Orders \cup {NoOrder}]
          BY <1>1 DEF ItemsTypeOK
        <4>2. order[o] \in Orders
          BY <2>5, <4>1 DEF NoOrder
        <4>. QED
          BY <4>2 DEF Orders
      <3>1. listed'[i] = AllSet(t, b)
        BY <2>5
      <3>2. i \notin spoiled => Len(listed'[i]) <= 1 /\ (t # <<>> => listed'[i] = <<b>>)
        <4>1. Len(t) <= 1 => Len(AllSet(t, b)) <= 1 /\ (t # <<>> => AllSet(t, b) = <<b>>)
          BY SetAll
        <4>. QED
          BY <2>4, <3>1, <4>1
      <3>3. Latest(i) => <<b>> = AsItIs(i) /\ (t # <<>> \/ \E p \in Slots : p # o /\ Leads(p, i))
        BY <1>1, <1>7, <2>5 DEF PutsBack
      <3>4. ListTells(i)'
        <4>1. i \notin spoiled' => Len(listed'[i]) <= 1
          BY <1>7, <3>2
        <4>2. Latest(i)' => listed'[i] = AsItIs(i)' \/ \E p \in Slots : Leads(p, i)'
          BY <1>5, <2>2, <2>3, <3>2, <3>3 DEF Latest
        <4>. QED
          BY <4>1, <4>2 DEF ListTells
      <3>. QED
        BY <1>4, <2>1, <3>4 DEF ItemInv
    <2>6. CASE order[o].op = "delete" /\ style = "checklist"
      <3>. PICK b : b = order[o].before
        OBVIOUS
      <3>1. listed[i] = <<>>
        BY <1>1, <1>7, <2>6 DEF PutsBack
      <3>2. listed'[i] = <<b>>
        BY <2>6, <3>1
      <3>3. Latest(i) => <<b>> = AsItIs(i)
        BY <1>1, <1>7 DEF PutsBack
      <3>4. Len(listed'[i]) <= 1
        BY <3>2
      <3>5. ListTells(i)'
        BY <1>5, <2>2, <3>2, <3>3, <3>4 DEF ListTells
      <3>. QED
        BY <1>4, <2>1, <3>5 DEF ItemInv
    <2>7. CASE order[o].op = "delete" /\ style # "checklist"
      <3>1. ~Leads(o, i)
        BY <2>7 DEF Leads
      <3>2. listed'[i] = listed[i]
        BY <2>7
      <3>3. ListTells(i)'
        BY <1>1, <1>5, <1>7, <2>2, <2>3, <3>1, <3>2 DEF ItemInv, ListTells
      <3>. QED
        BY <1>4, <2>1, <3>3 DEF ItemInv
    <2>. QED
      BY <2>5, <2>6, <2>7 DEF Acts
  <1>. QED
    BY <1>6, <1>7

LEMMA PutBackSteps ==
  ASSUME ItemsInv, NEW o \in Slots, HandleAnswer(o), PutBack(o), order[o].phase \in {"absent", "failed", "told"}
  PROVE  ItemsInv'
  <1>1. ItemsTypeOK /\ OrderTells(o) /\ order[o].op # "none" /\ order[o].mine
    BY DEF ItemsInv, HandleAnswer, Mine
  <1>2. UNCHANGED <<style, stock, wire, loading, shown, skipped>> /\ order' = Forget(o)
    BY DEF HandleAnswer, PutBack
  <1>. PICK r \in Orders : r = order[o]
    BY <1>1 DEF ItemsTypeOK, NoOrder
  <1>3. loading' \in ItemLoads /\ LoadTells'
    BY <1>2, LoaderStays
  <1>4. CASE r.op = "create"
    <2>1. UNCHANGED <<listed, spoiled>>
      BY <1>4 DEF PutBack
    <2>2. \A j \in Ids : ~Leads(o, j)
      BY <1>4 DEF Leads, Acts
    <2>. QED
      BY <1>2, <1>3, <2>1, <2>2, ForgetSteps
  <1>5. CASE r.op # "create"
    <2>1. r.id \in Ids /\ r.op \in {"update", "delete"} /\ r.before \in BOOLEAN
      BY <1>1, <1>5 DEF OrderTells, Orders, ItemOps
    <2>. PICK i \in Ids, b \in BOOLEAN : i = r.id /\ b = r.before
      BY <2>1
    <2>2. Acts(o, i)
      BY <1>1, <2>1 DEF Acts
    <2>3. Progresses(o) /\ order'[o] = NoOrder /\ OrderTells(o)'
      BY <1>2, Forgotten
    <2>4. \A p \in Slots : p # o => order'[p] = order[p]
      BY <2>3 DEF Progresses
    <2>5. \E s \in Seq(BOOLEAN) :
             /\ listed' = [listed EXCEPT ![i] = s]
             /\ r.op = "update" => s = AllSet(listed[i], b)
             /\ r.op = "delete" /\ style = "checklist" => s = Append(listed[i], b)
             /\ r.op = "delete" /\ style # "checklist" => s = listed[i]
      <3>. PICK t \in Seq(BOOLEAN) : t = listed[i]
        BY <1>1 DEF ItemsTypeOK
      <3>1. CASE r.op = "update"
        <4>1. AllSet(t, b) \in Seq(BOOLEAN)
          BY SetAll
        <4>2. listed' = Changed(i, b)
          BY <3>1 DEF PutBack
        <4>3. listed' = [listed EXCEPT ![i] = AllSet(t, b)]
          BY <4>2, ChangedSo
        <4>. QED
          BY <3>1, <4>1, <4>3
      <3>2. CASE r.op = "delete" /\ style = "checklist"
        <4>. PICK s : s = Append(t, b)
          OBVIOUS
        <4>1. s \in Seq(BOOLEAN)
          OBVIOUS
        <4>2. listed' = [listed EXCEPT ![i] = s]
          BY <3>2 DEF PutBack
        <4>. QED
          BY <3>2, <4>1, <4>2
      <3>3. CASE r.op = "delete" /\ style # "checklist"
        <4>1. listed' = listed
          BY <3>3 DEF PutBack
        <4>2. listed' = [listed EXCEPT ![i] = t]
          BY <1>1, <4>1 DEF ItemsTypeOK
        <4>. QED
          BY <3>3, <4>2
      <3>. QED
        BY <2>1, <3>1, <3>2, <3>3
    <2>. PICK s \in Seq(BOOLEAN) :
             /\ listed' = [listed EXCEPT ![i] = s]
             /\ r.op = "update" => s = AllSet(listed[i], b)
             /\ r.op = "delete" /\ style = "checklist" => s = Append(listed[i], b)
             /\ r.op = "delete" /\ style # "checklist" => s = listed[i]
      BY <2>5
    <2>6. listed' \in [Ids -> Seq(BOOLEAN)] /\ listed'[i] = s /\ \A j \in Ids : j # i => listed'[j] = listed[j]
      BY <1>1 DEF ItemsTypeOK
    <2>7. spoiled' = IF r.touched THEN spoiled \cup {i} ELSE spoiled
      BY <1>5 DEF PutBack
    <2>8. ItemsTypeOK'
      BY <1>1, <1>2, <1>3, <2>3, <2>6, <2>7 DEF ItemsTypeOK, Progresses
    <2>9. ItemInv(i)'
      <3>1. order'[o].op = "none"
        BY <2>3 DEF NoOrder
      <3>2. ListPutBack(o, i)
        BY <2>6 DEF ListPutBack
      <3>3. (order[o].touched => i \in spoiled') /\ (~order[o].touched => (i \in spoiled' <=> i \in spoiled))
        BY <2>7
      <3>. QED
        BY <1>2, <2>2, <2>4, <2>8, <3>1, <3>2, <3>3, PutBackItem
    <2>10. ASSUME NEW j \in Ids, j # i PROVE ItemInv(j)'
      <3>1. ~Leads(o, j)
        BY <2>10 DEF Leads, Acts
      <3>2. SameOrders(j)
        BY <1>1, <1>2, <2>3, <3>1, OrdersStay
      <3>3. stock[j].n <= Known(j)' \/ Underway(j)'
        <4>1. stock[j].n <= Known(j) \/ Underway(j)
          BY DEF ItemsInv, ItemInv, ChangeKnown
        <4>2. Known(j)' = Known(j)
          BY <1>2, KnownStays
        <4>3. Underway(j) => Underway(j)'
          BY <1>2, <2>4, StillUnderway
        <4>. QED
          BY <4>1, <4>2, <4>3
      <3>4. skipped[j] <= skipped'[j] /\ skipped'[j] <= stock[j].n
        BY <1>1, <1>2 DEF ItemsInv, ItemInv, ChangeKnown, ItemsTypeOK
      <3>. QED
        BY <1>2, <2>6, <2>7, <2>8, <2>10, <3>2, <3>3, <3>4, ItemStays
    <2>11. WireTells' /\ \A p \in Slots : OrderTells(p)'
      BY <1>2, <2>3, <2>4 DEF ItemsInv, WireTells, OrderTells
    <2>12. DeletesWait'
      <3>1. order'[o].phase # "found"
        BY <2>3 DEF NoOrder
      <3>. QED
        BY <1>2, <2>4, <3>1, DeletesStay DEF HasRow
    <2>. QED
      BY <1>3, <2>8, <2>9, <2>10, <2>11, <2>12 DEF ItemsInv
  <1>. QED
    BY <1>4, <1>5

LEMMA HandleAnswerSteps ==
  ASSUME ItemsInv, NEW o \in Slots, HandleAnswer(o)
  PROVE  ItemsInv'
  <1>1. CASE Succeeds(o) /\ (order[o].phase = "told" \/ (order[o].phase = "absent" /\ style = "block" /\ order[o].op = "delete"))
    BY <1>1, SucceedsSteps
  <1>2. CASE PutBack(o) /\ order[o].phase \in {"absent", "failed", "told"}
    BY <1>2, PutBackSteps
  <1>. QED
    BY <1>1, <1>2 DEF HandleAnswer

-----------------------------------------------------------------------------
\* The first event is heard: what is left on the wire, and what was lost of it.
LEMMA OneHeard ==
  ASSUME ItemsTypeOK, WireTells, wire # <<>>, wire' = Tail(wire), stock' = stock, NEW e, e = Head(wire),
         NEW items, MovesOn(items)
  PROVE  /\ e \in ItemEvents /\ Tells(e.op, e.change, e.on, stock[e.id])
         /\ wire' \in Seq(ItemEvents) /\ WireTells'
         /\ \A j \in Ids : Underway(j) => Underway(j)' \/ (j = e.id /\ stock[j].n <= e.change)
  <1>1. wire \in Seq(ItemEvents)
    BY DEF ItemsTypeOK
  <1>. PICK len \in Nat : len = Len(wire)
    BY <1>1
  <1>2. len >= 1 /\ e = wire[1] /\ e \in ItemEvents /\ DOMAIN wire = 1..len
    BY <1>1
  <1>3. wire' \in Seq(ItemEvents) /\ DOMAIN wire' = 1..len - 1 /\ \A k \in 1..len - 1 : wire'[k] = wire[k + 1]
    BY <1>1, <1>2
  <1>4. Tells(e.op, e.change, e.on, stock[e.id])
    BY <1>2 DEF WireTells
  <1>5. WireTells'
    <2>. SUFFICES ASSUME NEW k \in DOMAIN wire'
                  PROVE  Tells(wire'[k].op, wire'[k].change, wire'[k].on, stock[wire'[k].id])
      BY DEF WireTells
    <2>1. k + 1 \in DOMAIN wire /\ wire'[k] = wire[k + 1]
      BY <1>2, <1>3
    <2>. QED
      BY <2>1 DEF WireTells
  <1>6. ASSUME NEW j \in Ids, Underway(j) PROVE Underway(j)' \/ (j = e.id /\ stock[j].n <= e.change)
    <2>1. CASE \E k \in DOMAIN wire : wire[k].id = j /\ wire[k].change = stock[j].n
      <3>. PICK k \in DOMAIN wire : wire[k].id = j /\ wire[k].change = stock[j].n
        BY <2>1
      <3>1. CASE k = 1
        <4>1. e.change \in Nat /\ e.id = j /\ e.change = stock[j].n
          BY <1>2, <3>1 DEF ItemEvents
        <4>. QED
          BY <4>1
      <3>2. CASE k # 1
        <4>1. k - 1 \in DOMAIN wire' /\ wire'[k - 1] = wire[k]
          BY <1>2, <1>3, <3>2
        <4>. QED
          BY <4>1 DEF Underway
      <3>. QED
        BY <3>1, <3>2
    <2>2. CASE \E p \in Slots : order[p].op # "none" /\ order[p].phase = "written" /\ order[p].id = j /\ order[p].change = stock[j].n
      <3>. PICK p \in Slots : order[p].op # "none" /\ order[p].phase = "written" /\ order[p].id = j /\ order[p].change = stock[j].n
        BY <2>2
      <3>1. order'[p].op # "none" /\ order'[p].phase = "written" /\ order'[p].id = j /\ order'[p].change = stock'[j].n
        BY DEF MovesOn
      <3>. QED
        BY <3>1 DEF Underway
    <2>. QED
      BY <1>6, <2>1, <2>2 DEF Underway
  <1>. QED
    BY <1>2, <1>3, <1>4, <1>5, <1>6

\* The list stays as it is; of one item it may know that it has missed a change.
LEMMA NothingSet ==
  ASSUME ItemsInv, NEW items, MovesOn(items), UNCHANGED <<style, stock, listed, shown, spoiled>>,
         skipped' \in [Ids -> Nat], \A j \in Ids : skipped[j] <= skipped'[j] /\ skipped'[j] <= stock[j].n,
         wire' \in Seq(ItemEvents), WireTells', loading' \in ItemLoads, LoadTells',
         \A j \in Ids : Underway(j) => Underway(j)' \/ stock[j].n <= Known(j)'
  PROVE  ItemsInv'
  <1>1. ItemsTypeOK
    BY DEF ItemsInv
  <1>2. order' \in [Slots -> Orders \cup {NoOrder}]
    BY DEF MovesOn
  <1>3. ItemsTypeOK'
    BY <1>1, <1>2 DEF ItemsTypeOK
  <1>4. DeletesWait' /\ (\A p \in Slots : OrderTells(p)') /\ (\A j \in Ids : SameOrders(j))
    BY MovedWell
  <1>5. ASSUME NEW j \in Ids PROVE ItemInv(j)'
    <2>1. stock[j].n \in Nat /\ shown[j] \in Nat /\ skipped[j] \in Nat /\ skipped'[j] \in Nat
      BY <1>1 DEF ItemsTypeOK, ItemRows
    <2>2. Known(j) <= Known(j)' /\ Known(j) \in Nat /\ Known(j)' \in Nat
      BY <2>1 DEF Known, Larger
    <2>3. stock[j].n <= Known(j) \/ Underway(j)
      BY DEF ItemsInv, ItemInv, ChangeKnown
    <2>4. stock[j].n <= Known(j) => stock[j].n <= Known(j)'
      BY <2>1, <2>2
    <2>5. stock[j].n <= Known(j)' \/ Underway(j)'
      BY <2>3, <2>4
    <2>. QED
      BY <1>3, <1>4, <2>5, ItemStays
  <1>. QED
    BY <1>3, <1>4, <1>5 DEF ItemsInv

LEMMA HearItemSteps ==
  ASSUME ItemsInv, HearItem
  PROVE  ItemsInv'
  <1>1. ItemsTypeOK /\ WireTells
    BY DEF ItemsInv
  <1>. PICK e : e = Head(wire)
    OBVIOUS
  <1>2. wire # <<>> /\ wire' = Tail(wire) /\ UNCHANGED <<style, stock, loading>> /\ order' = Touch(order, {e.id})
    BY DEF HearItem
  <1>3. MovesOn({e.id})
    BY <1>1, <1>2, TouchMoves DEF ItemsTypeOK
  <1>4. /\ e \in ItemEvents /\ Tells(e.op, e.change, e.on, stock[e.id])
        /\ wire' \in Seq(ItemEvents) /\ WireTells'
        /\ \A j \in Ids : Underway(j) => Underway(j)' \/ (j = e.id /\ stock[j].n <= e.change)
    BY <1>1, <1>2, <1>3, OneHeard
  <1>5. loading' \in ItemLoads /\ LoadTells'
    BY <1>2, LoaderStays
  <1>. PICK i \in Ids, c \in Nat, on \in BOOLEAN : i = e.id /\ c = e.change /\ on = e.on
    BY <1>4 DEF ItemEvents
  <1>6. e.op \in ItemOps /\ (e.op = "create" => on = FALSE)
    BY <1>4 DEF ItemEvents
  <1>7. c >= 1 /\ c <= stock[i].n /\ (e.op = "create" => c = 1) /\ (c = stock[i].n => Carries(e.op, on, stock[i]))
    BY <1>4 DEF Tells
  <1>8. \A j \in Ids : stock[j].n \in Nat /\ shown[j] \in Nat /\ skipped[j] \in Nat /\ skipped[j] <= stock[j].n
    BY <1>1 DEF ItemsTypeOK, ItemRows, ItemsInv, ItemInv, ChangeKnown
  <1>9. spoiled \subseteq Ids /\ listed[i] \in Seq(BOOLEAN) /\ (i \notin spoiled => Len(listed[i]) <= 1)
    BY <1>1 DEF ItemsTypeOK, ItemsInv, ItemInv, ListTells
  <1>10. CASE e.op = "create" /\ listed[i] # <<>>
    <2>1. UNCHANGED <<listed, shown, skipped, spoiled>>
      BY <1>10 DEF HearItem
    <2>2. skipped' \in [Ids -> Nat] /\ \A j \in Ids : skipped[j] <= skipped'[j] /\ skipped'[j] <= stock[j].n
      BY <1>1, <1>8, <2>1 DEF ItemsTypeOK
    <2>3. c <= Known(i)'
      <3>1. Known(i)' = Known(i) /\ Known(i) >= 1
        BY <1>10, <2>1, KnownStays DEF ItemsInv, ItemInv, ChangeKnown
      <3>. QED
        BY <1>7, <1>10, <3>1
    <2>4. \A j \in Ids : Underway(j) => Underway(j)' \/ stock[j].n <= Known(j)'
      <3>1. Known(i)' \in Nat
        BY <1>8, <2>1 DEF Known, Larger
      <3>2. stock[i].n <= c => stock[i].n <= Known(i)'
        BY <1>8, <2>3, <3>1
      <3>. QED
        BY <1>4, <3>2
    <2>. QED
      BY <1>2, <1>3, <1>4, <1>5, <2>1, <2>2, <2>4, NothingSet
  <1>11. CASE e.op = "create" /\ listed[i] = <<>>
    <2>1. listed' = Added(i, on) /\ Gets(i, c) /\ spoiled' = spoiled
      BY <1>11 DEF HearItem
    <2>. PICK s : s = <<on>>
      OBVIOUS
    <2>2. s \in Seq(BOOLEAN) /\ Len(s) <= 1 /\ listed' = [listed EXCEPT ![i] = s]
      BY <1>11, <2>1 DEF Added
    <2>3. c = stock[i].n => s = AsItIs(i)
      <3>. SUFFICES ASSUME c = stock[i].n PROVE s = AsItIs(i)
        OBVIOUS
      <3>1. Carries("create", on, stock[i])
        BY <1>7, <1>11
      <3>2. HasRow(i) /\ stock[i].on = FALSE
        BY <3>1 DEF Carries, HasRow
      <3>. QED
        BY <1>6, <1>11, <3>2 DEF AsItIs
    <2>5. GetsIn(i, c, s)
      BY <1>2, <1>3, <1>4, <1>7, <1>9, <2>1, <2>2, <2>3 DEF GetsIn
    <2>. QED
      BY <1>4, <1>5, <2>2, <2>5, GettingSteps
  <1>12. CASE e.op = "update" /\ listed[i] = <<>>
    <2>1. UNCHANGED <<listed, shown, spoiled>> /\ skipped' = [skipped EXCEPT ![i] = Larger(@, c)]
      BY <1>12 DEF HearItem, Skips
    <2>2. Larger(skipped[i], c) \in Nat /\ skipped[i] <= Larger(skipped[i], c) /\ c <= Larger(skipped[i], c) /\ Larger(skipped[i], c) <= stock[i].n
      BY <1>7, <1>8 DEF Larger
    <2>3. skipped'[i] = Larger(skipped[i], c) /\ \A j \in Ids : j # i => skipped'[j] = skipped[j]
      BY <1>1, <2>1 DEF ItemsTypeOK
    <2>4. skipped' \in [Ids -> Nat]
      BY <1>1, <2>1, <2>2 DEF ItemsTypeOK
    <2>5. ASSUME NEW j \in Ids PROVE skipped[j] <= skipped'[j] /\ skipped'[j] <= stock[j].n
      BY <1>8, <2>2, <2>3
    <2>6. \A j \in Ids : Underway(j) => Underway(j)' \/ stock[j].n <= Known(j)'
      <3>1. c <= Known(i)' /\ Known(i)' \in Nat
        BY <1>8, <2>1, <2>2, <2>3 DEF Known, Larger
      <3>2. stock[i].n <= c => stock[i].n <= Known(i)'
        BY <1>8, <3>1
      <3>. QED
        BY <1>4, <3>2
    <2>. QED
      BY <1>2, <1>3, <1>4, <1>5, <2>1, <2>4, <2>5, <2>6, NothingSet
  <1>13. CASE e.op = "update" /\ listed[i] # <<>>
    <2>1. listed' = Changed(i, on) /\ Gets(i, c) /\ spoiled' = spoiled
      BY <1>13 DEF HearItem
    <2>2. \E s \in Seq(BOOLEAN) : listed' = [listed EXCEPT ![i] = s] /\ (i \notin spoiled => s = <<on>> /\ Len(s) <= 1)
      <3>. PICK t \in Seq(BOOLEAN) : t = listed[i]
        BY <1>9
      <3>. PICK s : s = AllSet(t, on)
        OBVIOUS
      <3>1. s \in Seq(BOOLEAN) /\ (t # <<>> /\ Len(t) <= 1 => s = <<on>> /\ Len(s) <= 1)
        BY SetAll
      <3>2. listed' = [listed EXCEPT ![i] = s]
        BY <2>1, ChangedSo
      <3>. QED
        BY <1>9, <1>13, <3>1, <3>2
    <2>. PICK s \in Seq(BOOLEAN) : listed' = [listed EXCEPT ![i] = s] /\ (i \notin spoiled => s = <<on>> /\ Len(s) <= 1)
      BY <2>2
    <2>3. i \notin spoiled' => Len(s) <= 1
      BY <2>1
    <2>4. i \notin spoiled' /\ c = stock[i].n => s = AsItIs(i)
      <3>. SUFFICES ASSUME i \notin spoiled, c = stock[i].n PROVE s = AsItIs(i)
        BY <2>1
      <3>1. Carries("update", on, stock[i])
        BY <1>7, <1>13
      <3>2. HasRow(i) /\ stock[i].on = on
        BY <3>1 DEF Carries, HasRow
      <3>. QED
        BY <3>2 DEF AsItIs
    <2>5. GetsIn(i, c, s)
      BY <1>2, <1>3, <1>4, <1>7, <1>9, <2>1, <2>3, <2>4 DEF GetsIn
    <2>. QED
      BY <1>4, <1>5, <2>5, GettingSteps
  <1>14. CASE e.op = "delete"
    <2>1. listed' = Removed(i) /\ Gets(i, c) /\ spoiled' = spoiled \ {i}
      BY <1>14 DEF HearItem
    <2>. PICK s : s = <<>>
      OBVIOUS
    <2>2. s \in Seq(BOOLEAN) /\ Len(s) <= 1 /\ listed' = [listed EXCEPT ![i] = s]
      BY <2>1 DEF Removed
    <2>3. c = stock[i].n => s = AsItIs(i)
      BY <1>7, <1>14 DEF Carries, AsItIs, HasRow
    <2>5. GetsIn(i, c, s)
      BY <1>2, <1>3, <1>4, <1>7, <1>9, <2>1, <2>2, <2>3 DEF GetsIn
    <2>. QED
      BY <1>4, <1>5, <2>2, <2>5, GettingSteps
  <1>. QED
    BY <1>6, <1>10, <1>11, <1>12, <1>13, <1>14 DEF ItemOps

\* The events that are on their way are lost: the list has missed the latest of
\* their changes.
LEMMA LargestExists ==
  ASSUME NEW S, S \subseteq Nat, NEW b \in Nat, b \in S, NEW top \in Nat, \A n \in S : n <= top
  PROVE  \E n \in S : \A l \in S : n >= l
  <1>. DEFINE Below == {k \in Nat : \E n \in S : k = top - n}
  <1>1. Below \subseteq Nat /\ Below # {}
    <2>1. top - b \in Nat /\ b <= top
      OBVIOUS
    <2>. QED
      BY <2>1
  <1>2. PICK k \in Below : \A j \in Below : ~ (<<j, k>> \in OpToRel(<, Nat))
    BY <1>1, WFMin, NatLessThanWellFounded
  <1>3. PICK n \in S : k = top - n
    OBVIOUS
  <1>4. ASSUME NEW l \in S PROVE n >= l
    <2>1. n \in Nat /\ l \in Nat /\ l <= top /\ n <= top
      OBVIOUS
    <2>2. top - l \in Below
      BY <2>1
    <2>3. ~ (top - l < k)
      BY <1>1, <1>2, <2>2 DEF OpToRel
    <2>. QED
      BY <1>3, <2>1, <2>3
  <1>. QED
    BY <1>4

LEMMA LoseEventsSteps ==
  ASSUME ItemsInv, LoseEvents
  PROVE  ItemsInv'
  <1>1. ItemsTypeOK /\ WireTells
    BY DEF ItemsInv
  <1>2. wire' = <<>> /\ UNCHANGED <<style, stock, listed, order, orders, loading, shown, spoiled>>
    BY DEF LoseEvents
  <1>3. ASSUME NEW j \in Ids
        PROVE  /\ skipped'[j] \in Nat /\ skipped[j] <= skipped'[j] /\ skipped'[j] <= stock[j].n
               /\ \A k \in DOMAIN wire : wire[k].id = j => wire[k].change <= skipped'[j]
    <2>. DEFINE S == {wire[k].change : k \in {k \in DOMAIN wire : wire[k].id = j}} \cup {skipped[j]}
    <2>1. skipped'[j] = CHOOSE n \in S : \A l \in S : n >= l
      BY DEF LoseEvents
    <2>2. stock[j].n \in Nat /\ skipped[j] \in Nat /\ skipped[j] <= stock[j].n
      BY <1>1 DEF ItemsTypeOK, ItemRows, ItemsInv, ItemInv, ChangeKnown
    <2>3. \A k \in DOMAIN wire : wire[k].id = j => wire[k].change \in Nat /\ wire[k].change <= stock[j].n
      <3>1. \A k \in DOMAIN wire : wire[k] \in ItemEvents
        BY <1>1 DEF ItemsTypeOK
      <3>. QED
        BY <1>1, <3>1 DEF WireTells, Tells, ItemEvents
    <2>4. S \subseteq Nat /\ skipped[j] \in S /\ \A n \in S : n <= stock[j].n
      BY <2>2, <2>3
    <2>5. \A k \in DOMAIN wire : wire[k].id = j => wire[k].change \in S
      OBVIOUS
    <2>. HIDE DEF S
    <2>6. \E n \in S : \A l \in S : n >= l
      BY <2>2, <2>4, LargestExists
    <2>7. skipped'[j] \in S /\ \A l \in S : skipped'[j] >= l
      BY <2>1, <2>6
    <2>8. \A l \in S : l <= skipped'[j]
      BY <2>4, <2>7
    <2>. QED
      BY <2>4, <2>5, <2>7, <2>8
  <1>4. skipped' \in [Ids -> Nat]
    <2>. DEFINE Lost(i) == {wire[k].change : k \in {k \in DOMAIN wire : wire[k].id = i}}
                Missed(i) == CHOOSE n \in Lost(i) \cup {skipped[i]} : \A l \in Lost(i) \cup {skipped[i]} : n >= l
    <2>1. skipped' = [i \in Ids |-> Missed(i)]
      BY DEF LoseEvents
    <2>. HIDE DEF Missed
    <2>2. skipped' = [j \in Ids |-> skipped'[j]]
      BY <2>1
    <2>. QED
      BY <1>3, <2>2
  <1>5. MovesOn({})
    <2>1. order' = order /\ order \in [Slots -> Orders \cup {NoOrder}]
      BY <1>1, <1>2 DEF ItemsTypeOK
    <2>. QED
      BY <2>1 DEF MovesOn
  <1>6. wire' \in Seq(ItemEvents) /\ WireTells'
    BY <1>2 DEF WireTells
  <1>7. loading' \in ItemLoads /\ LoadTells'
    BY <1>2, LoaderStays
  <1>8. ASSUME NEW j \in Ids, Underway(j) PROVE Underway(j)' \/ stock[j].n <= Known(j)'
    <2>1. CASE \E k \in DOMAIN wire : wire[k].id = j /\ wire[k].change = stock[j].n
      <3>1. stock[j].n <= skipped'[j]
        BY <1>3, <2>1
      <3>2. stock[j].n \in Nat /\ skipped'[j] \in Nat /\ shown'[j] \in Nat
        BY <1>1, <1>2, <1>3 DEF ItemsTypeOK, ItemRows
      <3>. QED
        BY <3>1, <3>2 DEF Known, Larger
    <2>2. CASE \E p \in Slots : order[p].op # "none" /\ order[p].phase = "written" /\ order[p].id = j /\ order[p].change = stock[j].n
      BY <1>2, <2>2 DEF Underway
    <2>. QED
      BY <1>8, <2>1, <2>2 DEF Underway
  <1>. QED
    BY <1>2, <1>3, <1>4, <1>5, <1>6, <1>7, <1>8, NothingSet

\* The loader runs, and has not answered.
LEMMA LoaderSteps ==
  ASSUME ItemsInv, UNCHANGED <<style, stock, listed, order, orders, wire, shown, skipped, spoiled>>,
         loading' \in ItemLoads, LoadTells'
  PROVE  ItemsInv'
  <1>1. ItemsTypeOK /\ order' = order
    BY DEF ItemsInv
  <1>2. MovesOn({})
    <2>1. order' = order /\ order \in [Slots -> Orders \cup {NoOrder}]
      BY <1>1 DEF ItemsTypeOK
    <2>. QED
      BY <2>1 DEF MovesOn
  <1>3. wire' \in Seq(ItemEvents) /\ WireTells'
    BY <1>1 DEF ItemsInv, ItemsTypeOK, WireTells
  <1>4. skipped' \in [Ids -> Nat] /\ \A j \in Ids : skipped[j] <= skipped'[j] /\ skipped'[j] <= stock[j].n
    BY <1>1 DEF ItemsTypeOK, ItemsInv, ItemInv, ChangeKnown
  <1>5. \A j \in Ids : Underway(j) => Underway(j)'
    BY <1>2, MovesUnderway
  <1>. QED
    BY <1>2, <1>3, <1>4, <1>5, NothingSet

LEMMA LoaderReadsSteps ==
  ASSUME ItemsInv, LoaderReads \/ LoaderFails
  PROVE  ItemsInv'
  <1>1. ItemsTypeOK /\ UNCHANGED <<style, stock, listed, order, orders, wire, shown, skipped, spoiled>>
    BY DEF ItemsInv, LoaderReads, LoaderFails
  <1>2. CASE LoaderFails
    <2>1. loading' = NotLoading
      BY <1>2 DEF LoaderFails
    <2>2. loading' \in ItemLoads /\ loading'.at # "answered"
      BY <2>1 DEF NotLoading, ItemLoads
    <2>3. LoadTells'
      BY <2>2 DEF LoadTells
    <2>. QED
      BY <1>1, <2>2, <2>3, LoaderSteps
  <1>3. CASE LoaderReads
    <2>1. loading' = [at |-> "answered", stock |-> stock] /\ stock \in [Ids -> ItemRows]
      BY <1>1, <1>3 DEF LoaderReads, ItemsTypeOK
    <2>2. loading' \in ItemLoads /\ loading'.stock = stock
      BY <2>1 DEF ItemLoads
    <2>3. \A j \in Ids : stock[j].n <= stock[j].n /\ Counted(stock[j])
      BY <2>1 DEF ItemRows, ItemsInv, ItemInv, ChangeKnown
    <2>4. LoadTells'
      BY <1>1, <2>2, <2>3 DEF LoadTells
    <2>. QED
      BY <1>1, <2>2, <2>4, LoaderSteps
  <1>. QED
    BY <1>2, <1>3

LEMMA LoaderAnswersSteps ==
  ASSUME ItemsInv, LoaderAnswers
  PROVE  ItemsInv'
  <1>1. ItemsTypeOK /\ WireTells
    BY DEF ItemsInv
  <1>2. UNCHANGED <<style, stock, orders, wire>> /\ loading' = NotLoading /\ spoiled' = {} /\ order' = Touch(order, Ids) /\ loading.at = "answered"
    BY DEF LoaderAnswers
  <1>. PICK read \in [Ids -> ItemRows] : read = loading.stock
    BY <1>1, <1>2 DEF ItemsTypeOK, ItemLoads
  <1>3. ASSUME NEW i \in Ids
        PROVE  /\ read[i].n \in Nat /\ read[i].on \in BOOLEAN /\ read[i].n <= stock[i].n /\ Counted(read[i])
               /\ read[i].n = stock[i].n => read[i] = stock[i]
    BY <1>2 DEF ItemsInv, LoadTells, ItemRows
  <1>4. MovesOn(Ids)
    BY <1>1, <1>2, TouchMoves DEF ItemsTypeOK
  <1>5. ASSUME NEW i \in Ids
        PROVE  /\ listed'[i] = IF read[i].is = "there" THEN <<read[i].on>> ELSE <<>>
               /\ shown'[i] = read[i].n
               /\ skipped'[i] = IF shown[i] > read[i].n THEN Larger(skipped[i], shown[i]) ELSE skipped[i]
    BY DEF LoaderAnswers
  <1>6. ASSUME NEW i \in Ids
        PROVE  /\ Known(i) \in Nat /\ Known(i)' \in Nat /\ Known(i) <= Known(i)' /\ read[i].n <= Known(i)'
               /\ skipped'[i] \in Nat /\ skipped'[i] <= stock[i].n
    <2>1. shown[i] <= stock[i].n /\ skipped[i] <= stock[i].n
      BY DEF ItemsInv, ItemInv, ChangeKnown
    <2>. QED
      BY <1>1, <1>3, <1>5, <2>1, GetsKnows
  <1>7. listed' \in [Ids -> Seq(BOOLEAN)]
    <2>1. ASSUME NEW i \in Ids PROVE listed'[i] \in Seq(BOOLEAN)
      <3>1. <<>> \in Seq(BOOLEAN) /\ \A b \in BOOLEAN : <<b>> \in Seq(BOOLEAN)
        OBVIOUS
      <3>2. read[i].on \in BOOLEAN
        BY <1>3
      <3>. QED
        BY <1>5, <3>1, <3>2
    <2>2. listed' = [i \in Ids |-> listed'[i]]
      BY DEF LoaderAnswers
    <2>. QED
      BY <2>1, <2>2
  <1>8. shown' \in [Ids -> Nat] /\ skipped' \in [Ids -> Nat]
    <2>1. shown' = [i \in Ids |-> shown'[i]] /\ skipped' = [i \in Ids |-> skipped'[i]]
      BY DEF LoaderAnswers
    <2>. QED
      BY <1>3, <1>5, <1>6, <2>1
  <1>9. loading' \in ItemLoads /\ LoadTells'
    <2>1. loading' \in ItemLoads /\ loading'.at # "answered"
      BY <1>2 DEF NotLoading, ItemLoads
    <2>. QED
      BY <2>1 DEF LoadTells
  <1>10. ItemsTypeOK' /\ WireTells'
    BY <1>1, <1>2, <1>4, <1>7, <1>8, <1>9 DEF ItemsTypeOK, WireTells, MovesOn
  <1>11. ASSUME NEW i \in Ids PROVE ItemInv(i)'
    <2>1. stock[i].n <= Known(i)' \/ Underway(i)'
      <3>1. stock[i].n <= Known(i) \/ Underway(i)
        BY DEF ItemsInv, ItemInv, ChangeKnown
      <3>2. Underway(i) => Underway(i)'
        BY <1>2, <1>4, MovesUnderway
      <3>3. stock[i].n \in Nat
        BY <1>1 DEF ItemsTypeOK, ItemRows
      <3>. QED
        BY <1>6, <3>1, <3>2, <3>3
    <2>2. listed'[i] # <<>> => Known(i)' >= 1
      <3>1. listed'[i] # <<>> => read[i].n >= 1
        BY <1>3, <1>5 DEF Counted
      <3>. QED
        BY <1>3, <1>6, <3>1
    <2>3. ChangeKnown(i)'
      <3>1. Counted(stock[i])
        BY DEF ItemsInv, ItemInv, ChangeKnown
      <3>. QED
        BY <1>2, <1>3, <1>5, <1>6, <2>1, <2>2, <3>1 DEF ChangeKnown
    <2>4. Len(listed'[i]) <= 1
      <3>1. CASE read[i].is = "there"
        <4>1. listed'[i] = <<read[i].on>>
          BY <1>5, <3>1
        <4>. QED
          BY <4>1
      <3>2. CASE read[i].is # "there"
        <4>1. listed'[i] = <<>>
          BY <1>5, <3>2
        <4>. QED
          BY <4>1
      <3>. QED
        BY <3>1, <3>2
    <2>5. Latest(i)' => listed'[i] = AsItIs(i)'
      BY <1>2, <1>3, <1>5 DEF Latest, AsItIs, HasRow
    <2>6. ASSUME NEW p \in Slots, Acts(p, i)' PROVE order'[p].touched /\ Known(i)' >= 1
      <3>1. order'[p].touched /\ Acts(p, i)
        BY <1>4, <2>6 DEF Acts, MovesOn
      <3>2. Known(i) >= 1
        BY <3>1 DEF ItemsInv, ItemInv, PutsBack
      <3>. QED
        BY <1>6, <3>1, <3>2
    <2>. QED
      BY <1>10, <2>3, <2>4, <2>5, <2>6, ItemIsSet
  <1>12. DeletesWait' /\ \A p \in Slots : OrderTells(p)'
    BY <1>2, <1>4, MovedWell
  <1>. QED
    BY <1>9, <1>10, <1>11, <1>12 DEF ItemsInv

-----------------------------------------------------------------------------
LEMMA ItemsInitInv == ItemsInit => ItemsInv
  <1>. SUFFICES ASSUME ItemsInit PROVE ItemsInv
    OBVIOUS
  <1>1. /\ style \in {"checklist", "block"} /\ spoiled = {} /\ orders = 0 /\ wire = <<>> /\ loading = NotLoading
        /\ order = [o \in Slots |-> NoOrder]
    BY DEF ItemsInit
  <1>2. ASSUME NEW i \in Ids
        PROVE  /\ stock[i] \in ItemRows /\ listed[i] \in Seq(BOOLEAN) /\ Len(listed[i]) <= 1
               /\ shown[i] = stock[i].n /\ skipped[i] = 0 /\ stock[i].n \in Nat /\ Counted(stock[i])
               /\ listed[i] = AsItIs(i) /\ (listed[i] # <<>> => stock[i].n >= 1)
    <2>1. CASE i = 1
      <3>. PICK r : r = [is |-> "there", on |-> FALSE, n |-> 1]
        OBVIOUS
      <3>1. r \in ItemRows /\ r.is = "there" /\ r.on = FALSE /\ r.n = 1
        BY DEF ItemRows
      <3>2. stock[i] = r /\ listed[i] = <<FALSE>> /\ shown[i] = stock[i].n /\ skipped[i] = 0
        BY <2>1 DEF ItemsInit
      <3>3. <<FALSE>> \in Seq(BOOLEAN) /\ Len(<<FALSE>>) <= 1
        OBVIOUS
      <3>4. Counted(stock[i]) /\ listed[i] = AsItIs(i)
        <4>1. stock[i].is = "there" /\ stock[i].n = 1
          BY <3>1, <3>2
        <4>2. stock[i].on = FALSE
          BY <3>1, <3>2, Zenon
        <4>3. <<stock[i].on>> = <<FALSE>>
          BY <4>2, Zenon
        <4>4. AsItIs(i) = <<stock[i].on>>
          BY <4>1 DEF AsItIs, HasRow
        <4>5. Counted(stock[i])
          BY <4>1 DEF Counted
        <4>. QED
          BY <3>2, <4>3, <4>4, <4>5
      <3>5. stock[i] \in ItemRows /\ stock[i].n \in Nat /\ stock[i].n >= 1
        BY <3>1, <3>2
      <3>. QED
        BY <3>2, <3>3, <3>4, <3>5
    <2>2. CASE i # 1
      <3>. PICK r : r = [is |-> "unborn", on |-> FALSE, n |-> 0]
        OBVIOUS
      <3>1. r \in ItemRows /\ r.is = "unborn" /\ r.on = FALSE /\ r.n = 0
        BY DEF ItemRows
      <3>2. stock[i] = r /\ listed[i] = <<>> /\ shown[i] = stock[i].n /\ skipped[i] = 0
        BY <2>2 DEF ItemsInit
      <3>. QED
        BY <3>1, <3>2 DEF Counted, AsItIs, HasRow
    <2>. QED
      BY <2>1, <2>2
  <1>3. stock \in [Ids -> ItemRows] /\ listed \in [Ids -> Seq(BOOLEAN)]
    <2>1. stock = [i \in Ids |-> stock[i]] /\ listed = [i \in Ids |-> listed[i]]
      BY DEF ItemsInit
    <2>. QED
      BY <1>2, <2>1
  <1>4. shown \in [Ids -> Nat] /\ skipped \in [Ids -> Nat]
    BY <1>2 DEF ItemsInit
  <1>5. ItemsTypeOK
    <2>1. order \in [Slots -> Orders \cup {NoOrder}]
      BY <1>1
    <2>2. loading \in ItemLoads /\ wire \in Seq(ItemEvents)
      BY <1>1 DEF NotLoading, ItemLoads
    <2>. QED
      BY <1>1, <1>3, <1>4, <2>1, <2>2 DEF ItemsTypeOK
  <1>6. \A o \in Slots : order[o].op = "none" /\ order[o].phase = "none"
    BY <1>1 DEF NoOrder
  <1>7. (\A o \in Slots : OrderTells(o)) /\ DeletesWait
    BY <1>6 DEF OrderTells, DeletesWait, Deletes
  <1>8. WireTells /\ LoadTells
    <2>1. loading.at # "answered"
      BY <1>1 DEF NotLoading
    <2>. QED
      BY <1>1, <2>1 DEF WireTells, LoadTells
  <1>9. ASSUME NEW i \in Ids PROVE ItemInv(i)
    <2>1. Known(i) = stock[i].n
      BY <1>2 DEF Known, Larger
    <2>2. ChangeKnown(i)
      BY <1>2, <2>1 DEF ChangeKnown
    <2>3. ListTells(i)
      BY <1>2 DEF ListTells
    <2>4. \A o \in Slots : ~Acts(o, i)
      BY <1>6 DEF Acts
    <2>. QED
      BY <2>2, <2>3, <2>4 DEF ItemInv
  <1>. QED
    BY <1>5, <1>7, <1>8, <1>9 DEF ItemsInv

LEMMA ItemsNextInv == ItemsInv /\ [ItemsNext]_itemlist => ItemsInv'
  <1>. SUFFICES ASSUME ItemsInv, [ItemsNext]_itemlist PROVE ItemsInv'
    OBVIOUS
  <1>1. CASE UNCHANGED itemlist
    <2>1. UNCHANGED <<style, stock, listed, order, orders, wire, loading, shown, skipped, spoiled>>
      BY <1>1 DEF itemlist
    <2>2. loading' \in ItemLoads /\ LoadTells'
      BY <2>1, LoaderStays
    <2>. QED
      BY <2>1, <2>2, LoaderSteps
  <1>2. ASSUME NEW o \in Slots,
               \/ HandleAddItem(o) \/ OtherAsks(o) \/ \E i \in Ids : HandleUpdate(o, i) \/ HandleDelete(o, i)
               \/ FindById(o) \/ Write(o) \/ EmitChange(o) \/ Fail(o) \/ HandleAnswer(o) \/ OtherAnswer(o)
        PROVE  ItemsInv'
    BY <1>2, HandleAddItemSteps, OtherAsksSteps, HandleUpdateSteps, HandleDeleteSteps, FindByIdSteps, WriteSteps,
       EmitChangeSteps, FailSteps, HandleAnswerSteps, OtherAnswerSteps
  <1>3. CASE HearItem \/ LoseEvents \/ LoaderReads \/ LoaderFails \/ LoaderAnswers
    BY <1>3, HearItemSteps, LoseEventsSteps, LoaderReadsSteps, LoaderAnswersSteps
  <1>. QED
    BY <1>1, <1>2, <1>3 DEF ItemsNext

LEMMA ItemsFollow == ItemsInv => ListFollowsItems
  <1>. SUFFICES ASSUME ItemsInv, \A o \in Slots : order[o] = NoOrder, wire = <<>>, loading = NotLoading,
                       NEW i \in Ids, skipped[i] <= shown[i], i \notin spoiled
                PROVE  listed[i] = IF HasRow(i) THEN <<stock[i].on>> ELSE <<>>
    BY DEF ListFollowsItems
  <1>1. \A o \in Slots : order[o].op = "none"
    <2>1. NoOrder.op = "none"
      BY DEF NoOrder
    <2>. QED
      BY <2>1
  <1>2. ~Underway(i) /\ \A o \in Slots : ~Leads(o, i)
    BY <1>1 DEF Underway, Leads, Acts
  <1>3. stock[i].n \in Nat /\ shown[i] \in Nat /\ skipped[i] \in Nat
    BY DEF ItemsInv, ItemsTypeOK, ItemRows
  <1>4. ChangeKnown(i) /\ ListTells(i)
    BY DEF ItemsInv, ItemInv
  <1>5. shown[i] = stock[i].n
    BY <1>2, <1>3, <1>4 DEF ChangeKnown, Known, Larger
  <1>6. Latest(i)
    BY <1>5 DEF Latest
  <1>. QED
    BY <1>2, <1>4, <1>6 DEF ListTells, AsItIs

\* When nothing is under way the list of check boxes has each item of the
\* backend once, as it is, and no other, whichever of answer, event and reload
\* came first (evaluation-checklist.tsx, discovery_.$discoveryBlockId.edit.tsx,
\* useLiveItemSync): with any number of requests under way, items and events.
THEOREM ListFollowsItemsAlways == ItemsSpec => []ListFollowsItems
  <1>1. ItemsInit => ItemsInv
    BY ItemsInitInv
  <1>2. ItemsInv /\ [ItemsNext]_itemlist => ItemsInv'
    BY ItemsNextInv
  <1>3. ItemsInv => ListFollowsItems
    BY ItemsFollow
  <1>. QED
    BY <1>1, <1>2, <1>3, PTL DEF ItemsSpec
=================================================================================
