------------------------------- MODULE Panel -------------------------------
(***************************************************************************)
(* The forms of the admin panel, and the subscription screen of the mobile *)
(* app: what a form copies from the query cache, what it sends, and what   *)
(* the cache shows afterwards.                                             *)
(*                                                                         *)
(* One browser, or phone, has a form open on one row of the API; others    *)
(* change the same row.  Its version is raised by each change, so that a   *)
(* snapshot tells how old it is.  React Query is external: it fetches when *)
(* a screen opens, when the window is focused and, while the screen is     *)
(* open, when the key of the data is invalidated; the last also drops a    *)
(* fetch that is in flight, unless nothing has been loaded yet: then the   *)
(* first fetch serves, however early it read.                              *)
(***************************************************************************)
EXTENDS Integers, FiniteSets

CONSTANT MaxVersion   \* bound: changes of the row, and forms filled in

ASSUME PanelAssumption == MaxVersion \in Nat \ {0}

VARIABLES
  form,                     \* the component
  row,                      \* API: the row
  cache, stale, fetch,      \* React Query: data, isInvalidated, fetch
  open, busy, draft,        \* the mounted component and its state
  request,                  \* its call in flight
  touched, base,            \* history: fields typed in, and the version the draft was copied from
  saved,                    \* history: the version of the last change answered to the form (but see LateLoad)
  filled, created, broken   \* history: forms filled in, rows created, a request or fetch failed

query   == <<cache, stale, fetch>>
screen  == <<open, busy, draft, touched, base>>
counted == <<filled, created, broken>>
panelPage == <<form, row, query, screen, request, saved, counted>>

-----------------------------------------------------------------------------
Blank == 0         \* an empty field
Keep  == -1        \* a field that a PATCH leaves out
Unset == -1        \* no draft yet
Field == {"title", "note"}    \* a required and an optional one
Blanks == [f \in Field |-> Blank]

NoRow == [version |-> 0, exists |-> FALSE, fields |-> Blanks]
NoFetch == [pc |-> "none", row |-> NoRow]
Fetching == [pc |-> "sent", row |-> NoRow]
NoRequest == [pc |-> "none", op |-> "none", patch |-> Blanks, here |-> FALSE]

(* A component: whether it makes rows or changes one; the fields that it    *)
(* leaves out when they are empty; what its fields start with (the row,     *)
(* once it is loaded; what is cached when it mounts; nothing); and what the *)
(* button that removes, or acts on, the row leaves behind.                  *)
Component(op, omits, from, removes) ==
  [op |-> op, omits |-> omits, from |-> from, removes |-> removes]

InstrumentRow     == Component("update", {}, "data", "keepsBusy")
ModuleSection     == Component("update", {}, "data", "keepsBusy")
PlanCard          == Component("update", {}, "data", "keepsBusy")
AulaDetailPage    == Component("update", {"note"}, "data", "no")
LiveDetailPage    == Component("update", Field, "mount", "acts")
UsuarioDetailPage == Component("each", {}, "data", "no")
InstrumentosPage  == Component("create", {"note"}, "nothing", "no")
PlanosPage        == Component("create", {"note"}, "nothing", "no")
CursosPage        == Component("create", {"note"}, "nothing", "no")
LivesPage         == Component("create", {"note"}, "nothing", "no")
CursoDetailPage   == Component("create", {"note"}, "nothing", "no")
LessonList        == Component("create", {"note"}, "nothing", "no")
MaterialsManager  == Component("create", {"note"}, "nothing", "frees")
AssinaturaScreen  == Component("choose", Field, "nothing", "frees")

Components ==
  {InstrumentRow, ModuleSection, PlanCard, AulaDetailPage, LiveDetailPage, UsuarioDetailPage,
   InstrumentosPage, PlanosPage, CursosPage, LivesPage, CursoDetailPage, LessonList,
   MaterialsManager, AssinaturaScreen}

Typed == [title |-> {0, 2}, note |-> {0, 1}]
RowType == [version : 0..MaxVersion, exists : BOOLEAN, fields : [Field -> 0..2]]

\* The row, what is cached of it, the form and its call.
PanelTypeOK ==
  /\ form \in Components
  /\ row \in RowType /\ (row.exists => row.fields["title"] # Blank)
  /\ cache \in RowType /\ stale \in BOOLEAN
  /\ fetch \in [pc : {"none", "sent", "read"}, row : RowType]
  /\ open \in BOOLEAN /\ busy \in BOOLEAN
  /\ draft \in [Field -> 0..2] /\ touched \subseteq Field /\ base \in Unset..MaxVersion
  /\ request \in [pc : {"none", "sent", "applied", "refused"},
                  op : {"none", "update", "act", "delete", "create"},
                  patch : [Field -> Keep..2], here : BOOLEAN]
  /\ saved \in 0..MaxVersion

PanelInit ==
  /\ form \in Components
  /\ row = [version |-> 1, exists |-> form.op \in {"update", "each"},
            fields |-> [f \in Field |-> 1]]
  /\ cache = NoRow /\ stale = FALSE /\ fetch = NoFetch
  /\ open = FALSE /\ busy = FALSE /\ draft = Blanks /\ touched = {} /\ base = Unset
  /\ request = NoRequest
  /\ saved = 0 /\ filled = 0 /\ created = 0 /\ broken = FALSE

-----------------------------------------------------------------------------
(* The component.                                                           *)

Loaded(c) == c.version > 0

\* Faulty variant: the optional field starts empty.
FaultyCopied(c) == [c.fields EXCEPT !["note"] = Blank]
Copied(c) == c.fields

\* The state a component mounts with when c is cached.
Mount(c) ==
  LET copies == Loaded(c) /\ c.exists /\ form.from \in {"data", "mount"}  IN
  /\ draft' = IF copies THEN Copied(c) ELSE Blanks
  /\ base' = IF copies THEN c.version ELSE IF form.from = "data" THEN Unset ELSE 0
  /\ touched' = {}
  /\ busy' = FALSE

\* The fields are shown.
Ready ==
  /\ open
  /\ form.from = "data" => base # Unset
  /\ form.from = "mount" => Loaded(cache)

Open ==
  /\ ~open /\ open' = TRUE
  /\ Mount(cache)
  /\ \/ fetch = NoFetch /\ fetch' = Fetching
     \/ (fetch # NoFetch \/ (Loaded(cache) /\ ~stale)) /\ UNCHANGED fetch
  /\ UNCHANGED <<form, row, cache, stale, request, saved, counted>>

\* The state goes with the component, and a call in flight goes on without it.
Close ==
  /\ open /\ open' = FALSE
  /\ Mount(NoRow)
  /\ request' = [request EXCEPT !.here = FALSE]
  /\ UNCHANGED <<form, row, query, saved, counted>>

Inputs == CASE form.op = "choose" -> {} [] form.op = "create" -> {"title"} [] OTHER -> Field

\* The inputs are not disabled while a call is in flight.  Bound: a field is
\* typed in once.
Type(f, v) ==
  /\ Ready /\ f \in Inputs \ touched /\ v \in Typed[f] /\ v # draft[f]
  /\ draft' = [draft EXCEPT ![f] = v]
  /\ touched' = touched \cup {f}
  /\ filled' = IF form.op = "create" /\ draft[f] = Blank THEN filled + 1 ELSE filled
  /\ filled' <= MaxVersion
  /\ UNCHANGED <<form, row, query, open, busy, base, request, saved, created, broken>>

\* Bound: a component that was left and opened again waits for the call it made.
Submit(op, patch) ==
  /\ Ready /\ ~busy /\ request = NoRequest
  /\ busy' = TRUE
  /\ request' = [pc |-> "sent", op |-> op, patch |-> patch, here |-> TRUE]
  /\ UNCHANGED <<form, row, query, open, draft, touched, base, saved, counted>>

\* The fields that are sent, of those in fs.
Patch(fs) ==
  [f \in Field |-> IF f \notin fs \/ (f \in form.omits /\ draft[f] = Blank) THEN Keep ELSE draft[f]]

\* The user page saves its two fields one by one.
OnSave ==
  \/ form.op = "update" /\ Submit("update", Patch(Field))
  \/ form.op = "each" /\ \E f \in Field : Submit("update", Patch({f}))

\* The button is disabled while the required field is empty.
OnCreate == form.op = "create" /\ draft["title"] # Blank /\ Submit("create", Patch(Field))

OnCheckout ==
  /\ form.op = "choose" /\ Loaded(cache) /\ ~cache.exists
  /\ Submit("create", [f \in Field |-> 1])

\* Removes the row; cancels the subscription; starts, ends or cancels the session.
OnDelete ==
  /\ form.removes # "no" /\ Loaded(cache) /\ cache.exists
  /\ Submit(IF form.removes = "acts" THEN "act" ELSE "delete", Blanks)

-----------------------------------------------------------------------------
(* External: the API.  An empty required field is refused; so is what is    *)
(* not there, a row in use, or a second subscription.                       *)

Become(exists, fields) ==
  /\ row.version < MaxVersion
  /\ row' = [version |-> row.version + 1, exists |-> exists, fields |-> fields]

Patched(patch) == [f \in Field |-> IF patch[f] = Keep THEN row.fields[f] ELSE patch[f]]

ApplyChange ==
  LET rq == request  IN
  /\ rq.pc = "sent"
  /\ \/ rq.op = "update" /\ row.exists /\ rq.patch["title"] # Blank
        /\ Become(TRUE, Patched(rq.patch))
     \/ rq.op = "act" /\ Become(row.exists, row.fields)
     \/ rq.op = "delete" /\ row.exists /\ Become(FALSE, row.fields)
     \/ rq.op = "create" /\ (form.op = "choose" => ~row.exists) /\ Become(TRUE, Patched(rq.patch))
  /\ request' = [rq EXCEPT !.pc = "applied", !.patch = Blanks]
  /\ created' = IF rq.op = "create" /\ form.op = "create" THEN created + 1 ELSE created
  /\ base' = IF rq.here /\ base = row.version THEN row.version + 1 ELSE base
  /\ UNCHANGED <<form, query, open, busy, draft, touched, saved, filled, broken>>

RefuseChange ==
  /\ request.pc = "sent"
  /\ \/ request.op = "update" /\ (~row.exists \/ request.patch["title"] = Blank)
     \/ request.op = "create" /\ form.op = "choose" /\ row.exists
     \/ request.op \in {"delete", "act"}
  /\ request' = [request EXCEPT !.pc = "refused", !.patch = Blanks]
  /\ UNCHANGED <<form, row, query, screen, saved, counted>>

\* Another browser, or a webhook.  Bound: they edit the optional field.
OthersChange ==
  /\ \/ row.exists /\ Become(TRUE, [row.fields EXCEPT !["note"] = 1 - @])
     \/ form.removes # "no" /\ row.exists /\ Become(FALSE, row.fields)
     \/ form.op = "choose" /\ ~row.exists /\ Become(TRUE, row.fields)
  /\ UNCHANGED <<form, query, screen, request, saved, counted>>

-----------------------------------------------------------------------------
(* The handlers go on, and the cache follows.                               *)

\* Faulty variant: a fetch that is in flight serves.
FaultyInvalidate ==
  stale' = TRUE /\ fetch' = IF open /\ fetch = NoFetch THEN Fetching ELSE fetch
\* invalidateQueries; without data the first fetch goes on.
Invalidate ==
  /\ stale' = TRUE
  /\ fetch' = IF open /\ (fetch = NoFetch \/ Loaded(cache)) THEN Fetching ELSE fetch

\* The first fetch, which no invalidation drops, has read the row and is not
\* answered yet: a form that is shown while its list loads may save now, and the
\* list then comes without what was saved, until it is fetched for another reason.
LateLoad == fetch.pc = "read" /\ ~Loaded(cache)

Cleared(d) == IF form.op = "create" THEN Blanks ELSE d

AnswerChange ==
  LET rq == request  IN
  /\ rq.pc = "applied"
  /\ Invalidate
  /\ busy' = IF rq.here THEN rq.op = "delete" /\ form.removes = "keepsBusy" ELSE busy
  /\ draft' = IF rq.here /\ rq.op = "create" THEN Cleared(draft) ELSE draft
  /\ touched' = IF rq.here /\ rq.op = "create" THEN {} ELSE touched
  /\ saved' = IF rq.here /\ ~LateLoad THEN row.version ELSE saved
  /\ request' = NoRequest
  /\ UNCHANGED <<form, row, cache, open, base, counted>>

\* The error is shown; the cache stays as it is.
ShowError ==
  /\ busy' = (busy /\ ~request.here)
  /\ request' = NoRequest
  /\ UNCHANGED <<form, row, query, open, draft, touched, base, saved, filled, created>>

AnswerError == request.pc = "refused" /\ ShowError /\ UNCHANGED broken

\* The request, or its answer, is lost.
LoseRequest ==
  /\ request.pc \in {"sent", "applied"} /\ ~broken /\ broken' = TRUE
  /\ ShowError

-----------------------------------------------------------------------------
(* External: React Query.                                                   *)

FetchRead ==
  /\ fetch.pc = "sent" /\ fetch' = [pc |-> "read", row |-> row]
  /\ UNCHANGED <<form, row, cache, stale, screen, request, saved, counted>>

\* A row that is in the list for the first time, or no more, mounts or unmounts
\* its component; any other keeps its state.
FetchAnswer ==
  /\ fetch.pc = "read" /\ fetch' = NoFetch
  /\ cache' = fetch.row /\ stale' = FALSE
  /\ IF open /\ form.from = "data" /\ (base = Unset \/ ~fetch.row.exists)
       THEN Mount(fetch.row) /\ request' = [request EXCEPT !.here = FALSE]
       ELSE UNCHANGED <<draft, base, touched, busy, request>>
  /\ UNCHANGED <<form, row, open, saved, counted>>

FetchFails ==
  /\ fetch # NoFetch /\ fetch' = NoFetch
  /\ ~broken /\ broken' = TRUE
  /\ UNCHANGED <<form, row, cache, stale, screen, request, saved, filled, created>>

\* The window is focused, and the data old or invalidated.  Bound: there is
\* something new to fetch.
Focus ==
  /\ open /\ fetch = NoFetch /\ fetch' = Fetching
  /\ cache # row \/ stale
  /\ UNCHANGED <<form, row, cache, stale, screen, request, saved, counted>>

-----------------------------------------------------------------------------
RequestStep == ApplyChange \/ RefuseChange \/ AnswerChange \/ AnswerError
FetchStep == FetchRead \/ FetchAnswer

PanelNext ==
  \/ Open \/ Close \/ OnSave \/ OnCreate \/ OnCheckout \/ OnDelete
  \/ \E f \in Field, v \in 0..2 : Type(f, v)
  \/ RequestStep \/ FetchStep \/ LoseRequest \/ FetchFails \/ Focus \/ OthersChange

-----------------------------------------------------------------------------
(* Properties.                                                              *)

\* A form sends fields that nobody typed in.  Still, a save whose fields were
\* copied from the row as it is, by however many fetches and visits, changes
\* what was typed and nothing else; an optional field cannot be emptied.
SavesWhatWasTyped ==
  [][(request.op = "update" /\ request.here /\ base \in {0, row.version}
        /\ request.pc = "sent" /\ request'.pc = "applied") =>
       \A f \in Field : \/ row'.fields[f] = row.fields[f]
                        \/ f \in touched /\ row'.fields[f] = request.patch[f]]_panelPage

\* What was saved is on the screen when nothing is being fetched any more, whatever
\* fetch was under way when it was saved, but for a save at a LateLoad.
SavedIsShown == (open /\ fetch = NoFetch /\ ~broken) => cache.version >= saved

\* A form that was filled in once makes one row, but for a lost answer.
CreatedOnce == created <= filled + (IF broken THEN 1 ELSE 0)

\* What is saved is what was typed, once.
SavedAsTyped == SavesWhatWasTyped /\ []CreatedOnce

\* The buttons of a form that stays open are not disabled for ever: also those
\* of a removed row, that wait for the list.
BusyEnds == [](busy => <>(~busy \/ ~open \/ broken \/ (request.pc = "sent" /\ row.version = MaxVersion)))
=============================================================================
