----------------------------- MODULE AppsProofs -----------------------------
(***************************************************************************)
(* The signed-in state of an app and a form with its data, each for every  *)
(* value of its constants.  A step of Apps is a step of the part that is   *)
(* followed, or leaves it as it is; so each part has an invariant of its   *)
(* own.                                                                    *)
(***************************************************************************)
EXTENDS Apps, FiniteSetTheorems, TLAPS

-----------------------------------------------------------------------------
(* ApiClient: the inductive invariant.                                      *)

ClientTyped ==
  /\ ApiClientTypeOK
  /\ \A c \in Call : call[c].token <= Len(owner)
                     /\ (call[c].pc = "login" => call[c].user \in User)
  /\ \A k \in Keys : storage[k] <= Len(owner)

\* Which operations are where, and what the provider shows meanwhile.
Renews == {"query", "load", "me"}
CallOK(q) ==
  /\ q.pc = "idle" => q = Idle \/ q = [Idle EXCEPT !.op = "load"]
  /\ q.pc \in {"send", "refresh", "retry"} => q.op \in Renews
  /\ q.pc = "readRefresh" => q.op \in Renews \cup {"logout"}
  /\ q.pc = "save" => q.op \in Renews \cup {"login"} /\ q.keys # {}
  /\ q.pc = "clear" => q.op \in Renews \cup {"logout"} /\ q.keys # {}
  /\ q.pc = "login" => q.op = "login"
  /\ q.pc = "revoke" => q.op = "logout"
  /\ q.op = "load" => status = "loading" /\ (q.pc # "idle" => q.token # 0)
  /\ q.op = "logout" => status = "authenticated"
  /\ q.op \in {"login", "me"} => status = "unauthenticated"
  /\ q.op = "me" => q.token # 0
  /\ q.op = "query" => status \in {"authenticated", "unauthenticated"}

\* One call is in the section, one signs in, one loads the profile.
SignsIn == {"login", "me", "load"}
AloneInSection ==
  \A c, d \in Call :
    \/ call[c].pc \in Section /\ call[d].pc \in Section
    \/ call[c].op \in SignsIn /\ call[d].op \in SignsIn
    => c = d

\* A call whose answer shows the profile of the pair it has sent.
ShowsProfile(q) == q.op \in {"load", "me"} /\ q.token # 0

\* Somebody is, or is about to be, signed in; the pair n is of that account.
Used == status = "authenticated" \/ \E c \in Call : ShowsProfile(call[c])
Fits(n) ==
  /\ n \in refresh
  /\ status = "authenticated" => owner[n] = user
  /\ \A c \in Call : ShowsProfile(call[c]) => owner[n] = owner[call[c].token]

\* What is stored when no call writes it.
Settled ==
  /\ storage["access"] = storage["refresh"]
  /\ storage["refresh"] # 0 => Fits(storage["refresh"])
  /\ Used => storage["refresh"] # 0
  /\ status = "unauthenticated" /\ ~Used => storage["refresh"] = 0

\* What is stored while the call q is in the section.
SectionOK(q) ==
  /\ q.pc \in {"readRefresh", "refresh", "login", "revoke"} => Settled
  /\ q.pc \in {"refresh", "revoke"} => q.token = storage["refresh"] /\ q.token # 0
  /\ q.pc = "save" =>
       /\ Fits(q.token)
       /\ \A k \in Keys \ q.keys : storage[k] = q.token
       /\ q.op # "login" => Used /\ \A k \in Keys : storage[k] # 0
  /\ q.pc = "clear" =>
       /\ \A k \in Keys \ q.keys : storage[k] = 0
       /\ q.op # "logout" => ~Used /\ \A k \in Keys : storage[k] = 0

ClientInv ==
  /\ ClientTyped
  /\ excused \/ /\ AloneInSection
                /\ Quiet => Settled
                /\ \A c \in Call : CallOK(call[c]) /\ SectionOK(call[c])

-----------------------------------------------------------------------------
(* Panel: the inductive invariant.                                          *)

Fields == [f \in Field |-> 0..2]
PanelTyped ==
  /\ PanelTypeOK
  /\ filled \in Nat /\ created \in Nat /\ broken \in BOOLEAN
  /\ row.fields["title"] # Blank
  /\ \A r \in {row, cache, fetch.row} : r.fields["note"] # 2
  /\ draft["note"] # 2 /\ request.patch["note"] # 2

\* A snapshot of the row is as old as its version says.
Snapshot(r) == r.version <= row.version /\ (r.version = row.version => r = row)
Snapshots == row.version > 0 /\ Snapshot(cache) /\ Snapshot(fetch.row)

\* A call is of the component that made it.
RequestOK ==
  /\ request.here => open
  /\ request.pc = "none" => request = NoRequest
  /\ request.op = "update" => form.op \in {"update", "each"}
  /\ request.op = "create" => form.op \in {"create", "choose"}
  /\ request.op = "create" /\ request.pc = "sent" => request.patch["title"] \in 1..2
  /\ request.pc = "refused" => request.op # "create" \/ form.op = "choose"

\* What was saved is cached, or being fetched.
SavedOK ==
  /\ saved <= row.version
  /\ fetch.pc = "read" => fetch.row.version >= saved
  /\ broken \/ cache.version >= saved \/ fetch # NoFetch

\* A form that was filled in is still to be sent, is sent, or has made its row.
Sent == request.op = "create" /\ request.pc = "sent"
ToSend == draft["title"] # Blank /\ ~(request.op = "create" /\ request.here)
One(p) == IF p THEN 1 ELSE 0
CountOK ==
  IF form.op = "create" THEN created + One(Sent) + One(ToSend) <= filled + One(broken)
  ELSE created = 0

\* What nobody typed in is what the row has, or is left out.
DraftOK ==
  form.op \in {"update", "each"} =>
    /\ base <= row.version
    /\ base = 0 => form.omits = Field
    /\ \A f \in Field \ touched :
         /\ base = row.version => draft[f] = row.fields[f]
         /\ base = 0 => draft[f] = Blank
    /\ (request.op = "update" /\ request.pc = "sent" /\ request.here) =>
         \A f \in Field \ touched :
           /\ base = row.version => request.patch[f] \in {Keep, row.fields[f]}
           /\ base = 0 => request.patch[f] = Keep

PanelInv == PanelTyped /\ Snapshots /\ RequestOK /\ SavedOK /\ CountOK /\ DraftOK

-----------------------------------------------------------------------------
(* Panel: the components, and what they mount with.                         *)

LEMMA FormFacts ==
  ASSUME NEW c \in Components
  PROVE /\ c.op \in {"update", "each", "create", "choose"}
        /\ c.op \in {"create", "choose"} => c.from = "nothing"
        /\ c.op = "create" => "title" \notin c.omits
        /\ c.op \in {"update", "each"} => c.from = "data" \/ (c.from = "mount" /\ c.omits = Field)
  BY DEF Components, Component, InstrumentRow, ModuleSection, PlanCard, AulaDetailPage,
         LiveDetailPage, UsuarioDetailPage, InstrumentosPage, PlanosPage, CursosPage, LivesPage,
         CursoDetailPage, LessonList, MaterialsManager, AssinaturaScreen, Field

LEMMA FieldFacts ==
  /\ "title" \in Field /\ "note" \in Field
  /\ Blanks \in [Field -> 0..2] /\ Blanks["title"] = 0 /\ Blanks["note"] = 0
  /\ \A f \in Field : Blanks[f] = 0
  BY DEF Field, Blanks, Blank

LEMMA MaxVersionNat == MaxVersion \in Nat /\ MaxVersion > 0
  BY PanelAssumption

LEMMA RowFacts ==
  ASSUME NEW r \in RowType
  PROVE /\ r.version \in 0..MaxVersion /\ r.exists \in BOOLEAN /\ r.fields \in [Field -> 0..2]
        /\ r = [version |-> r.version, exists |-> r.exists, fields |-> r.fields]
        /\ \A f \in Field : r.fields[f] \in 0..2
  BY DEF RowType

LEMMA NoRowFacts ==
  /\ NoRow \in RowType /\ NoRow.version = 0 /\ NoRow.fields["note"] # 2 /\ ~NoRow.exists
  /\ NoFetch \in [pc : {"none", "sent", "read"}, row : RowType]
  /\ NoFetch.pc = "none" /\ NoFetch.row = NoRow
  /\ Fetching \in [pc : {"none", "sent", "read"}, row : RowType]
  /\ Fetching.pc = "sent" /\ Fetching.row = NoRow /\ Fetching # NoFetch
  <1>1. NoRow \in RowType /\ NoRow.version = 0 /\ NoRow.fields["note"] # 2 /\ ~NoRow.exists
    BY FieldFacts, MaxVersionNat DEF NoRow, RowType
  <1> QED
    BY <1>1 DEF NoFetch, Fetching

RequestType ==
  [pc : {"none", "sent", "applied", "refused"}, op : {"none", "update", "act", "delete", "create"},
   patch : [Field -> Keep..2], here : BOOLEAN]

LEMMA NoRequestFacts ==
  /\ NoRequest \in RequestType /\ NoRequest.pc = "none" /\ NoRequest.op = "none"
  /\ ~NoRequest.here /\ NoRequest.patch["note"] # 2
  BY FieldFacts DEF NoRequest, RequestType, Keep

\* The variables one by one.
LEMMA PanelTypes ==
  ASSUME PanelTyped
  PROVE /\ form \in Components /\ row \in RowType /\ cache \in RowType /\ fetch.row \in RowType
        /\ fetch \in [pc : {"none", "sent", "read"}, row : RowType]
        /\ stale \in BOOLEAN /\ open \in BOOLEAN /\ busy \in BOOLEAN /\ broken \in BOOLEAN
        /\ draft \in [Field -> 0..2] /\ \A f \in Field : draft[f] \in 0..2
        /\ touched \subseteq Field /\ base \in Int /\ base >= -1 /\ base <= MaxVersion
        /\ request \in RequestType /\ request.pc \in {"none", "sent", "applied", "refused"}
        /\ request.here \in BOOLEAN /\ \A f \in Field : request.patch[f] \in Keep..2
        /\ saved \in Nat /\ saved <= MaxVersion /\ filled \in Nat /\ created \in Nat
  <1>1. request \in RequestType
    BY DEF PanelTyped, PanelTypeOK, RequestType
  <1>2. base \in Int /\ base >= -1 /\ base <= MaxVersion /\ saved \in Nat /\ saved <= MaxVersion
    BY MaxVersionNat DEF PanelTyped, PanelTypeOK, Unset
  <1> QED
    BY <1>1, <1>2 DEF PanelTyped, PanelTypeOK, RequestType

LEMMA NoRowIsSnapshot ==
  ASSUME PanelTyped, Snapshots
  PROVE Snapshot(NoRow) /\ row.version \in Nat
  BY PanelTypes, RowFacts, NoRowFacts, MaxVersionNat DEF Snapshots, Snapshot

\* The state of a component that is mounted with a snapshot of the row.
LEMMA MountFacts ==
  ASSUME PanelTyped, Snapshots, NEW c \in RowType, c.fields["note"] # 2, Snapshot(c), Mount(c)
  PROVE /\ draft' \in [Field -> 0..2] /\ draft'["note"] # 2 /\ touched' = {} /\ busy' = FALSE
        /\ base' \in Unset..MaxVersion /\ base' <= row.version
        /\ form.op \in {"create", "choose"} => draft' = Blanks
        /\ form.op \in {"update", "each"} =>
             /\ base' = 0 => form.omits = Field /\ draft' = Blanks
             /\ base' = row.version => draft' = row.fields
  <1>1. /\ form \in Components /\ row \in RowType /\ row.version > 0 /\ row.version \in Nat
        /\ row.version <= MaxVersion
    BY PanelTypes, RowFacts, MaxVersionNat DEF Snapshots
  <1>2. /\ c.version \in Nat /\ c.fields \in [Field -> 0..2] /\ c.version <= row.version
        /\ c.version = row.version => c = row
    BY RowFacts, MaxVersionNat DEF Snapshot
  <1>3. PICK copies \in BOOLEAN :
          copies = (Loaded(c) /\ c.exists /\ form.from \in {"data", "mount"})
    OBVIOUS
  <1>4. /\ draft' = IF copies THEN c.fields ELSE Blanks
        /\ base' = IF copies THEN c.version ELSE IF form.from = "data" THEN Unset ELSE 0
        /\ touched' = {} /\ busy' = FALSE
    BY <1>3 DEF Mount, Copied
  <1>5. CASE copies
    <2>1. c.version > 0 /\ form.from \in {"data", "mount"}
      BY <1>3, <1>5 DEF Loaded
    <2>2. form.op \notin {"create", "choose"}
      BY <1>1, <2>1, FormFacts
    <2> QED
      BY <1>1, <1>2, <1>4, <1>5, <2>1, <2>2, MaxVersionNat DEF Unset
  <1>6. CASE ~copies
    <2>1. draft' = Blanks /\ draft' \in [Field -> 0..2] /\ draft'["note"] # 2
      BY <1>4, <1>6, FieldFacts
    <2>2. base' \in {Unset, 0} /\ (base' = 0 => form.from # "data")
      BY <1>4, <1>6 DEF Unset
    <2>3. form.op \in {"update", "each"} /\ base' = 0 => form.omits = Field
      BY <1>1, <2>2, FormFacts
    <2> QED
      BY <1>1, <1>4, <2>1, <2>2, <2>3, MaxVersionNat DEF Unset
  <1> QED
    BY <1>5, <1>6

LEMMA PanelInitHolds == PanelInit => PanelInv
  <1> SUFFICES ASSUME PanelInit PROVE PanelInv
    OBVIOUS
  <1>a. PICK ones : ones = [f \in Field |-> 1]
    OBVIOUS
  <1>1. ones \in [Field -> 0..2] /\ \A f \in Field : ones[f] = 1
    BY <1>a
  <1>b. (form.op \in {"update", "each"}) \in BOOLEAN
    OBVIOUS
  <1>c. PICK e \in BOOLEAN : e = (form.op \in {"update", "each"})
    BY <1>b
  <1>2. row = [version |-> 1, exists |-> e, fields |-> ones]
    BY <1>a, <1>c DEF PanelInit
  <1>3. /\ row \in RowType /\ row.version = 1 /\ row.fields = ones
    BY <1>1, <1>2, MaxVersionNat DEF RowType
  <1>4. /\ form \in Components /\ cache = NoRow /\ stale = FALSE /\ fetch = NoFetch /\ open = FALSE
        /\ busy = FALSE /\ draft = Blanks /\ touched = {} /\ base = Unset /\ request = NoRequest
        /\ saved = 0 /\ filled = 0 /\ created = 0 /\ broken = FALSE
    BY DEF PanelInit
  <1>5. PanelTyped
    <2>1. row.fields["title"] # Blank /\ row.fields["note"] # 2
      BY <1>1, <1>3, FieldFacts DEF Blank
    <2>2. base \in Unset..MaxVersion /\ saved \in 0..MaxVersion /\ touched \subseteq Field
      BY <1>4, MaxVersionNat DEF Unset
    <2>3. PanelTypeOK
      BY <1>3, <1>4, <2>1, <2>2, FieldFacts, NoRowFacts, NoRequestFacts
         DEF PanelTypeOK, RequestType
    <2>4. /\ \A r \in {row, cache, fetch.row} : r.fields["note"] # 2
          /\ draft["note"] # 2 /\ request.patch["note"] # 2
      BY <1>4, <2>1, FieldFacts, NoRowFacts, NoRequestFacts
    <2> QED
      BY <1>4, <2>1, <2>3, <2>4 DEF PanelTyped
  <1>6. Snapshots /\ SavedOK
    BY <1>3, <1>4, NoRowFacts DEF Snapshots, Snapshot, SavedOK
  <1>7. RequestOK /\ CountOK
    BY <1>4, NoRequestFacts, FieldFacts DEF RequestOK, CountOK, Sent, ToSend, One, Blank
  <1>8. DraftOK
    BY <1>3, <1>4, NoRequestFacts DEF DraftOK, Unset
  <1> QED
    BY <1>5, <1>6, <1>7, <1>8 DEF PanelInv

-----------------------------------------------------------------------------
(* Panel: each of its steps keeps the invariant.                            *)

LEMMA OpenKeeps ==
  ASSUME PanelInv, Open
  PROVE PanelInv'
  <1>0. PanelTyped /\ Snapshots /\ RequestOK /\ SavedOK /\ CountOK /\ DraftOK
    BY DEF PanelInv
  <1>1. /\ ~open /\ open' = TRUE /\ Mount(cache) /\ (fetch' = Fetching \/ fetch' = fetch)
        /\ UNCHANGED <<form, row, cache, stale, request, saved, filled, created, broken>>
    BY DEF Open, counted
  <1>2. /\ draft' \in [Field -> 0..2] /\ draft'["note"] # 2 /\ touched' = {} /\ busy' = FALSE
        /\ base' \in Unset..MaxVersion /\ base' <= row.version
        /\ form.op \in {"create", "choose"} => draft' = Blanks
        /\ form.op \in {"update", "each"} =>
             /\ base' = 0 => form.omits = Field /\ draft' = Blanks
             /\ base' = row.version => draft' = row.fields
    BY <1>0, <1>1, MountFacts, PanelTypes DEF Snapshots, PanelTyped
  <1>3. PanelTyped'
    <2>1. /\ fetch' \in [pc : {"none", "sent", "read"}, row : RowType]
          /\ fetch'.row.fields["note"] # 2
      BY <1>0, <1>1, NoRowFacts DEF PanelTyped, PanelTypeOK
    <2>2. PanelTypeOK'
      BY <1>0, <1>1, <1>2, <2>1 DEF PanelTyped, PanelTypeOK
    <2> QED
      BY <1>0, <1>1, <1>2, <2>1, <2>2 DEF PanelTyped
  <1>4. Snapshots'
    BY <1>0, <1>1, NoRowFacts, NoRowIsSnapshot DEF Snapshots, Snapshot
  <1>5. RequestOK'
    BY <1>0, <1>1 DEF RequestOK
  <1>6. SavedOK'
    BY <1>0, <1>1, NoRowFacts DEF SavedOK
  <1>7. CountOK'
    <2>1. ~ToSend' \/ form.op # "create"
      BY <1>2, FieldFacts DEF ToSend, Blank
    <2>2. Sent' = Sent /\ One(ToSend) >= 0
      BY <1>1 DEF Sent, One
    <2> QED
      BY <1>0, <1>1, <2>1, <2>2, PanelTypes DEF CountOK, One
  <1>8. DraftOK'
    <2>1. ~request'.here
      BY <1>0, <1>1, PanelTypes DEF RequestOK
    <2> QED
      BY <1>1, <1>2, <2>1, FieldFacts DEF DraftOK, Blank
  <1> QED
    BY <1>3, <1>4, <1>5, <1>6, <1>7, <1>8 DEF PanelInv

\* A component is mounted anew, and the call it made goes on without it.
LEMMA RemountKeeps ==
  ASSUME PanelInv, NEW c \in RowType, c.fields["note"] # 2, Snapshot(c), Mount(c),
         request' = [request EXCEPT !.here = FALSE],
         UNCHANGED <<form, row, saved, filled, created, broken>>
  PROVE /\ draft' \in [Field -> 0..2] /\ draft'["note"] # 2 /\ touched' = {} /\ busy' = FALSE
        /\ base' \in Unset..MaxVersion
        /\ request' \in RequestType /\ request'.patch["note"] # 2
        /\ RequestOK' /\ CountOK' /\ DraftOK'
  <1>0. PanelTyped /\ Snapshots /\ RequestOK /\ SavedOK /\ CountOK /\ DraftOK
    BY DEF PanelInv
  <1>2. /\ draft' \in [Field -> 0..2] /\ draft'["note"] # 2 /\ touched' = {} /\ busy' = FALSE
        /\ base' \in Unset..MaxVersion /\ base' <= row.version
        /\ form.op \in {"create", "choose"} => draft' = Blanks
        /\ form.op \in {"update", "each"} =>
             /\ base' = 0 => form.omits = Field /\ draft' = Blanks
             /\ base' = row.version => draft' = row.fields
    BY <1>0, MountFacts
  <1>3. PICK q \in RequestType : q = request /\ q.patch["note"] # 2
    BY <1>0, PanelTypes DEF PanelTyped
  <1>4. PICK p : p = [q EXCEPT !.here = FALSE]
    OBVIOUS
  <1>5. /\ p \in RequestType /\ p.pc = q.pc /\ p.op = q.op /\ p.patch = q.patch /\ p.here = FALSE
        /\ request' = p
    BY <1>3, <1>4 DEF RequestType
  <1>6. RequestOK'
    <2>1. q.pc = "none" => p = NoRequest
      <3>1. q.pc = "none" => q = NoRequest /\ q.here = FALSE
        BY <1>0, <1>3, NoRequestFacts DEF RequestOK, RequestType
      <3>2. q.here = FALSE => p = q
        BY <1>3, <1>4 DEF RequestType
      <3> QED
        BY <3>1, <3>2
    <2> QED
      BY <1>0, <1>3, <1>5, <2>1 DEF RequestOK
  <1>7. CountOK'
    <2>1. ~ToSend' \/ form.op # "create"
      BY <1>2, FieldFacts DEF ToSend, Blank
    <2>2. One(Sent') = One(Sent) /\ One(ToSend) >= 0
      BY <1>3, <1>5 DEF Sent, One
    <2>3. One(Sent)' = One(Sent')
      BY DEF One
    <2> QED
      BY <1>0, <2>1, <2>2, <2>3, PanelTypes DEF CountOK, One
  <1>8. DraftOK'
    BY <1>2, <1>5, FieldFacts DEF DraftOK, Blank
  <1> QED
    BY <1>2, <1>3, <1>5, <1>6, <1>7, <1>8

LEMMA CloseKeeps ==
  ASSUME PanelInv, Close
  PROVE PanelInv'
  <1>0. PanelTyped /\ Snapshots /\ RequestOK /\ SavedOK /\ CountOK /\ DraftOK
    BY DEF PanelInv
  <1>1. /\ open' = FALSE /\ Mount(NoRow) /\ request' = [request EXCEPT !.here = FALSE]
        /\ UNCHANGED <<form, row, cache, stale, fetch, saved, filled, created, broken>>
    BY DEF Close, query, counted
  <1>2. /\ draft' \in [Field -> 0..2] /\ draft'["note"] # 2 /\ touched' = {} /\ busy' = FALSE
        /\ base' \in Unset..MaxVersion
        /\ request' \in RequestType /\ request'.patch["note"] # 2
        /\ RequestOK' /\ CountOK' /\ DraftOK'
    BY <1>0, <1>1, NoRowFacts, NoRowIsSnapshot, RemountKeeps
  <1>3. PanelTyped'
    BY <1>0, <1>1, <1>2 DEF PanelTyped, PanelTypeOK, RequestType
  <1>4. Snapshots' /\ SavedOK'
    BY <1>0, <1>1 DEF Snapshots, Snapshot, SavedOK
  <1> QED
    BY <1>2, <1>3, <1>4 DEF PanelInv

LEMMA TypeKeeps ==
  ASSUME PanelInv, NEW f \in Field, NEW v \in 0..2, Type(f, v)
  PROVE PanelInv'
  <1>0. PanelTyped /\ Snapshots /\ RequestOK /\ SavedOK /\ CountOK /\ DraftOK
    BY DEF PanelInv
  <1>1. /\ v \in Typed[f] /\ draft' = [draft EXCEPT ![f] = v] /\ touched' = touched \cup {f}
        /\ v # draft[f] /\ filled' = IF form.op = "create" /\ draft[f] = Blank THEN filled + 1 ELSE filled
        /\ UNCHANGED <<form, row, cache, stale, fetch, open, busy, base, request, saved, created, broken>>
    BY DEF Type, query
  <1>2. /\ draft' \in [Field -> 0..2] /\ draft'[f] = v /\ \A g \in Field : g # f => draft'[g] = draft[g]
        /\ draft \in [Field -> 0..2]
    BY <1>0, <1>1, PanelTypes
  <1>3. draft'["note"] # 2
    <2>1. f = "note" => v # 2
      BY <1>1 DEF Typed
    <2> QED
      BY <1>0, <1>2, <2>1, FieldFacts DEF PanelTyped
  <1>4. filled' \in Nat /\ filled' >= filled
    BY <1>0, <1>1, PanelTypes
  <1>5. PanelTyped'
    BY <1>0, <1>1, <1>2, <1>3, <1>4 DEF PanelTyped, PanelTypeOK
  <1>6. Snapshots' /\ RequestOK' /\ SavedOK'
    BY <1>0, <1>1 DEF Snapshots, Snapshot, RequestOK, SavedOK
  <1>7. CountOK'
    <2>1. One(ToSend)' <= One(ToSend) + (filled' - filled) \/ form.op # "create"
      <3>1. CASE f = "title"
        BY <1>0, <1>1, <1>2, <1>4, <3>1, PanelTypes DEF One, ToSend, Blank
      <3>2. CASE f # "title"
        <4>1. ToSend' = ToSend
          BY <1>1, <1>2, <3>2, FieldFacts DEF ToSend
        <4> QED
          BY <1>0, <1>4, <4>1, PanelTypes DEF One
      <3> QED
        BY <3>1, <3>2
    <2>2. /\ One(Sent)' = One(Sent) /\ One(broken)' = One(broken)
          /\ One(Sent) \in Nat /\ One(ToSend) \in Nat /\ One(ToSend)' \in Nat /\ One(broken) \in Nat
      BY <1>1 DEF Sent, One
    <2> QED
      BY <1>0, <1>1, <1>4, <2>1, <2>2, PanelTypes DEF CountOK
  <1>8. DraftOK'
    BY <1>0, <1>1, <1>2 DEF DraftOK
  <1> QED
    BY <1>5, <1>6, <1>7, <1>8 DEF PanelInv

\* A call of the component begins with what is in the draft.
LEMMA SubmitKeeps ==
  ASSUME PanelInv, NEW op \in {"update", "act", "delete", "create"},
         NEW patch \in [Field -> Keep..2], Submit(op, patch), patch["note"] # 2,
         op = "update" => form.op \in {"update", "each"} /\
           \A f \in Field : patch[f] = Keep \/ (patch[f] = draft[f] /\ ~(f \in form.omits /\ draft[f] = Blank)),
         op = "create" => /\ form.op \in {"create", "choose"} /\ patch["title"] \in 1..2
                          /\ form.op = "create" => draft["title"] # Blank
  PROVE PanelInv'
  <1>0. PanelTyped /\ Snapshots /\ RequestOK /\ SavedOK /\ CountOK /\ DraftOK
    BY DEF PanelInv
  <1>1. /\ Ready /\ request = NoRequest /\ busy' = TRUE
        /\ UNCHANGED <<form, row, cache, stale, fetch, open, draft, touched, base, saved, filled,
                       created, broken>>
    BY DEF Submit, query, counted
  <1>2. PICK q : q = [pc |-> "sent", op |-> op, patch |-> patch, here |-> TRUE]
    OBVIOUS
  <1>3. /\ q \in RequestType /\ q.pc = "sent" /\ q.op = op /\ q.patch = patch /\ q.here = TRUE
        /\ request' = q /\ open
    BY <1>1, <1>2 DEF RequestType, Submit, Ready
  <1>4. PanelTyped'
    BY <1>0, <1>1, <1>3 DEF PanelTyped, PanelTypeOK, RequestType
  <1>5. Snapshots' /\ SavedOK'
    BY <1>0, <1>1 DEF Snapshots, Snapshot, SavedOK
  <1>6. RequestOK'
    BY <1>1, <1>3 DEF RequestOK
  <1>7. CountOK'
    <2>1. form.op = "create" => One(Sent)' + One(ToSend)' <= One(Sent) + One(ToSend)
      <3>1. ~Sent /\ (ToSend <=> draft["title"] # Blank)
        BY <1>1, NoRequestFacts DEF Sent, ToSend
      <3>2. (Sent' <=> op = "create") /\ (ToSend' <=> draft["title"] # Blank /\ op # "create")
        BY <1>1, <1>3 DEF Sent, ToSend
      <3> QED
        BY <3>1, <3>2 DEF One
    <2>2. /\ One(Sent) \in Nat /\ One(ToSend) \in Nat /\ One(broken) \in Nat
          /\ One(Sent)' \in Nat /\ One(ToSend)' \in Nat /\ One(broken)' = One(broken)
      BY <1>1 DEF One
    <2> QED
      BY <1>0, <1>1, <2>1, <2>2, PanelTypes DEF CountOK
  <1>8. DraftOK'
    BY <1>0, <1>1, <1>3, PanelTypes DEF DraftOK
  <1> QED
    BY <1>4, <1>5, <1>6, <1>7, <1>8 DEF PanelInv

LEMMA SubmitsKeep ==
  ASSUME PanelInv, OnSave \/ OnCreate \/ OnCheckout \/ OnDelete
  PROVE PanelInv'
  <1>0. /\ draft \in [Field -> 0..2] /\ \A f \in Field : draft[f] \in 0..2
        /\ draft["note"] # 2 /\ form \in Components
    BY PanelTypes DEF PanelInv, PanelTyped
  <1>1. ASSUME NEW fs \in SUBSET Field
        PROVE /\ Patch(fs) \in [Field -> Keep..2] /\ Patch(fs)["note"] # 2
              /\ \A f \in Field : \/ Patch(fs)[f] = Keep
                                  \/ /\ Patch(fs)[f] = draft[f]
                                     /\ ~(f \in form.omits /\ draft[f] = Blank)
    <2>1. \A f \in Field : Patch(fs)[f] = IF f \notin fs \/ (f \in form.omits /\ draft[f] = Blank)
                                            THEN Keep ELSE draft[f]
      BY DEF Patch
    <2>2. Patch(fs) = [f \in Field |-> Patch(fs)[f]]
      BY DEF Patch
    <2>3. \A f \in Field : Patch(fs)[f] \in Keep..2
      BY <1>0, <2>1 DEF Keep
    <2> QED
      BY <1>0, <2>1, <2>2, <2>3, FieldFacts DEF Keep
  <1>2. CASE OnSave
    <2>1. form.op \in {"update", "each"} /\ \E fs \in SUBSET Field : Submit("update", Patch(fs))
      BY <1>2 DEF OnSave
    <2>2. PICK fs \in SUBSET Field : Submit("update", Patch(fs))
      BY <2>1
    <2> QED
      BY <1>1, <2>1, <2>2, SubmitKeeps
  <1>3. CASE OnCreate
    <2>1. form.op = "create" /\ draft["title"] # Blank /\ Submit("create", Patch(Field))
      BY <1>3 DEF OnCreate
    <2>2. Patch(Field)["title"] = draft["title"]
      BY <1>0, <2>1, FormFacts, FieldFacts DEF Patch
    <2>3. Patch(Field)["title"] \in 1..2
      BY <1>0, <2>1, <2>2, FieldFacts DEF Blank
    <2> QED
      BY <1>1, <2>1, <2>3, SubmitKeeps
  <1>4. CASE OnCheckout
    <2>1. PICK p : p = [f \in Field |-> 1]
      OBVIOUS
    <2>2. p \in [Field -> Keep..2] /\ p["note"] # 2 /\ p["title"] \in 1..2
      BY <2>1, FieldFacts DEF Keep
    <2>3. form.op = "choose" /\ Submit("create", p)
      BY <1>4, <2>1 DEF OnCheckout
    <2> QED
      BY <2>2, <2>3, SubmitKeeps
  <1>5. CASE OnDelete
    <2>1. PICK op \in {"act", "delete"} : Submit(op, Blanks)
      BY <1>5 DEF OnDelete
    <2>2. Blanks \in [Field -> Keep..2] /\ Blanks["note"] # 2
      BY FieldFacts DEF Keep
    <2> QED
      BY <2>1, <2>2, SubmitKeeps
  <1> QED
    BY <1>2, <1>3, <1>4, <1>5

\* The row becomes another one, and every snapshot of it is old.
LEMMA BecomeFacts ==
  ASSUME PanelInv, NEW exists \in BOOLEAN, NEW fields \in [Field -> 0..2], Become(exists, fields),
         fields["title"] # Blank, fields["note"] # 2, UNCHANGED <<cache, fetch>>
  PROVE /\ row' \in RowType /\ row'.version = row.version + 1 /\ row.version \in Nat
        /\ row'.version <= MaxVersion
        /\ row'.fields = fields /\ row'.exists = exists /\ Snapshots'
  <1>1. /\ row.version \in Nat /\ row.version > 0 /\ Snapshot(cache) /\ Snapshot(fetch.row)
        /\ cache.version \in Nat /\ fetch.row.version \in Nat
    BY PanelTypes, RowFacts, MaxVersionNat DEF PanelInv, Snapshots
  <1>2. row' = [version |-> row.version + 1, exists |-> exists, fields |-> fields]
        /\ row.version < MaxVersion
    BY DEF Become
  <1>3. /\ row' \in RowType /\ row'.version = row.version + 1
        /\ row'.fields = fields /\ row'.exists = exists
    BY <1>1, <1>2, MaxVersionNat DEF RowType
  <1>4. Snapshots'
    BY <1>1, <1>3 DEF Snapshots, Snapshot
  <1> QED
    BY <1>1, <1>2, <1>3, <1>4, MaxVersionNat

LEMMA OthersChangeKeeps ==
  ASSUME PanelInv, OthersChange
  PROVE PanelInv'
  <1>0. PanelTyped /\ Snapshots /\ RequestOK /\ SavedOK /\ CountOK /\ DraftOK
    BY DEF PanelInv
  <1>1. UNCHANGED <<form, cache, stale, fetch, open, busy, draft, touched, base, request, saved,
                    filled, created, broken>>
    BY DEF OthersChange, query, screen, counted
  <1>2. row.fields \in [Field -> 0..2] /\ row.fields["title"] # Blank /\ row.fields["note"] # 2
    BY <1>0, PanelTypes, RowFacts DEF PanelTyped
  <1>3. PICK exists \in BOOLEAN, fields \in [Field -> 0..2] :
          Become(exists, fields) /\ fields["title"] # Blank /\ fields["note"] # 2
    <2>1. PICK n \in 0..2 : n = row.fields["note"]
      BY <1>2, FieldFacts
    <2>2. PICK g : g = [row.fields EXCEPT !["note"] = 1 - n]
      OBVIOUS
    <2>3. g \in [Field -> 0..2] /\ g["title"] = row.fields["title"] /\ g["note"] # 2
      BY <1>2, <2>1, <2>2, FieldFacts
    <2>4. g = [row.fields EXCEPT !["note"] = 1 - @]
      BY <1>2, <2>1, <2>2, FieldFacts
    <2> QED
      BY <1>2, <2>3, <2>4 DEF OthersChange
  <1>4. /\ row' \in RowType /\ row'.version = row.version + 1 /\ row.version \in Nat
        /\ row'.fields = fields /\ Snapshots'
    BY <1>0, <1>1, <1>3, BecomeFacts
  <1>5. PanelTyped'
    BY <1>0, <1>1, <1>3, <1>4 DEF PanelTyped, PanelTypeOK
  <1>6. RequestOK' /\ SavedOK'
    BY <1>0, <1>1, <1>4, PanelTypes DEF RequestOK, SavedOK
  <1>7. CountOK'
    BY <1>0, <1>1 DEF CountOK, One, Sent, ToSend
  <1>8. DraftOK'
    BY <1>0, <1>1, <1>4, PanelTypes DEF DraftOK
  <1> QED
    BY <1>4, <1>5, <1>6, <1>7, <1>8 DEF PanelInv

LEMMA ApplyChangeKeeps ==
  ASSUME PanelInv, ApplyChange
  PROVE PanelInv'
  <1>0. PanelTyped /\ Snapshots /\ RequestOK /\ SavedOK /\ CountOK /\ DraftOK
    BY DEF PanelInv
  <1>1. /\ UNCHANGED <<form, cache, stale, fetch, open, busy, draft, touched, saved, filled, broken>>
        /\ base' = IF request.here /\ base = row.version THEN row.version + 1 ELSE base
    BY DEF ApplyChange, query
  <1>2. PICK q \in RequestType : /\ q = request /\ q.pc = "sent" /\ q.patch["note"] # 2
                                 /\ \A f \in Field : q.patch[f] \in Keep..2
    BY <1>0, PanelTypes DEF PanelTyped, ApplyChange
  <1>3. /\ row.fields \in [Field -> 0..2] /\ row.fields["title"] # Blank /\ row.fields["note"] # 2
        /\ \A f \in Field : row.fields[f] \in 0..2
        /\ row.exists \in BOOLEAN
    BY <1>0, PanelTypes, RowFacts DEF PanelTyped
  <1>4. /\ Patched(q.patch) \in [Field -> 0..2]
        /\ \A f \in Field : Patched(q.patch)[f] = IF q.patch[f] = Keep THEN row.fields[f] ELSE q.patch[f]
    BY <1>2, <1>3 DEF Patched, Keep
  <1>5. PICK exists \in BOOLEAN, fields \in [Field -> 0..2] :
          /\ Become(exists, fields) /\ fields["title"] # Blank /\ fields["note"] # 2
          /\ \/ fields = Patched(q.patch) /\ q.op \in {"update", "create"}
             \/ fields = row.fields /\ q.op \in {"act", "delete"}
    <2>1. q.op = "update" /\ q.patch["title"] # Blank /\ Become(TRUE, Patched(q.patch))
          => Patched(q.patch)["title"] # Blank /\ Patched(q.patch)["note"] # 2
      BY <1>2, <1>3, <1>4, FieldFacts DEF Keep, Blank
    <2>2. q.op = "create"
          => Patched(q.patch)["title"] # Blank /\ Patched(q.patch)["note"] # 2
      BY <1>0, <1>2, <1>3, <1>4, FieldFacts DEF Keep, Blank, RequestOK
    <2> QED
      BY <1>2, <1>3, <1>4, <2>1, <2>2 DEF ApplyChange
  <1>6. /\ row' \in RowType /\ row'.version = row.version + 1 /\ row.version \in Nat
        /\ row'.version <= MaxVersion /\ row'.fields = fields /\ Snapshots'
    BY <1>0, <1>1, <1>5, BecomeFacts
  <1>7. PICK p : p = [q EXCEPT !.pc = "applied", !.patch = Blanks]
    OBVIOUS
  <1>8. /\ p \in RequestType /\ p.pc = "applied" /\ p.patch = Blanks /\ p.op = q.op /\ p.here = q.here
        /\ request' = p
    <2>1. Blanks \in [Field -> Keep..2]
      BY FieldFacts DEF Keep
    <2> QED
      BY <1>2, <1>7, <2>1 DEF RequestType, ApplyChange
  <1>9. /\ created' = IF q.op = "create" /\ form.op = "create" THEN created + 1 ELSE created
        /\ created' \in Nat /\ base' \in Unset..MaxVersion
    <2>1. created' = IF q.op = "create" /\ form.op = "create" THEN created + 1 ELSE created
      BY <1>2 DEF ApplyChange
    <2>2. base \in Int /\ base >= -1 /\ base <= MaxVersion
      BY <1>0, PanelTypes
    <2> QED
      BY <1>0, <1>1, <1>6, <2>1, <2>2, PanelTypes, MaxVersionNat DEF Unset
  <1>10. PanelTyped'
    BY <1>0, <1>1, <1>5, <1>6, <1>8, <1>9, FieldFacts DEF PanelTyped, PanelTypeOK, RequestType
  <1>11. RequestOK' /\ SavedOK'
    BY <1>0, <1>1, <1>2, <1>6, <1>8, PanelTypes DEF RequestOK, SavedOK
  <1>12. CountOK'
    <2>1. form.op = "create" => created' + One(Sent)' = created + One(Sent)
      BY <1>0, <1>2, <1>8, <1>9, PanelTypes DEF Sent, One
    <2>2. One(ToSend)' = One(ToSend) /\ One(broken)' = One(broken)
      BY <1>1, <1>2, <1>8 DEF ToSend, One
    <2>3. One(ToSend) \in Nat /\ One(Sent) \in Nat /\ One(Sent)' \in Nat
      BY DEF One
    <2> QED
      BY <1>0, <1>1, <1>9, <2>1, <2>2, <2>3, PanelTypes DEF CountOK
  <1>13. DraftOK'
    <2> SUFFICES ASSUME form.op \in {"update", "each"} PROVE DraftOK'
      BY <1>1 DEF DraftOK
    <2>1. q.op # "create" /\ base \in Int /\ base <= row.version /\ row.version > 0
      BY <1>0, <1>2, PanelTypes DEF RequestOK, DraftOK, Snapshots
    <2>2. ASSUME base' = row'.version, NEW f \in Field \ touched PROVE draft[f] = row'.fields[f]
      <3>1. request.here /\ base = row.version
        BY <1>1, <1>6, <2>1, <2>2
      <3>2. draft[f] = row.fields[f]
        BY <1>0, <2>2, <3>1 DEF DraftOK
      <3>3. CASE fields = row.fields
        BY <1>6, <3>2, <3>3
      <3>4. CASE fields = Patched(q.patch) /\ q.op = "update"
        <4>1. q.patch[f] \in {Keep, row.fields[f]}
          BY <1>0, <1>2, <2>2, <3>1, <3>4 DEF DraftOK
        <4> QED
          BY <1>4, <1>6, <2>2, <3>2, <3>4, <4>1
      <3> QED
        BY <1>5, <2>1, <3>3, <3>4
    <2>3. (base' = 0 => base = 0) /\ base' <= row'.version
      BY <1>1, <1>6, <2>1
    <2> QED
      BY <1>0, <1>1, <1>8, <1>9, <2>2, <2>3 DEF DraftOK
  <1> QED
    BY <1>6, <1>10, <1>11, <1>12, <1>13 DEF PanelInv

LEMMA RefuseChangeKeeps ==
  ASSUME PanelInv, RefuseChange
  PROVE PanelInv'
  <1>0. PanelTyped /\ Snapshots /\ RequestOK /\ SavedOK /\ CountOK /\ DraftOK
    BY DEF PanelInv
  <1>1. UNCHANGED <<form, row, cache, stale, fetch, open, busy, draft, touched, base, saved, filled,
                    created, broken>>
    BY DEF RefuseChange, query, screen, counted
  <1>2. PICK q \in RequestType : q = request /\ q.pc = "sent"
    BY <1>0, PanelTypes DEF RefuseChange
  <1>3. PICK p : p = [q EXCEPT !.pc = "refused", !.patch = Blanks]
    OBVIOUS
  <1>4. /\ p \in RequestType /\ p.pc = "refused" /\ p.patch = Blanks /\ p.op = q.op /\ p.here = q.here
        /\ request' = p
    <2>1. Blanks \in [Field -> Keep..2]
      BY FieldFacts DEF Keep
    <2> QED
      BY <1>2, <1>3, <2>1 DEF RequestType, RefuseChange
  <1>5. PanelTyped'
    BY <1>0, <1>1, <1>4, FieldFacts DEF PanelTyped, PanelTypeOK, RequestType
  <1>6. Snapshots' /\ SavedOK'
    BY <1>0, <1>1 DEF Snapshots, Snapshot, SavedOK
  <1>7. RequestOK' /\ (q.op = "create" => form.op = "choose")
    BY <1>0, <1>1, <1>2, <1>4 DEF RequestOK, RefuseChange
  <1>8. CountOK'
    <2>1. form.op = "create" => One(Sent)' = One(Sent)
      BY <1>2, <1>4, <1>7 DEF One, Sent
    <2>2. One(ToSend)' = One(ToSend) /\ One(broken)' = One(broken)
      BY <1>1, <1>2, <1>4 DEF One, ToSend
    <2> QED
      BY <1>0, <1>1, <2>1, <2>2 DEF CountOK
  <1>9. DraftOK'
    BY <1>0, <1>1, <1>4 DEF DraftOK
  <1> QED
    BY <1>5, <1>6, <1>7, <1>8, <1>9 DEF PanelInv

LEMMA AnswerChangeKeeps ==
  ASSUME PanelInv, AnswerChange
  PROVE PanelInv'
  <1>0. PanelTyped /\ Snapshots /\ RequestOK /\ SavedOK /\ CountOK /\ DraftOK
    BY DEF PanelInv
  <1>1. /\ stale' = TRUE /\ request' = NoRequest
        /\ fetch' = (IF open /\ (fetch = NoFetch \/ Loaded(cache)) THEN Fetching ELSE fetch)
        /\ UNCHANGED <<form, row, cache, open, base, filled, created, broken>>
    BY DEF AnswerChange, Invalidate, counted
  <1>2. PICK q \in RequestType : q = request /\ q.pc = "applied"
    BY <1>0, PanelTypes DEF AnswerChange
  <1>3. /\ busy' = (IF q.here THEN q.op = "delete" /\ form.removes = "keepsBusy" ELSE busy)
        /\ draft' = (IF q.here /\ q.op = "create" THEN Cleared(draft) ELSE draft)
        /\ touched' = (IF q.here /\ q.op = "create" THEN {} ELSE touched)
        /\ saved' = (IF q.here /\ ~LateLoad THEN row.version ELSE saved)
    BY <1>2 DEF AnswerChange
  <1>4. /\ draft' \in [Field -> 0..2] /\ draft'["note"] # 2 /\ draft' \in {draft, Blanks}
        /\ (form.op = "create" /\ q.here /\ q.op = "create") => draft' = Blanks
    BY <1>0, <1>3, FieldFacts, PanelTypes DEF PanelTyped, Cleared
  <1>5. /\ row.version \in 0..MaxVersion /\ busy' \in BOOLEAN /\ touched' \subseteq Field
        /\ saved' \in 0..MaxVersion /\ saved' <= row.version /\ row.version > 0
    <2>1. (q.op = "delete" /\ form.removes = "keepsBusy") \in BOOLEAN
      OBVIOUS
    <2>2. row.version \in 0..MaxVersion /\ saved <= row.version /\ saved \in Nat /\ row.version > 0
      BY <1>0, PanelTypes, RowFacts DEF SavedOK, Snapshots
    <2>3. busy' \in BOOLEAN /\ touched' \subseteq Field
      BY <1>0, <1>3, <2>1, PanelTypes
    <2>4. saved' \in {saved, row.version}
      BY <1>3
    <2> QED
      BY <2>2, <2>3, <2>4, MaxVersionNat
  <1>6. /\ fetch' \in [pc : {"none", "sent", "read"}, row : RowType]
        /\ fetch'.row \in {fetch.row, NoRow}
    BY <1>0, <1>1, PanelTypes, NoRowFacts
  <1>7. PanelTyped'
    <2>1. PanelTypeOK'
      BY <1>0, <1>1, <1>4, <1>5, <1>6, NoRequestFacts DEF PanelTyped, PanelTypeOK, RequestType
    <2> QED
      BY <1>0, <1>1, <1>4, <1>6, <2>1, NoRequestFacts, NoRowFacts DEF PanelTyped
  <1>8. Snapshots'
    BY <1>0, <1>1, <1>6, NoRowIsSnapshot DEF Snapshots, Snapshot
  <1>9. RequestOK'
    BY <1>1, NoRequestFacts DEF RequestOK
  <1>10. SavedOK'
    <2>0. q.here => open
      BY <1>0, <1>2 DEF RequestOK
    <2>1. CASE q.here /\ ~LateLoad
      <3>1. fetch' = Fetching \/ (fetch' = fetch /\ fetch # NoFetch /\ fetch.pc # "read")
        BY <1>1, <2>0, <2>1 DEF LateLoad
      <3> QED
        BY <1>1, <1>5, <3>1, NoRowFacts DEF SavedOK
    <2>2. CASE ~(q.here /\ ~LateLoad)
      BY <1>0, <1>1, <1>3, <1>5, <2>2, NoRowFacts DEF SavedOK
    <2> QED
      BY <2>1, <2>2
  <1>11. CountOK'
    <2>1. form.op = "create" => One(ToSend)' <= One(ToSend)
      <3>1. form.op = "create" /\ ToSend' => ToSend
        BY <1>1, <1>2, <1>3, <1>4, FieldFacts DEF ToSend, Blank
      <3> QED
        BY <3>1 DEF One
    <2>2. ~Sent /\ ~Sent'
      BY <1>1, <1>2, NoRequestFacts DEF Sent
    <2>3. One(Sent) = 0 /\ One(Sent)' = 0 /\ One(broken)' = One(broken) /\ One(broken) \in Nat
          /\ One(ToSend) \in Nat /\ One(ToSend)' \in Nat
      BY <1>1, <2>2 DEF One
    <2> QED
      BY <1>0, <1>1, <2>1, <2>3, PanelTypes DEF CountOK
  <1>12. DraftOK'
    <2>1. form.op \in {"update", "each"} => q.op # "create"
      BY <1>0, <1>2 DEF RequestOK
    <2> QED
      BY <1>0, <1>1, <1>3, <2>1, NoRequestFacts DEF DraftOK
  <1> QED
    BY <1>7, <1>8, <1>9, <1>10, <1>11, <1>12 DEF PanelInv

LEMMA ShowErrorKeeps ==
  ASSUME PanelInv, (AnswerError \/ LoseRequest)
  PROVE PanelInv'
  <1>0. PanelTyped /\ Snapshots /\ RequestOK /\ SavedOK /\ CountOK /\ DraftOK
    BY DEF PanelInv
  <1>1. /\ request' = NoRequest
        /\ UNCHANGED <<form, row, cache, stale, fetch, open, draft, touched, base, saved, filled, created>>
        /\ \/ request.pc = "refused" /\ broken' = broken
           \/ ~broken /\ broken' = TRUE
    BY DEF AnswerError, LoseRequest, ShowError, query
  <1>2. busy' \in BOOLEAN
    <2>1. busy' = (busy /\ ~request.here)
      BY DEF AnswerError, LoseRequest, ShowError
    <2> QED
      BY <2>1
  <1>3. PanelTyped'
    BY <1>0, <1>1, <1>2, NoRequestFacts DEF PanelTyped, PanelTypeOK, RequestType
  <1>4. Snapshots' /\ SavedOK' /\ RequestOK'
    BY <1>0, <1>1, NoRequestFacts DEF Snapshots, Snapshot, SavedOK, RequestOK
  <1>5. CountOK'
    <2>1. ASSUME form.op = "create" PROVE One(Sent)' + One(ToSend)' + One(broken)
                                          <= One(Sent) + One(ToSend) + One(broken)'
      <3>1. ~Sent' /\ (ToSend' <=> draft["title"] # Blank)
        BY <1>1, NoRequestFacts DEF Sent, ToSend
      <3>2. CASE request.pc = "refused" /\ broken' = broken
        <4>1. request.op # "create"
          BY <1>0, <2>1, <3>2 DEF RequestOK
        <4>2. ToSend' => ToSend
          BY <3>1, <4>1 DEF ToSend
        <4>3. One(Sent)' = 0 /\ One(Sent) \in Nat /\ One(broken)' = One(broken) /\ One(broken) \in Nat
              /\ One(ToSend) \in Nat /\ One(ToSend)' \in Nat /\ One(ToSend)' <= One(ToSend)
          BY <3>1, <3>2, <4>2 DEF One
        <4> QED
          BY <4>3
      <3>3. CASE ~broken /\ broken' = TRUE
        <4>1. One(broken) = 0 /\ One(broken)' = 1
          BY <3>3 DEF One
        <4>2. One(Sent)' = 0 /\ One(ToSend)' \in 0..1 /\ One(Sent) \in Nat /\ One(ToSend) \in Nat
          BY <3>1 DEF One
        <4> QED
          BY <4>1, <4>2
      <3> QED
        BY <1>1, <3>2, <3>3
    <2>2. /\ One(Sent) \in Nat /\ One(ToSend) \in Nat /\ One(broken) \in Nat
          /\ One(Sent)' \in Nat /\ One(ToSend)' \in Nat /\ One(broken)' \in Nat
      BY DEF One
    <2> QED
      BY <1>0, <1>1, <2>1, <2>2, PanelTypes DEF CountOK
  <1>6. DraftOK'
    BY <1>0, <1>1, NoRequestFacts DEF DraftOK
  <1> QED
    BY <1>3, <1>4, <1>5, <1>6 DEF PanelInv

\* A fetch begins, reads or fails: the data that is shown stays.
LEMMA FetchKeeps ==
  ASSUME PanelInv, FetchRead \/ FetchFails \/ Focus
  PROVE PanelInv'
  <1>0. PanelTyped /\ Snapshots /\ RequestOK /\ SavedOK /\ CountOK /\ DraftOK
    BY DEF PanelInv
  <1>1. /\ UNCHANGED <<form, row, cache, stale, open, busy, draft, touched, base, request, saved,
                       filled, created>>
        /\ broken' = broken \/ broken' = TRUE
    BY DEF FetchRead, FetchFails, Focus, screen, counted
  <1>2. /\ fetch' \in [pc : {"none", "sent", "read"}, row : RowType]
        /\ fetch'.row \in {row, NoRow}
    BY <1>0, PanelTypes, NoRowFacts DEF FetchRead, FetchFails, Focus
  <1>3. PanelTyped'
    <2>1. PanelTypeOK'
      BY <1>0, <1>1, <1>2 DEF PanelTyped, PanelTypeOK
    <2> QED
      BY <1>0, <1>1, <1>2, <2>1, NoRowFacts DEF PanelTyped
  <1>4. Snapshots'
    <2>1. row.version \in Nat /\ Snapshot(NoRow) /\ Snapshot(row)
      BY <1>0, NoRowIsSnapshot DEF Snapshot
    <2> QED
      BY <1>0, <1>1, <1>2, <2>1 DEF Snapshots, Snapshot
  <1>5. SavedOK'
    <2>1. CASE FetchRead
      <3>1. fetch' = [pc |-> "read", row |-> row]
        BY <2>1 DEF FetchRead
      <3>2. fetch'.pc = "read" /\ fetch'.row = row /\ fetch' # NoFetch
        BY <3>1, NoRowFacts
      <3> QED
        BY <1>0, <1>1, <3>2 DEF SavedOK
    <2>2. CASE FetchFails
      BY <1>0, <1>1, <2>2, NoRowFacts DEF SavedOK, FetchFails
    <2>3. CASE Focus
      BY <1>0, <1>1, <2>3, NoRowFacts DEF SavedOK, Focus
    <2> QED
      BY <2>1, <2>2, <2>3
  <1>6. CountOK'
    <2>1. /\ One(Sent)' = One(Sent) /\ One(ToSend)' = One(ToSend) /\ One(broken)' >= One(broken)
          /\ One(broken)' \in Nat /\ One(broken) \in Nat /\ One(Sent) \in Nat /\ One(ToSend) \in Nat
      BY <1>1 DEF One, Sent, ToSend
    <2> QED
      BY <1>0, <1>1, <2>1, PanelTypes DEF CountOK
  <1>7. RequestOK' /\ DraftOK'
    BY <1>0, <1>1 DEF RequestOK, DraftOK
  <1> QED
    BY <1>3, <1>4, <1>5, <1>6, <1>7 DEF PanelInv

LEMMA FetchAnswerKeeps ==
  ASSUME PanelInv, FetchAnswer
  PROVE PanelInv'
  <1>0. PanelTyped /\ Snapshots /\ RequestOK /\ SavedOK /\ CountOK /\ DraftOK
    BY DEF PanelInv
  <1>1. /\ fetch.pc = "read" /\ fetch' = NoFetch /\ cache' = fetch.row /\ stale' = FALSE
        /\ UNCHANGED <<form, row, open, saved, filled, created, broken>>
    BY DEF FetchAnswer, counted
  <1>2. /\ fetch.row \in RowType /\ fetch.row.fields["note"] # 2 /\ Snapshot(fetch.row)
    BY <1>0, PanelTypes DEF PanelTyped, Snapshots
  <1>3. Snapshots'
    BY <1>0, <1>1, <1>2, NoRowFacts, NoRowIsSnapshot DEF Snapshots, Snapshot
  <1>4. SavedOK'
    BY <1>0, <1>1, NoRowFacts DEF SavedOK
  <1>5. CASE UNCHANGED <<draft, base, touched, busy, request>>
    <2>1. PanelTyped'
      <3>1. PanelTypeOK'
        BY <1>0, <1>1, <1>2, <1>5, NoRowFacts DEF PanelTyped, PanelTypeOK
      <3> QED
        BY <1>0, <1>1, <1>2, <1>5, <3>1, NoRowFacts DEF PanelTyped
    <2>2. RequestOK' /\ CountOK' /\ DraftOK'
      BY <1>0, <1>1, <1>5 DEF RequestOK, CountOK, DraftOK, One, Sent, ToSend
    <2> QED
      BY <1>3, <1>4, <2>1, <2>2 DEF PanelInv
  <1>6. CASE Mount(fetch.row) /\ request' = [request EXCEPT !.here = FALSE]
    <2>1. /\ draft' \in [Field -> 0..2] /\ draft'["note"] # 2 /\ touched' = {} /\ busy' = FALSE
          /\ base' \in Unset..MaxVersion
          /\ request' \in RequestType /\ request'.patch["note"] # 2
          /\ RequestOK' /\ CountOK' /\ DraftOK'
      BY <1>1, <1>2, <1>6, RemountKeeps
    <2>2. PanelTyped'
      <3>1. PanelTypeOK'
        BY <1>0, <1>1, <1>2, <2>1, NoRowFacts DEF PanelTyped, PanelTypeOK, RequestType
      <3> QED
        BY <1>0, <1>1, <1>2, <2>1, <3>1, NoRowFacts DEF PanelTyped
    <2> QED
      BY <1>3, <1>4, <2>1, <2>2 DEF PanelInv
  <1> QED
    BY <1>5, <1>6 DEF FetchAnswer

LEMMA PanelStepKeeps ==
  ASSUME PanelInv, [PanelNext]_panelPage
  PROVE PanelInv'
  <1>1. ASSUME NEW f \in Field, NEW v \in 0..2, Type(f, v) PROVE PanelInv'
    BY <1>1, TypeKeeps
  <1>2. ASSUME UNCHANGED panelPage PROVE PanelInv'
    <2>1. UNCHANGED <<form, row, cache, stale, fetch, open, busy, draft, touched, base, request, saved,
                      filled, created, broken>>
      BY <1>2 DEF panelPage, query, screen, counted
    <2>2. PanelTyped' /\ Snapshots' /\ RequestOK' /\ SavedOK'
      BY <2>1 DEF PanelInv, PanelTyped, PanelTypeOK, Snapshots, Snapshot, RequestOK, SavedOK
    <2>3. CountOK' /\ DraftOK'
      BY <2>1 DEF PanelInv, CountOK, DraftOK, One, Sent, ToSend
    <2> QED
      BY <2>2, <2>3 DEF PanelInv
  <1> QED
    BY <1>1, <1>2, OpenKeeps, CloseKeeps, SubmitsKeep, ApplyChangeKeeps, RefuseChangeKeeps,
       AnswerChangeKeeps, ShowErrorKeeps, FetchKeeps, FetchAnswerKeeps, OthersChangeKeeps
       DEF PanelNext, RequestStep, FetchStep

\* A step of Apps is a step of the form's page, or does not touch it.
LEMMA PanelOfApps == [Next]_apps => [PanelNext]_panelPage
  BY DEF Next, apps, Client, OfPanel

\* What holds between a row, what is cached of it and the form.
THEOREM PanelInvariant == Spec => []PanelInv
  <1>1. Init => PanelInv
    BY PanelInitHolds DEF Init
  <1>2. PanelInv /\ [Next]_apps => PanelInv'
    BY PanelOfApps, PanelStepKeeps
  <1> QED
    BY <1>1, <1>2, PTL DEF Spec

\* However a save and the fetches of its data interleave (React Query, and the
\* pages of apps/admin): with no fetch under way the form shows what was saved,
\* or something newer, but for a save at a LateLoad.
THEOREM SavedShows == Spec => []SavedIsShown
  <1>1. PanelInv => SavedIsShown
    BY DEF PanelInv, SavedOK, SavedIsShown
  <1> QED
    BY <1>1, PanelInvariant, PTL

\* A save changes what was typed and nothing else, if its form was copied from
\* the row as it is; and a form filled in once makes one row, unless its answer
\* was lost.
THEOREM SavedOnceAsTyped == Spec => SavedAsTyped
  <1>1. PanelInv => CreatedOnce
    <2> SUFFICES ASSUME PanelInv PROVE CreatedOnce
      OBVIOUS
    <2>1. /\ One(Sent) \in Nat /\ One(ToSend) \in Nat /\ One(broken) = IF broken THEN 1 ELSE 0
          /\ created \in Nat /\ filled \in Nat /\ One(broken) \in Nat
      BY PanelTypes DEF One, PanelInv
    <2> QED
      BY <2>1 DEF PanelInv, CountOK, CreatedOnce
  <1>2. ASSUME PanelInv, [PanelNext]_panelPage, request.op = "update", request.here,
               base \in {0, row.version}, request.pc = "sent", request'.pc = "applied"
        PROVE \A f \in Field : \/ row'.fields[f] = row.fields[f]
                               \/ f \in touched /\ row'.fields[f] = request.patch[f]
    <2>1. CASE ApplyChange
      <3>1. Become(TRUE, Patched(request.patch))
        BY <1>2, <2>1 DEF ApplyChange
      <3>2. row'.fields = Patched(request.patch)
        BY <3>1 DEF Become
      <3>3. form.op \in {"update", "each"}
        BY <1>2 DEF PanelInv, RequestOK
      <3>4. \A f \in Field \ touched : request.patch[f] \in {Keep, row.fields[f]}
        BY <1>2, <3>3 DEF PanelInv, DraftOK
      <3> QED
        BY <3>2, <3>4 DEF Patched
    <2>2. CASE ~ApplyChange
      <3>1. ASSUME Open \/ FetchRead \/ FetchFails \/ Focus \/ OthersChange
                   \/ (\E f \in Field, v \in 0..2 : Type(f, v)) \/ UNCHANGED panelPage
            PROVE request' = request
        BY <3>1 DEF Open, FetchRead, FetchFails, Focus, OthersChange, Type, panelPage
      <3>2. ASSUME Close \/ FetchAnswer
            PROVE request' = request \/ request' = [request EXCEPT !.here = FALSE]
        BY <3>2 DEF Close, FetchAnswer
      <3>3. ASSUME OnSave \/ OnCreate \/ OnCheckout \/ OnDelete
            PROVE request = NoRequest
        BY <3>3 DEF OnSave, OnCreate, OnCheckout, OnDelete, Submit
      <3>4. ASSUME AnswerChange \/ AnswerError \/ LoseRequest
            PROVE request' = NoRequest
        BY <3>4 DEF AnswerChange, AnswerError, LoseRequest, ShowError
      <3>5. ASSUME RefuseChange PROVE request'.pc # "applied"
        <4>1. PICK q \in RequestType : q = request
          BY <1>2, PanelTypes DEF PanelInv
        <4>2. request' = [q EXCEPT !.pc = "refused", !.patch = Blanks]
          BY <3>5, <4>1 DEF RefuseChange
        <4> QED
          BY <4>1, <4>2 DEF RequestType
      <3>6. PICK q \in RequestType : q = request /\ q.pc = "sent" /\ request # NoRequest
        BY <1>2, PanelTypes, NoRequestFacts DEF PanelInv
      <3>7. [q EXCEPT !.here = FALSE].pc = q.pc
        BY DEF RequestType
      <3> QED
        BY <1>2, <2>2, <3>1, <3>2, <3>3, <3>4, <3>5, <3>6, <3>7, NoRequestFacts
           DEF PanelNext, RequestStep, FetchStep
    <2> QED
      BY <2>1, <2>2
  <1>3. PanelInv /\ [Next]_apps =>
          [(request.op = "update" /\ request.here /\ base \in {0, row.version}
              /\ request.pc = "sent" /\ request'.pc = "applied") =>
             \A f \in Field : \/ row'.fields[f] = row.fields[f]
                              \/ f \in touched /\ row'.fields[f] = request.patch[f]]_panelPage
    BY <1>2, PanelOfApps
  <1> QED
    BY <1>1, <1>3, PanelInvariant, PTL DEF Spec, SavedAsTyped, SavesWhatWasTyped

-----------------------------------------------------------------------------
(* ApiClient: types, and a call that becomes another one.                   *)

CallType == [op : Ops, pc : Pcs, token : 0..MaxPairs, keys : SUBSET Keys,
             user : User \cup {None}, tries : 0..2]

LEMMA PairsNat == MaxPairs \in Nat /\ MaxPairs > 0 /\ IsFiniteSet(Call) /\ None \notin User
  BY ApiClientAssumption

LEMMA KeysFacts ==
  /\ "access" \in Keys /\ "refresh" \in Keys /\ Keys \in SUBSET Keys /\ Keys # {}
  /\ \A k \in Keys : k = "access" \/ k = "refresh"
  BY DEF Keys

LEMMA CallFacts ==
  ASSUME NEW q \in CallType
  PROVE /\ q.op \in Ops /\ q.pc \in Pcs /\ q.token \in Nat /\ q.token <= MaxPairs
        /\ q.keys \subseteq Keys /\ q.user \in User \cup {None} /\ q.tries \in 0..2
        /\ q = [op |-> q.op, pc |-> q.pc, token |-> q.token, keys |-> q.keys, user |-> q.user,
                tries |-> q.tries]
  BY PairsNat DEF CallType

LEMMA IdleFacts ==
  /\ Idle \in CallType /\ Idle.op = "none" /\ Idle.pc = "idle" /\ Idle.token = 0 /\ Idle.keys = {}
  /\ Idle.pc \notin Section /\ ~ShowsProfile(Idle)
  BY PairsNat DEF Idle, CallType, Ops, Pcs, Keys, Section, ShowsProfile

LEMMA ClientTypes ==
  ASSUME ClientTyped
  PROVE /\ mobile \in BOOLEAN /\ storage \in [Keys -> 0..MaxPairs]
        /\ storage["access"] \in Nat /\ storage["refresh"] \in Nat
        /\ storage["access"] <= Len(owner) /\ storage["refresh"] <= Len(owner)
        /\ storage["access"] <= MaxPairs /\ storage["refresh"] <= MaxPairs
        /\ status \in Statuses /\ user \in User \cup {None}
        /\ call \in [Call -> CallType] /\ (\A c \in Call : call[c] \in CallType)
        /\ \A c \in Call : call[c].token <= Len(owner) /\ call[c].token \in Nat
        /\ owner \in Seq(User) /\ Len(owner) \in Nat /\ Len(owner) <= MaxPairs
        /\ DOMAIN owner = 1..Len(owner)
        /\ access \subseteq DOMAIN owner /\ refresh \subseteq DOMAIN owner
        /\ excused \in BOOLEAN /\ fault \in Faults
  <1>1. /\ mobile \in BOOLEAN /\ storage \in [Keys -> 0..MaxPairs]
        /\ status \in Statuses /\ user \in User \cup {None}
        /\ call \in [Call -> CallType]
        /\ owner \in Seq(User) /\ Len(owner) <= MaxPairs
        /\ access \subseteq DOMAIN owner /\ refresh \subseteq DOMAIN owner
        /\ excused \in BOOLEAN /\ fault \in Faults
    BY DEF ClientTyped, ApiClientTypeOK, CallType
  <1>2. \A c \in Call : call[c] \in CallType /\ call[c].token \in Nat
    BY <1>1, CallFacts
  <1>3. Len(owner) \in Nat /\ DOMAIN owner = 1..Len(owner)
    BY <1>1
  <1>4. /\ storage["access"] \in Nat /\ storage["refresh"] \in Nat
        /\ storage["access"] <= MaxPairs /\ storage["refresh"] <= MaxPairs
    BY <1>1, KeysFacts, PairsNat
  <1> QED
    BY <1>1, <1>2, <1>3, <1>4, KeysFacts DEF ClientTyped

\* The call c becomes rq, and the others stay.
LEMMA BecomesFacts ==
  ASSUME ClientTyped, NEW c \in Call, NEW rq \in CallType, NEW excuse, Becomes(c, rq, excuse)
  PROVE /\ call' \in [Call -> CallType] /\ call'[c] = rq
        /\ \A d \in Call : d # c => call'[d] = call[d]
        /\ excused' \in BOOLEAN /\ (excused => excused') /\ (excuse => excused')
  <1>1. call' = [call EXCEPT ![c] = rq]
    BY DEF Becomes
  <1>2. excused' = (excused \/ excuse \/ Cardinality(InSection(call')) > 1)
    BY <1>1 DEF Becomes
  <1> QED
    BY <1>1, <1>2, ClientTypes

\* Without an excuse at most one call is in the section.
LEMMA OneInSection ==
  ASSUME ClientTyped, NEW c \in Call, NEW rq \in CallType, NEW excuse, Becomes(c, rq, excuse), ~excused'
  PROVE \A a, b \in Call : call'[a].pc \in Section /\ call'[b].pc \in Section => a = b
  <1> SUFFICES ASSUME NEW a \in Call, NEW b \in Call, call'[a].pc \in Section, call'[b].pc \in Section,
                      a # b
               PROVE FALSE
    OBVIOUS
  <1>1. Cardinality(InSection(call')) > 1 => excused'
    BY DEF Becomes
  <1>2. {a, b} \subseteq InSection(call') /\ InSection(call') \subseteq Call
    BY DEF InSection
  <1>3. IsFiniteSet(InSection(call'))
    BY <1>2, PairsNat, FS_Subset
  <1>4. Cardinality({a, b}) <= Cardinality(InSection(call')) /\ Cardinality(InSection(call')) \in Nat
    BY <1>2, <1>3, FS_Subset, FS_CardinalityType
  <1>5. Cardinality({a, b}) = 2
    <2>1. Cardinality({a}) = 1 /\ IsFiniteSet({a})
      BY FS_Singleton
    <2>2. Cardinality({a} \cup {b}) = Cardinality({a}) + 1
      BY <2>1, FS_AddElement
    <2>3. {a} \cup {b} = {a, b}
      OBVIOUS
    <2> QED
      BY <2>1, <2>2, <2>3
  <1> QED
    BY <1>1, <1>4, <1>5

\* A step that changes the call c only keeps the types.
LEMMA TypedByCall ==
  ASSUME ClientTyped, NEW c \in Call, NEW rq \in CallType, NEW excuse, Becomes(c, rq, excuse),
         rq.token <= Len(owner), rq.pc = "login" => rq.user \in User, status' \in Statuses, user' \in User \cup {None}, fault' \in Faults,
         UNCHANGED <<mobile, storage, owner, access>>, refresh' \subseteq refresh
  PROVE ClientTyped'
  <1>1. /\ call' \in [Call -> CallType] /\ call'[c] = rq
        /\ \A d \in Call : d # c => call'[d] = call[d]
        /\ excused' \in BOOLEAN
    BY BecomesFacts
  <1>2. ApiClientTypeOK'
    BY <1>1, ClientTypes DEF ApiClientTypeOK, CallType
  <1> QED
    BY <1>1, <1>2 DEF ClientTyped

\* The invariant without an excuse.
LEMMA Unexcused ==
  ASSUME ClientInv, ~excused
  PROVE /\ ClientTyped /\ AloneInSection /\ (Quiet => Settled)
        /\ \A d \in Call : CallOK(call[d]) /\ SectionOK(call[d]) /\ call[d] \in CallType
  BY ClientTypes DEF ClientInv

LEMMA SectionPcs ==
  /\ \A pc : pc \in Section <=> pc \in {"readRefresh", "refresh", "save", "clear", "login", "revoke"}
  /\ \A q : q.pc \notin Section => SectionOK(q)
  BY DEF Section, SectionOK

\* What a call in flight can be doing.
LEMMA CallCases ==
  ASSUME NEW q \in CallType, CallOK(q)
  PROVE /\ q.op = "none" => q = Idle
        /\ q.op = "logout" => q.pc \in Section
        /\ q.pc = "idle" => q.op \in {"none", "load"}
  BY IdleFacts, CallFacts, SectionPcs DEF CallOK, Pcs, Renews, Idle

\* Somebody who is shown, or about to be, has something stored.
LEMMA UsedIsStored ==
  ASSUME ClientInv, ~excused, NEW c \in Call, ShowsProfile(call[c]), call[c].pc \notin Section
  PROVE storage # Empty
  <1>1. /\ AloneInSection /\ (Quiet => Settled) /\ Used
        /\ \A d \in Call : CallOK(call[d]) /\ SectionOK(call[d]) /\ call[d] \in CallType
    BY Unexcused DEF Used
  <1>2. Empty["refresh"] = 0
    BY KeysFacts DEF Empty
  <1>3. CASE Quiet
    BY <1>1, <1>2, <1>3 DEF Settled
  <1>4. ASSUME NEW d \in Call, call[d].pc \in Section PROVE storage # Empty
    <2>1. d # c /\ CallOK(call[d]) /\ CallOK(call[c]) /\ SectionOK(call[d])
      BY <1>1, <1>4
    <2>2. call[c].op \in {"load", "me"}
      BY DEF ShowsProfile
    <2>3. call[d].op \notin {"login", "logout"}
      BY <1>1, <2>1, <2>2 DEF CallOK, AloneInSection, SignsIn
    <2>4. call[d].pc # "clear" /\ call[d].pc # "login" /\ call[d].pc # "revoke"
      BY <1>1, <2>1, <2>3 DEF SectionOK, CallOK
    <2>5. CASE call[d].pc \in {"readRefresh", "refresh"}
      BY <1>1, <1>2, <2>1, <2>5 DEF SectionOK, Settled
    <2>6. CASE call[d].pc = "save"
      BY <1>2, <2>1, <2>3, <2>6, KeysFacts DEF SectionOK
    <2> QED
      BY <1>4, <2>4, <2>5, <2>6, SectionPcs
  <1> QED
    BY <1>3, <1>4 DEF Quiet

LEMMA ClientInitHolds == ApiClientInit => ClientInv
  <1> SUFFICES ASSUME ApiClientInit PROVE ClientInv
    OBVIOUS
  <1>1. owner \in Seq(User) /\ Len(owner) \in {0, 1} /\ DOMAIN owner = 1..Len(owner)
    <2>1. owner = <<>> \/ \E u \in User : owner = <<u>>
      BY DEF ApiClientInit
    <2>2. ASSUME NEW u \in User, owner = <<u>> PROVE owner \in Seq(User) /\ Len(owner) = 1
      BY <2>2
    <2>3. ASSUME owner = <<>> PROVE owner \in Seq(User) /\ Len(owner) = 0
      BY <2>3
    <2>4. owner \in Seq(User) /\ (Len(owner) = 0 \/ Len(owner) = 1)
      BY <2>1, <2>2, <2>3, Zenon
    <2> QED
      BY <2>4
  <1>2. /\ storage = [k \in Keys |-> Len(owner)] /\ access = DOMAIN owner /\ refresh = DOMAIN owner
        /\ status = "closed" /\ user = None /\ fault = "none" /\ excused = FALSE /\ mobile \in BOOLEAN
        /\ call = [c \in Call |-> Idle]
    BY DEF ApiClientInit
  <1>3. storage \in [Keys -> 0..MaxPairs] /\ \A k \in Keys : storage[k] = Len(owner)
    BY <1>1, <1>2, PairsNat
  <1>4. call \in [Call -> CallType] /\ \A c \in Call : call[c] = Idle
    BY <1>2, IdleFacts
  <1>5. ApiClientTypeOK
    <2>1. Len(owner) <= MaxPairs
      BY <1>1, PairsNat
    <2> QED
      BY <1>1, <1>2, <1>3, <1>4, <2>1 DEF ApiClientTypeOK, CallType, Statuses, Faults
  <1>6. ClientTyped
    BY <1>1, <1>3, <1>4, <1>5, IdleFacts DEF ClientTyped
  <1>7. AloneInSection /\ \A c \in Call : CallOK(call[c]) /\ SectionOK(call[c])
    BY <1>4, IdleFacts, SectionPcs DEF AloneInSection, SignsIn, CallOK
  <1>8. Settled
    <2>1. storage["refresh"] # 0 => storage["refresh"] \in refresh
      BY <1>1, <1>2, <1>3, KeysFacts
    <2>2. \A c \in Call : ~ShowsProfile(call[c])
      BY <1>4, IdleFacts
    <2> QED
      BY <1>2, <1>3, <2>1, <2>2, KeysFacts DEF Settled, Used, Fits
  <1> QED
    BY <1>6, <1>7, <1>8 DEF ClientInv

\* A call goes on, and neither what is stored nor what is shown changes.
LEMMA SameKeeps ==
  ASSUME ClientInv, ~excused, NEW c \in Call, NEW q \in CallType, q = call[c], NEW rq \in CallType,
         NEW excuse, Becomes(c, rq, excuse),
         UNCHANGED <<mobile, storage, status, user, owner, access, refresh>>, fault' \in Faults,
         ShowsProfile(rq) <=> ShowsProfile(q),
         ShowsProfile(q) => owner[rq.token] = owner[q.token],
         rq.token <= Len(owner), rq.pc = "login" => rq.user \in User, CallOK(rq),
         rq.op \in SignsIn => q.op \in SignsIn \/ \A d \in Call : call[d].op \notin SignsIn,
         q.pc \notin Section \/ rq.pc \in Section \/ Settled,
         q.pc \in Section \/ rq.pc \notin Section \/ ~Quiet \/ SectionOK(rq),
         q.pc \notin Section \/ SectionOK(rq)
  PROVE ClientInv'
  <1>0. /\ ClientTyped /\ AloneInSection /\ (Quiet => Settled)
        /\ \A d \in Call : CallOK(call[d]) /\ SectionOK(call[d]) /\ call[d] \in CallType
    BY Unexcused
  <1>1. /\ call' \in [Call -> CallType] /\ call'[c] = rq
        /\ \A d \in Call : d # c => call'[d] = call[d]
    BY <1>0, BecomesFacts
  <1>2. ClientTyped'
    BY <1>0, TypedByCall, ClientTypes
  <1> SUFFICES ASSUME ~excused'
               PROVE (AloneInSection /\ (Quiet => Settled)
                      /\ \A d \in Call : CallOK(call[d]) /\ SectionOK(call[d]))'
    BY <1>2 DEF ClientInv
  <1>3. \A a, b \in Call : call'[a].pc \in Section /\ call'[b].pc \in Section => a = b
    BY <1>0, OneInSection
  <1>4. AloneInSection'
    BY <1>0, <1>1, <1>3 DEF AloneInSection
  <1>5. Used' <=> Used
    <2>1. Used => Used'
      BY <1>1 DEF Used
    <2>2. Used' => Used
      BY <1>1 DEF Used
    <2> QED
      BY <2>1, <2>2
  <1>6. \A n : Fits(n)' <=> Fits(n)
    <2>1. \A n : Fits(n) => Fits(n)'
      BY <1>1 DEF Fits
    <2>2. \A n : Fits(n)' => Fits(n)
      BY <1>1 DEF Fits
    <2> QED
      BY <2>1, <2>2
  <1>7. Settled' <=> Settled
    BY <1>5, <1>6 DEF Settled
  <1>8. \A x \in CallType : (CallOK(x)' <=> CallOK(x)) /\ (SectionOK(x)' <=> SectionOK(x))
    BY <1>5, <1>6, <1>7 DEF CallOK, SectionOK
  <1>9. rq.pc \in Section /\ q.pc \notin Section => Quiet
    BY <1>1, <1>3 DEF Quiet
  <1>10. SectionOK(rq)
    BY <1>9, SectionPcs
  <1>11. Quiet' => Settled'
    <2> SUFFICES ASSUME Quiet' PROVE Settled
      BY <1>7
    <2>1. rq.pc \notin Section
      BY <1>1 DEF Quiet
    <2>2. CASE q.pc \in Section
      BY <2>1, <2>2
    <2>3. CASE q.pc \notin Section
      BY <1>0, <1>1, <2>3 DEF Quiet
    <2> QED
      BY <2>2, <2>3
  <1>12. ASSUME NEW d \in Call PROVE (CallOK(call[d]) /\ SectionOK(call[d]))'
    <2>1. PICK x \in CallType : x = call'[d] /\ CallOK(x) /\ SectionOK(x)
      BY <1>0, <1>1, <1>10
    <2>2. CallOK(x)' /\ SectionOK(x)'
      BY <1>8, <2>1
    <2> QED
      BY <2>1, <2>2
  <1> QED
    BY <1>4, <1>11, <1>12

\* An excuse ends what is asked of a behaviour.
LEMMA ExcusedKeeps ==
  ASSUME ClientTyped', excused'
  PROVE ClientInv'
  BY DEF ClientInv

-----------------------------------------------------------------------------
(* ApiClient: steps of the calls that read what is stored.                  *)

\* A call that enters the section without an excuse finds it empty.
LEMMA EntersQuiet ==
  ASSUME ClientTyped, NEW c \in Call, NEW rq \in CallType, NEW excuse, Becomes(c, rq, excuse),
         ~excused', call[c].pc \notin Section, rq.pc \in Section
  PROVE Quiet
  BY BecomesFacts, OneInSection DEF Quiet

LEMMA SendFacts ==
  ASSUME ClientTyped, NEW x \in CallType
  PROVE /\ Send(x) \in CallType /\ Send(x).op = x.op /\ Send(x).pc = "send"
        /\ Send(x).token = storage["access"] /\ Send(x).token <= Len(owner)
  <1>1. PICK n \in 0..MaxPairs : n = storage["access"] /\ n <= Len(owner)
    BY ClientTypes, PairsNat
  <1>2. Send(x) = [x EXCEPT !.pc = "send", !.token = n]
    BY <1>1 DEF Send
  <1> QED
    BY <1>1, <1>2 DEF CallType, Pcs

LEMMA ReadFacts ==
  ASSUME ClientTyped, NEW x \in CallType, x.token <= Len(owner)
  PROVE /\ ReadRefresh(x) \in CallType /\ ReadRefresh(x).op = x.op
        /\ ReadRefresh(x).token <= Len(owner) /\ ReadRefresh(x).pc \in {"revoke", "refresh", "clear"}
        /\ storage["refresh"] # 0 =>
             /\ ReadRefresh(x).token = storage["refresh"]
             /\ ReadRefresh(x).pc = IF x.op = "logout" THEN "revoke" ELSE "refresh"
        /\ storage["refresh"] = 0 =>
             /\ ReadRefresh(x).token = x.token /\ ReadRefresh(x).pc = "clear"
             /\ ReadRefresh(x).keys = Keys
  <1>1. PICK n \in 0..MaxPairs : n = storage["refresh"] /\ n <= Len(owner)
    BY ClientTypes, PairsNat
  <1>2. CASE n # 0
    <2>1. PICK pc \in Pcs : pc = (IF x.op = "logout" THEN "revoke" ELSE "refresh")
      BY DEF Pcs
    <2>2. ReadRefresh(x) = [x EXCEPT !.pc = pc, !.token = n]
      BY <1>1, <1>2, <2>1 DEF ReadRefresh
    <2> QED
      BY <1>1, <1>2, <2>1, <2>2 DEF CallType
  <1>3. CASE n = 0
    <2>1. ReadRefresh(x) = [x EXCEPT !.pc = "clear", !.keys = Keys]
      BY <1>1, <1>3 DEF ReadRefresh
    <2> QED
      BY <1>1, <1>3, <2>1, KeysFacts DEF CallType, Pcs
  <1> QED
    BY <1>2, <1>3

LEMMA ReadNowFacts ==
  ASSUME ClientTyped, NEW x \in CallType, x.token <= Len(owner)
  PROVE /\ ReadNow(x) \in CallType /\ ReadNow(x).op = x.op /\ ReadNow(x).token <= Len(owner)
        /\ ReadNow(x).pc # "login"
        /\ \/ ReadNow(x) = ReadRefresh(x)
           \/ ReadNow(x).pc = "readRefresh" /\ ReadNow(x).token = x.token
  <1>1. CASE mobile
    <2>1. ReadNow(x) = [x EXCEPT !.pc = "readRefresh"]
      BY <1>1 DEF ReadNow
    <2> QED
      BY <2>1 DEF CallType, Pcs
  <1>2. CASE ~mobile
    BY <1>2, ReadFacts DEF ReadNow
  <1> QED
    BY <1>1, <1>2

\* What a call is in the section after it has read, or is about to read, the
\* refresh token.
LEMMA ReadOK ==
  ASSUME ClientInv, ~excused, Settled, NEW x \in CallType, x.token <= Len(owner),
         x.op \in Renews \cup {"logout"}, x.pc # "idle", CallOK(x),
         ShowsProfile(x) => \E d \in Call : x = call[d],
         NEW rq \in CallType, rq.op = x.op,
         rq = ReadRefresh(x) \/ (rq.pc = "readRefresh" /\ rq.token = x.token)
  PROVE /\ rq.pc \in Section /\ CallOK(rq) /\ SectionOK(rq)
        /\ ShowsProfile(rq) <=> ShowsProfile(x)
        /\ ShowsProfile(x) => owner[rq.token] = owner[x.token]
  <1>0. ClientTyped /\ storage["refresh"] \in Nat /\ storage["access"] \in Nat
    BY Unexcused, ClientTypes
  <1>1. x.op \in {"load", "me"} => x.token # 0
    BY DEF CallOK
  <1>2. CASE rq.pc = "readRefresh" /\ rq.token = x.token
    <2>1. rq.pc \in Section /\ SectionOK(rq)
      BY <1>2, SectionPcs DEF SectionOK
    <2>2. CallOK(rq)
      BY <1>1, <1>2 DEF CallOK, Renews
    <2> QED
      BY <1>2, <2>1, <2>2 DEF ShowsProfile
  <1>3. CASE rq = ReadRefresh(x) /\ storage["refresh"] # 0
    <2>1. rq.token = storage["refresh"] /\ rq.pc = IF x.op = "logout" THEN "revoke" ELSE "refresh"
      BY <1>0, <1>3, ReadFacts
    <2>2. rq.pc \in Section /\ SectionOK(rq)
      BY <1>3, <2>1, SectionPcs DEF SectionOK
    <2>3. CallOK(rq)
      BY <1>1, <1>3, <2>1 DEF CallOK, Renews
    <2>4. ShowsProfile(x) => owner[rq.token] = owner[x.token]
      BY <1>3, <2>1 DEF Settled, Fits
    <2> QED
      BY <1>1, <1>3, <2>1, <2>2, <2>3, <2>4 DEF ShowsProfile
  <1>4. CASE rq = ReadRefresh(x) /\ storage["refresh"] = 0
    <2>1. rq.token = x.token /\ rq.pc = "clear" /\ rq.keys = Keys
      BY <1>0, <1>4, ReadFacts
    <2>2. ~Used /\ \A k \in Keys : storage[k] = 0
      BY <1>4, KeysFacts DEF Settled
    <2>3. rq.pc \in Section /\ SectionOK(rq)
      BY <2>1, <2>2, SectionPcs DEF SectionOK
    <2>4. CallOK(rq)
      BY <1>1, <2>1, KeysFacts DEF CallOK, Renews
    <2> QED
      BY <2>1, <2>3, <2>4 DEF ShowsProfile
  <1> QED
    BY <1>2, <1>3, <1>4

LEMMA AnswerExpiredKeeps ==
  ASSUME ClientInv, NEW c \in Call, call[c].pc = "send", Becomes(c, ReadNow(call[c]), FALSE),
         UNCHANGED <<mobile, storage, status, user, owner, access, refresh, fault>>
  PROVE ClientInv' /\ (excused => excused')
  <1>0. ClientTyped
    BY DEF ClientInv
  <1>1. PICK q \in CallType : q = call[c] /\ q.pc = "send" /\ q.token <= Len(owner)
    BY <1>0, ClientTypes
  <1>2. PICK rq \in CallType : /\ rq = ReadNow(q) /\ rq.op = q.op /\ rq.token <= Len(owner)
                               /\ rq.pc # "login"
                               /\ rq = ReadRefresh(q) \/ (rq.pc = "readRefresh" /\ rq.token = q.token)
    BY <1>0, <1>1, ReadNowFacts
  <1>3. Becomes(c, rq, FALSE)
    BY <1>1, <1>2
  <1>4. ClientTyped' /\ (excused => excused')
    BY <1>0, <1>2, <1>3, TypedByCall, BecomesFacts, ClientTypes
  <1> SUFFICES ASSUME ~excused, ~excused' PROVE ClientInv'
    BY <1>4, ExcusedKeeps
  <1>5. CallOK(q) /\ q.pc \notin Section /\ q.op \in Renews
    BY <1>1, Unexcused, SectionPcs DEF CallOK
  <1>6. rq.pc \in Section
    BY <1>0, <1>1, <1>2, ReadFacts, SectionPcs
  <1>7. Settled
    BY <1>0, <1>1, <1>3, <1>5, <1>6, EntersQuiet, Unexcused
  <1>8. /\ CallOK(rq) /\ SectionOK(rq)
        /\ ShowsProfile(rq) <=> ShowsProfile(q)
        /\ ShowsProfile(q) => owner[rq.token] = owner[q.token]
    BY <1>1, <1>2, <1>5, <1>7, ReadOK
  <1> QED
    BY <1>0, <1>1, <1>2, <1>3, <1>5, <1>8, SameKeeps, ClientTypes

LEMMA ReadRefreshTokenKeeps ==
  ASSUME ClientInv, NEW c \in Call, ReadRefreshToken(c)
  PROVE ClientInv' /\ (excused => excused')
  <1>0. /\ ClientTyped
        /\ UNCHANGED <<mobile, storage, status, user, owner, access, refresh, fault>>
    BY DEF ClientInv, ReadRefreshToken, app, api
  <1>1. PICK q \in CallType : q = call[c] /\ q.pc = "readRefresh" /\ q.token <= Len(owner)
    BY <1>0, ClientTypes DEF ReadRefreshToken
  <1>2. PICK rq \in CallType : /\ rq = ReadRefresh(q) /\ rq.op = q.op /\ rq.token <= Len(owner)
                               /\ rq.pc # "login"
    BY <1>0, <1>1, ReadFacts
  <1>3. Becomes(c, rq, FALSE)
    BY <1>1, <1>2 DEF ReadRefreshToken
  <1>4. ClientTyped' /\ (excused => excused')
    BY <1>0, <1>2, <1>3, TypedByCall, BecomesFacts, ClientTypes
  <1> SUFFICES ASSUME ~excused, ~excused' PROVE ClientInv'
    BY <1>4, ExcusedKeeps
  <1>5. CallOK(q) /\ q.pc \in Section /\ q.op \in Renews \cup {"logout"} /\ Settled
    BY <1>1, Unexcused, SectionPcs DEF CallOK, SectionOK
  <1>6. /\ CallOK(rq) /\ SectionOK(rq) /\ rq.pc \in Section
        /\ ShowsProfile(rq) <=> ShowsProfile(q)
        /\ ShowsProfile(q) => owner[rq.token] = owner[q.token]
    BY <1>1, <1>2, <1>5, ReadOK
  <1> QED
    BY <1>0, <1>1, <1>2, <1>3, <1>5, <1>6, SameKeeps, ClientTypes

LEMMA StartLogoutKeeps ==
  ASSUME ClientInv, NEW c \in Call, StartLogout(c)
  PROVE ClientInv' /\ (excused => excused')
  <1>0. /\ ClientTyped /\ call[c] = Idle /\ status = "authenticated"
        /\ UNCHANGED <<mobile, storage, status, user, owner, access, refresh, fault>>
    BY DEF ClientInv, StartLogout, InApp, app, api
  <1>1. PICK x : x = [Idle EXCEPT !.op = "logout", !.pc = "readRefresh"]
    OBVIOUS
  <1>2. PICK y : y = [Idle EXCEPT !.op = "logout"]
    OBVIOUS
  <1>3. /\ x \in CallType /\ x.op = "logout" /\ x.pc = "readRefresh" /\ x.token = 0
        /\ y \in CallType /\ y.op = "logout" /\ y.token = 0
    BY <1>1, <1>2, IdleFacts DEF CallType, Ops, Pcs
  <1>4. ReadRefresh(x) = ReadRefresh(y)
    BY <1>1, <1>2 DEF ReadRefresh, Idle
  <1>5. PICK rq \in CallType : /\ rq = ReadNow(y) /\ rq.op = "logout" /\ rq.token <= Len(owner)
                               /\ rq.pc # "login"
                               /\ rq = ReadRefresh(x) \/ (rq.pc = "readRefresh" /\ rq.token = x.token)
    BY <1>0, <1>3, <1>4, ReadNowFacts, ClientTypes
  <1>6. Becomes(c, rq, FALSE)
    BY <1>2, <1>5 DEF StartLogout
  <1>7. ClientTyped' /\ (excused => excused')
    BY <1>0, <1>5, <1>6, TypedByCall, BecomesFacts, ClientTypes
  <1> SUFFICES ASSUME ~excused, ~excused' PROVE ClientInv'
    BY <1>7, ExcusedKeeps
  <1>8. CallOK(x) /\ ~ShowsProfile(x) /\ x.token <= Len(owner) /\ ~ShowsProfile(Idle)
    BY <1>0, <1>3, IdleFacts, ClientTypes DEF CallOK, ShowsProfile
  <1>9. rq.pc \in Section
    BY <1>0, <1>3, <1>5, <1>8, ReadFacts, SectionPcs
  <1>10. Settled
    BY <1>0, <1>6, <1>9, IdleFacts, EntersQuiet, Unexcused
  <1>11. /\ CallOK(rq) /\ SectionOK(rq) /\ ~ShowsProfile(rq)
    BY <1>3, <1>5, <1>8, <1>10, ReadOK
  <1> QED
    BY <1>0, <1>5, <1>6, <1>8, <1>11, SameKeeps, ClientTypes, IdleFacts DEF SignsIn

-----------------------------------------------------------------------------
(* ApiClient: steps that begin a call, or send it.                          *)

LEMMA StartQueryKeeps ==
  ASSUME ClientInv, NEW c \in Call, StartQuery(c)
  PROVE ClientInv' /\ (excused => excused')
  <1>0. /\ ClientTyped /\ call[c] = Idle /\ status = "authenticated"
        /\ UNCHANGED <<mobile, storage, status, user, owner, access, refresh, fault>>
    BY DEF ClientInv, StartQuery, InApp, app, api
  <1>1. PICK x : x = [Idle EXCEPT !.op = "query"]
    OBVIOUS
  <1>2. x \in CallType /\ x.op = "query"
    BY <1>1, IdleFacts DEF CallType, Ops
  <1>3. PICK rq \in CallType : /\ rq = Send(x) /\ rq.op = "query" /\ rq.pc = "send"
                               /\ rq.token <= Len(owner)
    BY <1>0, <1>2, SendFacts
  <1>4. Becomes(c, rq, FALSE)
    BY <1>1, <1>3 DEF StartQuery
  <1>5. ClientTyped' /\ (excused => excused')
    BY <1>0, <1>3, <1>4, TypedByCall, BecomesFacts, ClientTypes
  <1> SUFFICES ASSUME ~excused, ~excused' PROVE ClientInv'
    BY <1>5, ExcusedKeeps
  <1>6. CallOK(rq) /\ ~ShowsProfile(rq) /\ rq.pc \notin Section
    BY <1>0, <1>3, SectionPcs DEF CallOK, ShowsProfile, Renews
  <1> QED
    BY <1>0, <1>3, <1>4, <1>6, SameKeeps, ClientTypes, IdleFacts DEF SignsIn

LEMMA StartLoginKeeps ==
  ASSUME ClientInv, NEW c \in Call, NEW u \in User, StartLogin(c, u)
  PROVE ClientInv' /\ (excused => excused')
  <1>0. /\ ClientTyped /\ call[c] = Idle /\ status = "unauthenticated" /\ ~Submitting
        /\ UNCHANGED <<mobile, storage, status, user, owner, access, refresh, fault>>
    BY DEF ClientInv, StartLogin, app, api
  <1>1. PICK rq : rq = [[Idle EXCEPT !.op = "login", !.user = u] EXCEPT !.pc = "login"]
    OBVIOUS
  <1>2. rq \in CallType /\ rq.op = "login" /\ rq.pc = "login" /\ rq.token = 0 /\ rq.user = u
    BY <1>1, IdleFacts DEF CallType, Ops, Pcs
  <1>3. Becomes(c, rq, FALSE)
    BY <1>1 DEF StartLogin, Goto
  <1>4. rq.token <= Len(owner)
    BY <1>0, <1>2, ClientTypes
  <1>5. ClientTyped' /\ (excused => excused')
    BY <1>0, <1>2, <1>3, <1>4, TypedByCall, BecomesFacts, ClientTypes
  <1> SUFFICES ASSUME ~excused, ~excused' PROVE ClientInv'
    BY <1>5, ExcusedKeeps
  <1>6. CallOK(rq) /\ ~ShowsProfile(rq) /\ rq.pc \in Section
    BY <1>0, <1>2, SectionPcs DEF CallOK, ShowsProfile
  <1>7. Settled
    BY <1>0, <1>2, <1>3, <1>6, EntersQuiet, Unexcused, IdleFacts
  <1>8. SectionOK(rq)
    BY <1>2, <1>7 DEF SectionOK
  <1>9. \A d \in Call : call[d].op \notin SignsIn
    BY <1>0, Unexcused DEF SignsIn, Submitting, Busy, CallOK
  <1> QED
    BY <1>0, <1>2, <1>3, <1>6, <1>8, <1>9, SameKeeps, ClientTypes, IdleFacts

\* While the app is loading, its profile is the only call.
LEMMA LoadsAlone ==
  ASSUME ClientInv, ~excused, NEW c \in Call, call[c].op = "load"
  PROVE /\ status = "loading" /\ \A d \in Call : d # c => call[d] = Idle
  <1>1. status = "loading" /\ AloneInSection
    BY Unexcused DEF CallOK
  <1>2. ASSUME NEW d \in Call, d # c PROVE call[d] = Idle
    <2>1. call[d] \in CallType /\ CallOK(call[d])
      BY Unexcused
    <2>2. call[d].op # "load"
      BY <1>1, <1>2 DEF AloneInSection, SignsIn
    <2>3. call[d].op = "none"
      BY <1>1, <2>1, <2>2, CallFacts DEF CallOK, Ops
    <2> QED
      BY <2>1, <2>3, CallCases
  <1> QED
    BY <1>1, <1>2

\* What is stored is settled when the call c, that loads the profile, is not in
\* the section, or reads, or exchanges.
LEMMA LoadSettled ==
  ASSUME ClientInv, ~excused, NEW c \in Call, call[c].op = "load", call[c].pc \notin {"save", "clear"}
  PROVE Settled
  <1>1. /\ CallOK(call[c]) /\ SectionOK(call[c]) /\ (Quiet => Settled)
    BY Unexcused
  <1>2. CASE call[c].pc \in Section
    BY <1>1, <1>2, SectionPcs DEF SectionOK
  <1>3. CASE call[c].pc \notin Section
    BY <1>1, <1>3, LoadsAlone, IdleFacts DEF Quiet
  <1> QED
    BY <1>2, <1>3

\* A load that ends without an answer leaves the app loading; what is stored stays.
LEMMA LoadEndsKeeps ==
  ASSUME ClientInv, ~excused, NEW c \in Call, call[c].op = "load", call[c].pc \notin {"save", "clear"},
         NEW rq \in CallType, rq = Idle \/ (rq.op = "load" /\ rq.pc = "send" /\ rq.token = storage["access"]
                                            /\ rq.token # 0),
         NEW excuse, Becomes(c, rq, excuse),
         UNCHANGED <<mobile, storage, status, user, owner, access, refresh>>, fault' \in Faults
  PROVE ClientInv'
  <1>0. /\ ClientTyped /\ AloneInSection /\ status = "loading"
        /\ \A d \in Call : d # c => call[d] = Idle
    BY Unexcused, LoadsAlone
  <1>1. /\ call' \in [Call -> CallType] /\ call'[c] = rq
        /\ \A d \in Call : d # c => call'[d] = Idle
    BY <1>0, BecomesFacts
  <1>2. ClientTyped'
    BY <1>0, TypedByCall, ClientTypes, IdleFacts
  <1>3. Settled
    BY LoadSettled
  <1>4. rq.pc \notin Section /\ CallOK(rq)' /\ SectionOK(rq)'
    <2>1. CASE rq = Idle
      BY <2>1, IdleFacts DEF CallOK, SectionOK
    <2>2. CASE rq # Idle
      BY <1>0, <2>2, SectionPcs DEF CallOK, SectionOK, Renews
    <2> QED
      BY <2>1, <2>2
  <1>5. \A d \in Call : (CallOK(call[d]) /\ SectionOK(call[d]))'
    BY <1>1, <1>4, IdleFacts, SectionPcs DEF CallOK, SectionOK
  <1>6. AloneInSection'
    BY <1>1, IdleFacts, <1>4 DEF AloneInSection, SignsIn
  <1>7. \A d \in Call : ShowsProfile(call'[d]) => call'[d].token = storage["access"]
                                               /\ storage["access"] # 0
    BY <1>1, IdleFacts
  <1>8. Settled'
    <2>1. storage["access"] = storage["refresh"]
      BY <1>3 DEF Settled
    <2>2. Used' => storage["refresh"] # 0
      BY <1>0, <1>7, <2>1 DEF Used
    <2>3. storage["refresh"] # 0 => Fits(storage["refresh"])'
      BY <1>0, <1>3, <1>7, <2>1 DEF Fits, Settled
    <2> QED
      BY <1>0, <2>1, <2>2, <2>3 DEF Settled, Fits
  <1> QED
    BY <1>2, <1>5, <1>6, <1>8 DEF ClientInv

-----------------------------------------------------------------------------
(* ApiClient: steps that answer a call.                                     *)

\* A call ends that shows no profile, outside the section.
LEMMA EndsKeeps ==
  ASSUME ClientInv, ~excused, NEW c \in Call, call[c].pc \notin Section, ~ShowsProfile(call[c]),
         NEW excuse, Becomes(c, Idle, excuse),
         UNCHANGED <<mobile, storage, status, user, owner, access, refresh>>, fault' \in Faults
  PROVE ClientInv'
  <1>1. PICK q \in CallType : q = call[c]
    BY Unexcused
  <1>2. CallOK(Idle) /\ Idle.token <= Len(owner) /\ Idle.op \notin SignsIn
    BY IdleFacts, ClientTypes, Unexcused DEF CallOK, SignsIn
  <1> QED
    BY <1>1, <1>2, IdleFacts, SameKeeps

LEMMA SucceedKeeps ==
  ASSUME ClientInv, NEW c \in Call, call[c].pc \in {"send", "retry"}, call[c].token \in access,
         Succeed(c, call[c].token), UNCHANGED <<mobile, storage, owner, access, refresh, fault>>
  PROVE ClientInv' /\ (excused => excused')
  <1>0. ClientTyped /\ Becomes(c, Idle, FALSE)
    BY DEF ClientInv, Succeed
  <1>1. PICK q \in CallType : q = call[c] /\ q.pc \in {"send", "retry"} /\ q.token \in access
    BY <1>0, ClientTypes
  <1>2. q.token \in DOMAIN owner /\ owner[q.token] \in User
    BY <1>0, <1>1, ClientTypes
  <1>3. /\ q.op \in {"load", "me"} => status' = "authenticated" /\ user' = owner[q.token]
        /\ q.op \notin {"load", "me"} => UNCHANGED <<status, user>>
    BY <1>1 DEF Succeed
  <1>a. status' \in Statuses /\ user' \in User \cup {None} /\ fault' \in Faults
    BY <1>0, <1>2, <1>3, ClientTypes DEF Statuses
  <1>b. Idle \in CallType /\ Idle.token <= Len(owner) /\ Idle.pc # "login"
    BY <1>0, ClientTypes, IdleFacts
  <1>c. excused => excused'
    BY <1>0, <1>b, BecomesFacts
  <1>4. ClientTyped' /\ (excused => excused')
    BY <1>0, <1>a, <1>b, <1>c, TypedByCall
  <1> SUFFICES ASSUME ~excused, ~excused' PROVE ClientInv'
    BY <1>4, ExcusedKeeps
  <1>5. /\ AloneInSection /\ (Quiet => Settled)
        /\ \A d \in Call : CallOK(call[d]) /\ SectionOK(call[d]) /\ call[d] \in CallType
    BY Unexcused
  <1>6. q.pc \notin Section /\ CallOK(q)
    BY <1>1, <1>5, SectionPcs
  <1>7. CASE q.op \notin {"load", "me"}
    <2>1. ~ShowsProfile(q)
      BY <1>7 DEF ShowsProfile
    <2> QED
      BY <1>0, <1>1, <1>3, <1>6, <1>7, <2>1, EndsKeeps, ClientTypes
  <1>8. CASE q.op \in {"load", "me"}
    <2>1. ShowsProfile(q) /\ Used /\ status' = "authenticated" /\ user' = owner[q.token] /\ Used'
          /\ status \in {"loading", "unauthenticated"}
      BY <1>1, <1>3, <1>6, <1>8 DEF ShowsProfile, CallOK, Used
    <2>2. /\ call' \in [Call -> CallType] /\ call'[c] = Idle
          /\ \A d \in Call : d # c => call'[d] = call[d]
      BY <1>0, BecomesFacts, IdleFacts
    <2>3. \A d \in Call : d # c => call[d].op \in {"none", "query"}
      <3>1. ASSUME NEW d \in Call, d # c PROVE call[d].op \in {"none", "query"}
        <4>1. call[d].op \notin SignsIn
          BY <1>1, <1>5, <1>8, <3>1 DEF AloneInSection, SignsIn
        <4>2. call[d].op # "logout"
          BY <1>5, <2>1 DEF CallOK
        <4>3. call[d].op \in Ops
          BY <1>5, CallFacts
        <4> QED
          BY <4>1, <4>2, <4>3 DEF SignsIn, Ops
      <3> QED
        BY <3>1
    <2>4. \A d \in Call : ~ShowsProfile(call'[d])
      BY <2>2, <2>3, IdleFacts DEF ShowsProfile
    <2>5. \A n : Fits(n) => Fits(n)'
      BY <1>1, <2>1, <2>4 DEF Fits
    <2>6. Settled => Settled'
      BY <2>1, <2>5 DEF Settled
    <2>7. AloneInSection' /\ (Quiet' => Quiet)
      BY <1>5, <1>1, <1>6, <2>2, IdleFacts DEF AloneInSection, Quiet, SignsIn
    <2>8. ASSUME NEW d \in Call PROVE (CallOK(call[d]) /\ SectionOK(call[d]))'
      <3>1. CASE d = c
        BY <2>2, <3>1, IdleFacts, SectionPcs DEF CallOK, SectionOK
      <3>2. CASE d # c
        <4>1. PICK x \in CallType : /\ x = call'[d] /\ CallOK(x) /\ SectionOK(x)
                                    /\ x.op \in {"none", "query"}
          BY <1>5, <2>2, <2>3, <3>2
        <4>2. CallOK(x)'
          BY <2>1, <4>1 DEF CallOK
        <4>3. SectionOK(x)'
          <5>1. x.pc # "clear"
            BY <2>1, <4>1 DEF SectionOK
          <5> QED
            BY <2>1, <2>5, <2>6, <4>1, <5>1 DEF SectionOK
        <4> QED
          BY <4>1, <4>2, <4>3
      <3> QED
        BY <3>1, <3>2
    <2> QED
      BY <1>4, <1>5, <2>6, <2>7, <2>8 DEF ClientInv
  <1> QED
    BY <1>7, <1>8

\* An error that is answered: loadProfile ends signed out.
LEMMA RefuseKeeps ==
  ASSUME ClientInv, NEW c \in Call, call[c].pc \in {"send", "retry", "idle"}, call[c] # Idle, Refuse(c),
         UNCHANGED <<mobile, storage, owner, access, refresh>>, fault' \in Faults
  PROVE ClientInv' /\ (excused => excused')
  <1>0. /\ ClientTyped
        /\ Becomes(c, Idle, storage # Empty /\ call[c].op \in {"load", "me"})
    BY DEF ClientInv, Refuse
  <1>1. PICK q \in CallType : q = call[c] /\ q.pc \in {"send", "retry", "idle"} /\ q # Idle
    BY <1>0, ClientTypes
  <1>2. /\ q.op = "load" => status' = "unauthenticated" /\ user' = None
        /\ q.op # "load" => UNCHANGED <<status, user>>
    BY <1>1 DEF Refuse
  <1>3. ClientTyped' /\ (excused => excused')
    BY <1>0, <1>2, TypedByCall, BecomesFacts, ClientTypes, IdleFacts DEF Statuses
  <1> SUFFICES ASSUME ~excused, ~excused' PROVE ClientInv'
    BY <1>3, ExcusedKeeps
  <1>4. CallOK(q) /\ q.pc \notin Section
    BY <1>1, Unexcused, SectionPcs
  <1>5. q.op \in {"load", "me"} => storage = Empty
    BY <1>0, <1>1, BecomesFacts, IdleFacts
  <1>6. ~ShowsProfile(q)
    BY <1>1, <1>4, <1>5, UsedIsStored DEF ShowsProfile
  <1>7. CASE q.op # "load"
    BY <1>0, <1>1, <1>2, <1>4, <1>6, <1>7, EndsKeeps
  <1>8. CASE q.op = "load"
    <2>1. \A d \in Call : d # c => call[d] = Idle
      BY <1>1, <1>8, LoadsAlone
    <2>2. /\ call' \in [Call -> CallType] /\ \A d \in Call : call'[d] = Idle
      BY <1>0, <2>1, BecomesFacts, IdleFacts
    <2>3. storage["access"] = 0 /\ storage["refresh"] = 0 /\ status' = "unauthenticated"
      BY <1>2, <1>5, <1>8, KeysFacts DEF Empty
    <2>4. AloneInSection' /\ \A d \in Call : (CallOK(call[d]) /\ SectionOK(call[d]))'
      BY <2>2, IdleFacts DEF AloneInSection, SignsIn, CallOK, SectionOK
    <2>5. Settled'
      BY <2>2, <2>3, IdleFacts DEF Settled, Used
    <2> QED
      BY <1>3, <2>4, <2>5 DEF ClientInv
  <1> QED
    BY <1>7, <1>8

LEMMA LoadProfileKeeps ==
  ASSUME ClientInv, NEW c \in Call, LoadProfile(c)
  PROVE ClientInv' /\ (excused => excused')
  <1>0. /\ ClientTyped /\ UNCHANGED <<mobile, storage, owner, access, refresh, fault>>
        /\ call[c] = [Idle EXCEPT !.op = "load"]
    BY DEF ClientInv, LoadProfile, api
  <1>1. /\ call[c] \in CallType /\ call[c].op = "load" /\ call[c].pc = "idle" /\ call[c] # Idle
        /\ fault' \in Faults
    BY <1>0, IdleFacts, ClientTypes DEF CallType
  <1>2. CASE storage["access"] = 0
    <2>1. Refuse(c)
      BY <1>2 DEF LoadProfile
    <2> QED
      BY <1>0, <1>1, <1>2, <2>1, RefuseKeeps
  <1>3. CASE storage["access"] # 0
    <2>1. Becomes(c, Send(call[c]), FALSE) /\ UNCHANGED <<status, user>>
      BY <1>3 DEF LoadProfile
    <2>2. PICK rq \in CallType : /\ rq = Send(call[c]) /\ rq.op = "load" /\ rq.pc = "send"
                                 /\ rq.token = storage["access"] /\ rq.token <= Len(owner)
      BY <1>0, <1>1, SendFacts
    <2>3. ClientTyped' /\ (excused => excused')
      BY <1>0, <1>1, <2>1, <2>2, TypedByCall, BecomesFacts, ClientTypes
    <2> SUFFICES ASSUME ~excused, ~excused' PROVE ClientInv'
      BY <2>3, ExcusedKeeps
    <2> QED
      BY <1>0, <1>1, <1>3, <2>1, <2>2, LoadEndsKeeps
  <1> QED
    BY <1>2, <1>3

LEMMA AnswerKeeps ==
  ASSUME ClientInv, NEW c \in Call, Answer(c)
  PROVE ClientInv' /\ (excused => excused')
  <1>1. /\ call[c].pc = "send" /\ UNCHANGED <<mobile, storage, owner, access, refresh, fault>>
    BY DEF Answer, api
  <1>2. CASE call[c].token \in access
    BY <1>1, <1>2, SucceedKeeps DEF Answer
  <1>3. CASE call[c].token \notin access
    BY <1>1, <1>3, AnswerExpiredKeeps DEF Answer
  <1> QED
    BY <1>2, <1>3

LEMMA RetryKeeps ==
  ASSUME ClientInv, NEW c \in Call, Retry(c)
  PROVE ClientInv' /\ (excused => excused')
  <1>1. /\ call[c].pc = "retry" /\ UNCHANGED <<mobile, storage, owner, access, refresh, fault>>
        /\ fault' \in Faults /\ call[c] # Idle
    BY ClientTypes, IdleFacts DEF Retry, api, ClientInv
  <1>2. CASE call[c].token \in access
    BY <1>1, <1>2, SucceedKeeps DEF Retry
  <1>3. CASE call[c].token \notin access
    BY <1>1, <1>3, RefuseKeeps DEF Retry
  <1> QED
    BY <1>2, <1>3

\* A call goes to clear what is stored.
LEMMA ClearingFacts ==
  ASSUME NEW q \in CallType, NEW rq, rq = [q EXCEPT !.pc = "clear", !.keys = Keys]
  PROVE /\ rq \in CallType /\ rq.op = q.op /\ rq.pc = "clear" /\ rq.keys = Keys
        /\ rq.token = q.token /\ rq.user = q.user /\ rq.tries = q.tries
  <1>1. "clear" \in Pcs /\ Keys \in SUBSET Keys
    BY DEF Pcs
  <1> QED
    BY <1>1 DEF CallType

\* A query is repeated.
LEMMA AgainKeeps ==
  ASSUME ClientInv, NEW c \in Call, call[c].pc \in {"send", "refresh", "retry", "login", "revoke"},
         Retried(call[c]), Again(c, FALSE), fault' \in Faults,
         UNCHANGED <<mobile, storage, status, user, owner, access, refresh>>
  PROVE ClientInv' /\ (excused => excused')
  <1>0. ClientTyped
    BY DEF ClientInv
  <1>1. PICK q \in CallType : /\ q = call[c] /\ q.pc \in {"send", "refresh", "retry", "login", "revoke"}
                              /\ q.token <= Len(owner)
    BY <1>0, ClientTypes
  <1>2. PICK n \in 0..2 : n = q.tries + 1 /\ q.op = "query"
    BY <1>1, CallFacts DEF Retried
  <1>3. PICK x : x = [q EXCEPT !.tries = n]
    OBVIOUS
  <1>4. x \in CallType /\ x.op = "query"
    BY <1>2, <1>3 DEF CallType
  <1>5. PICK rq \in CallType : /\ rq = Send(x) /\ rq.op = "query" /\ rq.pc = "send"
                               /\ rq.token <= Len(owner)
    BY <1>0, <1>4, SendFacts
  <1>6. x = [q EXCEPT !.tries = @ + 1]
    BY <1>2, <1>3 DEF CallType
  <1>7. Becomes(c, rq, FALSE)
    BY <1>1, <1>5, <1>6 DEF Again
  <1>8. ClientTyped' /\ (excused => excused')
    BY <1>0, <1>5, <1>7, TypedByCall, BecomesFacts, ClientTypes
  <1> SUFFICES ASSUME ~excused, ~excused' PROVE ClientInv'
    BY <1>8, ExcusedKeeps
  <1>9. CallOK(q) /\ (q.pc \in Section => Settled)
    BY <1>1, Unexcused, SectionPcs DEF SectionOK
  <1>10. CallOK(rq) /\ ~ShowsProfile(q) /\ ~ShowsProfile(rq) /\ rq.pc \notin Section /\ SectionOK(rq)
    BY <1>2, <1>5, <1>9, SectionPcs DEF CallOK, ShowsProfile, Renews
  <1> QED
    BY <1>0, <1>1, <1>5, <1>7, <1>9, <1>10, SameKeeps DEF SignsIn

\* A call ends without an answer that means anything to it.
LEMMA ThrowKeeps ==
  ASSUME ClientInv, NEW c \in Call, call[c].pc \in {"send", "refresh", "retry", "login", "revoke"},
         Throw(c, FALSE), fault' \in Faults, UNCHANGED <<mobile, owner, access, refresh>>
  PROVE ClientInv' /\ (excused => excused')
  <1>0. /\ ClientTyped /\ Throw(c, FALSE) /\ fault' \in Faults
        /\ UNCHANGED <<mobile, storage, status, user, owner, access, refresh>>
    BY DEF ClientInv, Throw, app
  <1>1. PICK q \in CallType : /\ q = call[c] /\ q.pc \in {"send", "refresh", "retry", "login", "revoke"}
                              /\ q.token <= Len(owner)
    BY <1>0, ClientTypes
  <1>2. CASE Retried(q)
    <2>1. Again(c, FALSE)
      BY <1>0, <1>1, <1>2 DEF Throw
    <2> QED
      BY <1>0, <1>1, <1>2, <2>1, AgainKeeps
  <1>3. CASE ~Retried(q) /\ q.op = "logout"
    <2>a. PICK rq : rq = [q EXCEPT !.pc = "clear", !.keys = Keys]
      OBVIOUS
    <2>1. /\ rq \in CallType /\ rq.op = "logout"
          /\ rq.pc = "clear" /\ rq.keys = Keys /\ rq.token = q.token
      BY <1>3, <2>a, ClearingFacts
    <2>2. Becomes(c, rq, FALSE)
      BY <1>0, <1>1, <1>3, <2>a DEF Throw
    <2>3. ClientTyped' /\ (excused => excused')
      BY <1>0, <1>1, <2>1, <2>2, TypedByCall, BecomesFacts, ClientTypes
    <2> SUFFICES ASSUME ~excused, ~excused' PROVE ClientInv'
      BY <2>3, ExcusedKeeps
    <2>4. CallOK(q)
      BY <1>1, Unexcused
    <2>5. CallOK(rq) /\ ~ShowsProfile(q) /\ ~ShowsProfile(rq) /\ rq.pc \in Section /\ SectionOK(rq)
      BY <1>3, <2>1, <2>4, SectionPcs, KeysFacts DEF CallOK, ShowsProfile, SectionOK
    <2> QED
      BY <1>0, <1>1, <1>3, <2>1, <2>2, <2>5, SameKeeps DEF SignsIn
  <1>4. CASE ~Retried(q) /\ q.op # "logout"
    <2>1. PICK excuse : excuse = (FALSE \/ q.op = "me")
      OBVIOUS
    <2>2. Becomes(c, Idle, excuse)
      BY <1>0, <1>1, <1>4, <2>1 DEF Throw
    <2>a. Idle \in CallType /\ Idle.token <= Len(owner) /\ Idle.pc # "login"
      BY <1>0, ClientTypes, IdleFacts
    <2>b. /\ status' \in Statuses /\ user' \in User \cup {None} /\ refresh' \subseteq refresh
      BY <1>0, ClientTypes
    <2>c. ClientTyped'
      BY <1>0, <2>2, <2>a, <2>b, TypedByCall
    <2>d. (excused => excused') /\ (excuse => excused')
      BY <1>0, <2>2, <2>a, BecomesFacts
    <2>3. ClientTyped' /\ (excused => excused') /\ (q.op = "me" => excused')
      BY <2>1, <2>c, <2>d
    <2> SUFFICES ASSUME ~excused, ~excused' PROVE ClientInv'
      BY <2>3, ExcusedKeeps
    <2>4. CASE q.op = "load"
      BY <1>0, <1>1, <2>2, <2>4, LoadEndsKeeps, IdleFacts
    <2>5. CASE q.op # "load"
      <3>1. ~ShowsProfile(q) /\ (q.pc \in Section => Settled)
        BY <1>1, <2>3, <2>5, Unexcused, SectionPcs DEF ShowsProfile, SectionOK
      <3>2. CallOK(Idle) /\ Idle.token <= Len(owner) /\ Idle.op \notin SignsIn /\ SectionOK(Idle)
        BY <1>0, IdleFacts, ClientTypes, SectionPcs DEF CallOK, SignsIn
      <3> QED
        BY <1>0, <1>1, <2>2, <3>1, <3>2, IdleFacts, SameKeeps
    <2> QED
      BY <2>4, <2>5
  <1> QED
    BY <1>2, <1>3, <1>4

LEMMA NetworkErrorKeeps ==
  ASSUME ClientInv, NEW c \in Call, NetworkError(c)
  PROVE ClientInv' /\ (excused => excused')
  <1>1. /\ call[c].pc \in {"send", "refresh", "retry", "login", "revoke"} /\ Throw(c, FALSE)
        /\ fault' \in Faults /\ UNCHANGED <<mobile, owner, access, refresh>>
    BY DEF NetworkError, api, Faults
  <1> QED
    BY <1>1, ThrowKeeps

\* An error that the API answers ends a renewal with an excuse.
LEMMA ServerErrorKeeps ==
  ASSUME ClientInv, NEW c \in Call, ServerError(c)
  PROVE ClientInv' /\ (excused => excused')
  <1>1. ClientTyped /\ UNCHANGED <<mobile, storage, owner, access, refresh>> /\ fault' \in Faults
    BY DEF ClientInv, ServerError, api, Faults
  <1>2. CASE call[c].pc \in {"send", "retry"} /\ Retried(call[c]) /\ Again(c, FALSE) /\ UNCHANGED <<status, user>>
    BY <1>1, <1>2, AgainKeeps
  <1>3. CASE call[c].pc \in {"send", "retry"} /\ Refuse(c)
    <2>1. call[c] # Idle
      BY <1>3, IdleFacts
    <2> QED
      BY <1>1, <1>3, <2>1, RefuseKeeps
  <1>4. CASE /\ call[c].pc = "refresh" /\ UNCHANGED <<status, user>>
             /\ Becomes(c, [call[c] EXCEPT !.pc = "clear", !.keys = Keys], TRUE)
    <2>1. PICK q \in CallType : q = call[c] /\ q.token <= Len(owner)
      BY <1>1, ClientTypes
    <2>2. PICK rq : rq = [q EXCEPT !.pc = "clear", !.keys = Keys]
      OBVIOUS
    <2>3. rq \in CallType /\ rq.pc = "clear" /\ rq.token = q.token
      BY <2>2, ClearingFacts
    <2>4. Becomes(c, rq, TRUE)
      BY <1>4, <2>1, <2>2
    <2>5. ClientTyped' /\ excused'
      BY <1>1, <1>4, <2>1, <2>3, <2>4, TypedByCall, BecomesFacts, ClientTypes
    <2> QED
      BY <2>5, ExcusedKeeps
  <1>5. CASE call[c].pc \in {"login", "revoke"} /\ Throw(c, FALSE)
    BY <1>1, <1>5, ThrowKeeps
  <1> QED
    BY <1>2, <1>3, <1>4, <1>5 DEF ServerError

-----------------------------------------------------------------------------
(* ApiClient: steps that issue a pair of tokens.                            *)

LEMMA IssueFacts ==
  ASSUME ClientTyped, NEW u \in User, Issue(u)
  PROVE /\ owner' \in Seq(User) /\ Len(owner') = Len(owner) + 1 /\ Len(owner') <= MaxPairs
        /\ owner'[Len(owner) + 1] = u /\ \A i \in 1..Len(owner) : owner'[i] = owner[i]
        /\ access' = access \cup {Len(owner) + 1} /\ access' \subseteq DOMAIN owner'
        /\ DOMAIN owner' = 1..(Len(owner) + 1) /\ Len(owner) + 1 \in DOMAIN owner'
  <1>1. /\ owner \in Seq(User) /\ Len(owner) \in Nat /\ Len(owner) < MaxPairs
        /\ owner' = Append(owner, u) /\ access' = access \cup {Len(owner) + 1}
        /\ access \subseteq 1..Len(owner)
    BY ClientTypes DEF Issue
  <1>2. /\ owner' \in Seq(User) /\ Len(owner') = Len(owner) + 1
        /\ owner'[Len(owner) + 1] = u /\ \A i \in 1..Len(owner) : owner'[i] = owner[i]
    BY <1>1
  <1>3. DOMAIN owner' = 1..(Len(owner) + 1)
    BY <1>1, <1>2
  <1>4. Len(owner) + 1 <= MaxPairs /\ Len(owner) + 1 \in 1..(Len(owner) + 1)
    BY <1>1, PairsNat
  <1>5. ASSUME NEW n \in access' PROVE n \in 1..(Len(owner) + 1)
    <2>1. CASE n \in access
      <3>1. n \in 1..Len(owner) /\ Len(owner) \in Nat
        BY <1>1, <2>1
      <3> QED
        BY <3>1
    <2>2. CASE n = Len(owner) + 1
      BY <1>4, <2>2
    <2> QED
      BY <1>1, <2>1, <2>2
  <1> QED
    BY <1>1, <1>2, <1>3, <1>4, <1>5

LEMMA TypedByIssue ==
  ASSUME ClientTyped, NEW u \in User, Issue(u), NEW c \in Call, NEW rq \in CallType, NEW excuse,
         Becomes(c, rq, excuse), rq.token <= Len(owner) + 1, rq.pc # "login", fault' \in Faults,
         UNCHANGED <<mobile, storage, status, user>>, refresh' \subseteq refresh \cup {Len(owner) + 1}
  PROVE ClientTyped'
  <1>1. /\ call' \in [Call -> CallType] /\ call'[c] = rq
        /\ \A d \in Call : d # c => call'[d] = call[d]
        /\ excused' \in BOOLEAN
    BY BecomesFacts
  <1>2. /\ owner' \in Seq(User) /\ Len(owner') = Len(owner) + 1 /\ Len(owner') <= MaxPairs
        /\ access' \subseteq DOMAIN owner' /\ refresh' \subseteq DOMAIN owner'
    BY IssueFacts, ClientTypes
  <1>3. ApiClientTypeOK'
    BY <1>1, <1>2, ClientTypes DEF ApiClientTypeOK, CallType
  <1>4. ASSUME NEW d \in Call PROVE call'[d].token <= Len(owner')
    <2>1. CASE d = c
      BY <1>1, <1>2, <2>1
    <2>2. CASE d # c
      <3>1. /\ call[d].token <= Len(owner) /\ call[d].token \in Nat /\ Len(owner) \in Nat
        BY ClientTypes
      <3> QED
        BY <1>1, <1>2, <2>2, <3>1
    <2> QED
      BY <2>1, <2>2
  <1>5. \A k \in Keys : storage'[k] <= Len(owner')
    BY <1>2, ClientTypes, KeysFacts
  <1>6. \A d \in Call : call'[d].pc = "login" => call'[d].user \in User
    BY <1>1 DEF ClientTyped
  <1> QED
    BY <1>3, <1>4, <1>5, <1>6 DEF ClientTyped

LEMMA SavingFacts ==
  ASSUME ClientTyped, Len(owner) < MaxPairs, NEW q \in CallType
  PROVE /\ Saving(q) \in CallType /\ Saving(q).op = q.op /\ Saving(q).pc = "save"
        /\ Saving(q).token = Len(owner) + 1 /\ Saving(q).keys = Keys
  <1>1. PICK n \in 0..MaxPairs : n = Len(owner) + 1
    BY ClientTypes, PairsNat
  <1>2. Saving(q) = [q EXCEPT !.pc = "save", !.token = n, !.keys = Keys]
    BY <1>1 DEF Saving
  <1> QED
    BY <1>1, <1>2, KeysFacts DEF CallType, Pcs

\* The pair that was issued to the call c is of the account that is shown.
LEMMA IssuedKeeps ==
  ASSUME ClientInv, ~excused, NEW c \in Call, NEW q \in CallType, q = call[c],
         q.pc \in {"refresh", "login"}, NEW u \in User, Issue(u),
         q.pc = "refresh" => u = owner[q.token], Len(owner) + 1 \in refresh',
         Becomes(c, Saving(q), FALSE), UNCHANGED <<storage, status, user>>,
         ClientTyped', ~excused'
  PROVE ClientInv'
  <1>0. /\ ClientTyped /\ AloneInSection /\ CallOK(q) /\ SectionOK(q) /\ Settled
        /\ \A d \in Call : CallOK(call[d]) /\ call[d] \in CallType
    BY Unexcused DEF SectionOK
  <1>1. Len(owner) < MaxPairs /\ Len(owner) \in Nat
    BY <1>0, ClientTypes DEF Issue
  <1>2. PICK rq \in CallType : /\ rq = Saving(q) /\ rq.op = q.op /\ rq.pc = "save"
                               /\ rq.token = Len(owner) + 1 /\ rq.keys = Keys
    BY <1>0, <1>1, SavingFacts
  <1>3. /\ call' \in [Call -> CallType] /\ call'[c] = rq
        /\ \A d \in Call : d # c => call'[d] = call[d]
    BY <1>0, <1>2, BecomesFacts
  <1>4. \A d \in Call : d # c => call'[d].pc \notin Section
    BY <1>0, <1>2, <1>3, OneInSection, SectionPcs
  <1>5. q.op = "login" <=> q.pc = "login"
    BY <1>0 DEF CallOK, Renews
  <1>6. CallOK(rq)'
    BY <1>0, <1>1, <1>2, KeysFacts DEF CallOK
  <1>7. ASSUME NEW d \in Call, d # c, ShowsProfile(call[d])
        PROVE q.op # "login" /\ owner'[call[d].token] = owner[call[d].token] /\ call'[d] = call[d]
              /\ call[d].token \in 1..Len(owner)
    <2>1. q.op # "login"
      BY <1>0, <1>7 DEF ShowsProfile, CallOK, AloneInSection, SignsIn
    <2>2. call[d].token \in 1..Len(owner)
      BY <1>0, <1>7, ClientTypes DEF ShowsProfile
    <2> QED
      BY <1>0, <1>3, <1>7, <2>1, <2>2, IssueFacts
  <1>8. owner'[rq.token] = u
    BY <1>0, <1>2, IssueFacts
  <1>9. q.pc = "refresh" => Used /\ Fits(q.token) /\ storage["access"] # 0 /\ storage["refresh"] # 0
    <2> SUFFICES ASSUME q.pc = "refresh" PROVE Used /\ Fits(q.token) /\ storage["access"] # 0 /\ storage["refresh"] # 0
      OBVIOUS
    <2>1. Fits(q.token) /\ storage["access"] # 0 /\ storage["refresh"] # 0
      BY <1>0 DEF SectionOK, Settled
    <2>2. Used
      <3>1. CASE q.op \in {"load", "me"}
        BY <1>0, <3>1 DEF Used, ShowsProfile, CallOK
      <3>2. CASE q.op = "query"
        BY <1>0, <2>1, <3>2 DEF Used, CallOK, Settled
      <3> QED
        BY <1>0, <3>1, <3>2 DEF CallOK, Renews
    <2> QED
      BY <2>1, <2>2
  <1>10. Fits(rq.token)'
    <2>1. rq.token \in refresh'
      BY <1>2
    <2>2. status = "authenticated" => owner'[rq.token] = user
      BY <1>0, <1>5, <1>8, <1>9 DEF Fits, CallOK
    <2>3. ASSUME NEW d \in Call, ShowsProfile(call'[d]) PROVE owner'[rq.token] = owner'[call'[d].token]
      <3>1. CASE d = c
        BY <1>3, <3>1
      <3>2. CASE d # c
        <4>1. ShowsProfile(call[d])
          BY <1>3, <2>3, <3>2
        <4>2. /\ q.op # "login" /\ owner'[call[d].token] = owner[call[d].token] /\ call'[d] = call[d]
          BY <1>7, <3>2, <4>1
        <4>3. owner[q.token] = owner[call[d].token]
          BY <1>5, <1>9, <4>1, <4>2 DEF Fits
        <4> QED
          BY <1>5, <1>8, <4>2, <4>3
      <3> QED
        BY <3>1, <3>2
    <2> QED
      BY <2>1, <2>2, <2>3 DEF Fits
  <1>11. rq.op # "login" => Used' /\ \A k \in Keys : storage[k] # 0
    <2> SUFFICES ASSUME q.op # "login" PROVE Used' /\ \A k \in Keys : storage[k] # 0
      BY <1>2
    <2>1. \A k \in Keys : storage[k] # 0
      BY <1>5, <1>9, KeysFacts
    <2>2. CASE status = "authenticated"
      BY <2>1, <2>2 DEF Used
    <2>3. ASSUME NEW d \in Call, ShowsProfile(call[d]) PROVE ShowsProfile(call'[d])
      <3>1. CASE d = c
        BY <1>1, <1>2, <1>3, <2>3, <3>1 DEF ShowsProfile
      <3>2. CASE d # c
        BY <1>3, <2>3, <3>2
      <3> QED
        BY <3>1, <3>2
    <2> QED
      BY <1>5, <1>9, <2>1, <2>2, <2>3 DEF Used
  <1>12. SectionOK(rq)'
    BY <1>2, <1>10, <1>11, KeysFacts DEF SectionOK
  <1>13. \A d \in Call : (CallOK(call[d]) /\ SectionOK(call[d]))'
    <2>1. ASSUME NEW d \in Call, d # c PROVE (CallOK(call[d]) /\ SectionOK(call[d]))'
      <3>1. PICK x \in CallType : x = call'[d] /\ CallOK(x) /\ x.pc \notin Section
        BY <1>0, <1>3, <1>4, <2>1
      <3>2. CallOK(x)' /\ SectionOK(x)'
        BY <3>1, SectionPcs DEF CallOK, SectionOK
      <3> QED
        BY <3>1, <3>2
    <2> QED
      BY <1>3, <1>6, <1>12, <2>1
  <1>14. AloneInSection' /\ ~Quiet'
    BY <1>0, <1>2, <1>3, <1>4, SectionPcs DEF AloneInSection, Quiet
  <1> QED
    BY <1>13, <1>14 DEF ClientInv

\* The API issues a pair to the call c, that saves it next.
LEMMA IssuesKeep ==
  ASSUME ClientInv, NEW c \in Call, call[c].pc \in {"refresh", "login"}, NEW u \in User, Issue(u),
         call[c].pc = "refresh" => u = owner[call[c].token],
         refresh' \subseteq refresh \cup {Len(owner) + 1}, Len(owner) + 1 \in refresh',
         Becomes(c, Saving(call[c]), FALSE), UNCHANGED <<mobile, storage, status, user, fault>>
  PROVE ClientInv' /\ (excused => excused')
  <1>0. ClientTyped /\ fault' \in Faults
    BY ClientTypes DEF ClientInv
  <1>1. Len(owner) < MaxPairs /\ Len(owner) \in Nat
    BY <1>0, ClientTypes DEF Issue
  <1>2. PICK q \in CallType : q = call[c]
    BY <1>0, ClientTypes
  <1>3. PICK rq \in CallType : rq = Saving(q) /\ rq.pc = "save" /\ rq.token = Len(owner) + 1
    BY <1>0, <1>1, SavingFacts
  <1>a. rq.token <= Len(owner) + 1 /\ rq.pc # "login"
    BY <1>1, <1>3
  <1>4. Becomes(c, rq, FALSE)
    BY <1>2, <1>3
  <1>5. ClientTyped'
    BY <1>0, <1>a, <1>4, TypedByIssue
  <1>6. excused => excused'
    BY <1>0, <1>4, BecomesFacts
  <1> SUFFICES ASSUME ~excused, ~excused' PROVE ClientInv'
    BY <1>5, <1>6, ExcusedKeeps
  <1> QED
    BY <1>2, <1>5, IssuedKeeps

LEMMA RefreshKeeps ==
  ASSUME ClientInv, NEW c \in Call, Refresh(c)
  PROVE ClientInv' /\ (excused => excused')
  <1>0. /\ ClientTyped /\ UNCHANGED <<mobile, storage, status, user, fault>> /\ call[c].pc = "refresh"
        /\ fault' \in Faults
    BY ClientTypes DEF ClientInv, Refresh, app
  <1>1. CASE call[c].token \in refresh
    <2>1. /\ Issue(owner[call[c].token]) /\ Becomes(c, Saving(call[c]), FALSE)
          /\ refresh' = (refresh \ {call[c].token}) \cup {Len(owner) + 1}
      BY <1>1 DEF Refresh
    <2>2. owner[call[c].token] \in User
      BY <1>0, <1>1, ClientTypes
    <2> QED
      BY <1>0, <2>1, <2>2, IssuesKeep
  <1>2. CASE call[c].token \notin refresh
    <2>1. PICK q \in CallType : q = call[c] /\ q.token <= Len(owner)
      BY <1>0, ClientTypes
    <2>2. PICK rq : rq = [q EXCEPT !.pc = "clear", !.keys = Keys]
      OBVIOUS
    <2>3. rq \in CallType /\ rq.pc = "clear" /\ rq.token = q.token
      BY <2>2, ClearingFacts
    <2>4. Becomes(c, rq, FALSE) /\ UNCHANGED <<owner, access, refresh>>
      BY <1>2, <2>1, <2>2 DEF Refresh, api
    <2>5. ClientTyped' /\ (excused => excused')
      <3>1. status' \in Statuses /\ user' \in User \cup {None} /\ refresh' \subseteq refresh
        BY <1>0, <2>4, ClientTypes
      <3> QED
        BY <1>0, <2>1, <2>3, <2>4, <3>1, TypedByCall, BecomesFacts
    <2>6. ASSUME ~excused PROVE FALSE
      <3>1. SectionOK(call[c])
        BY <2>6, Unexcused
      <3> QED
        BY <1>0, <1>2, <3>1 DEF SectionOK, Settled, Fits
    <2> QED
      BY <2>5, <2>6, ExcusedKeeps
  <1> QED
    BY <1>1, <1>2

LEMMA LoginKeeps ==
  ASSUME ClientInv, NEW c \in Call, Login(c)
  PROVE ClientInv' /\ (excused => excused')
  <1>0. /\ ClientTyped /\ UNCHANGED <<mobile, storage, status, user, fault>> /\ call[c].pc = "login"
        /\ Issue(call[c].user) /\ refresh' = refresh \cup {Len(owner) + 1}
        /\ Becomes(c, Saving(call[c]), FALSE)
    BY DEF ClientInv, Login, app
  <1>1. call[c].user \in User
    BY <1>0 DEF ClientTyped
  <1> QED
    BY <1>0, <1>1, IssuesKeep

\* A lost answer is an excuse.
LEMMA LoseAnswerKeeps ==
  ASSUME ClientInv, NEW c \in Call, LoseAnswer(c)
  PROVE ClientInv' /\ (excused => excused')
  <1>0. /\ ClientTyped /\ Issue(owner[call[c].token]) /\ Throw(c, TRUE) /\ fault' \in Faults
        /\ refresh' = (refresh \ {call[c].token}) \cup {Len(owner) + 1}
        /\ UNCHANGED <<mobile, storage, status, user>> /\ call[c].token \in refresh
    BY DEF ClientInv, LoseAnswer, Throw, app, Meets, Faults
  <1>1. PICK q \in CallType : /\ q = call[c] /\ q.token <= Len(owner)
    BY <1>0, ClientTypes
  <1>2. PICK u \in User : u = owner[call[c].token]
    BY <1>0, ClientTypes
  <1>3. \E rq \in CallType : Becomes(c, rq, TRUE) /\ rq.token <= Len(owner) /\ rq.pc # "login"
    <2>1. CASE Retried(q)
      <3>1. PICK n \in 0..2 : n = q.tries + 1
        BY <2>1, CallFacts DEF Retried
      <3>2. PICK x : x = [q EXCEPT !.tries = n]
        OBVIOUS
      <3>3. x \in CallType
        BY <3>1, <3>2 DEF CallType
      <3>4. x = [q EXCEPT !.tries = @ + 1]
        BY <3>1, <3>2 DEF CallType
      <3>5. Becomes(c, Send(x), TRUE)
        BY <1>0, <1>1, <2>1, <3>4 DEF Throw, Again
      <3> QED
        BY <1>0, <3>3, <3>5, SendFacts
    <2>2. CASE ~Retried(q) /\ q.op = "logout"
      <3>1. PICK rq : rq = [q EXCEPT !.pc = "clear", !.keys = Keys]
        OBVIOUS
      <3>2. rq \in CallType /\ rq.pc = "clear" /\ rq.token = q.token
        BY <3>1, ClearingFacts
      <3>3. Becomes(c, rq, TRUE)
        BY <1>0, <1>1, <2>2, <3>1 DEF Throw
      <3> QED
        BY <1>1, <3>2, <3>3
    <2>3. CASE ~Retried(q) /\ q.op # "logout"
      <3>1. Becomes(c, Idle, TRUE)
        <4>1. Becomes(c, Idle, TRUE \/ q.op = "me")
          BY <1>0, <1>1, <2>3 DEF Throw
        <4>2. (TRUE \/ q.op = "me") = TRUE
          OBVIOUS
        <4> QED
          BY <4>1, <4>2
      <3>2. Idle.token <= Len(owner)
        BY <1>0, IdleFacts, ClientTypes
      <3> QED
        BY <3>1, <3>2, IdleFacts
    <2> QED
      BY <2>1, <2>2, <2>3
  <1>4. PICK rq \in CallType : Becomes(c, rq, TRUE) /\ rq.token <= Len(owner) /\ rq.pc # "login"
    BY <1>3
  <1>5. rq.token <= Len(owner) + 1
    BY <1>0, <1>4, ClientTypes, CallFacts
  <1>6. refresh' \subseteq refresh \cup {Len(owner) + 1}
    BY <1>0
  <1>7. ClientTyped'
    BY <1>0, <1>2, <1>4, <1>5, <1>6, TypedByIssue
  <1>8. excused' /\ (excused => excused')
    BY <1>0, <1>4, BecomesFacts
  <1> QED
    BY <1>7, <1>8, ExcusedKeeps

-----------------------------------------------------------------------------
(* ApiClient: steps that write what is stored.                              *)

\* What one step of the storage writes is some of what the call has to write.
LEMMA WrittenFacts ==
  ASSUME NEW q \in CallType, NEW ks \in Written(q), NEW left, left = [q EXCEPT !.keys = @ \ ks]
  PROVE /\ ks \subseteq q.keys /\ ks \subseteq Keys
        /\ left \in CallType /\ left.op = q.op /\ left.pc = q.pc /\ left.token = q.token
        /\ left.keys = q.keys \ ks
  <1>1. ks \subseteq q.keys
    BY DEF Written
  <1>2. q.keys \subseteq Keys
    BY CallFacts
  <1>3. PICK rest \in SUBSET Keys : rest = q.keys \ ks
    BY <1>2
  <1>4. left = [q EXCEPT !.keys = rest]
    BY <1>3 DEF CallType
  <1> QED
    BY <1>1, <1>2, <1>3, <1>4 DEF CallType

LEMMA StoredFacts ==
  ASSUME ClientTyped, NEW ks \in SUBSET Keys, NEW n \in Nat, n <= Len(owner), storage' = Stored(ks, n)
  PROVE /\ storage' \in [Keys -> 0..MaxPairs]
        /\ \A k \in Keys : storage'[k] = (IF k \in ks THEN n ELSE storage[k])
        /\ \A k \in Keys : storage'[k] <= Len(owner)
  <1>1. storage' = [k \in Keys |-> IF k \in ks THEN n ELSE storage[k]]
    BY DEF Stored
  <1>2. n \in 0..MaxPairs
    BY ClientTypes, PairsNat
  <1>3. \A k \in Keys : storage[k] \in 0..MaxPairs /\ storage[k] <= Len(owner)
    BY ClientTypes DEF ClientTyped
  <1> QED
    BY <1>1, <1>2, <1>3

LEMMA TypedByWrite ==
  ASSUME ClientTyped, NEW c \in Call, NEW rq \in CallType, NEW excuse, Becomes(c, rq, excuse),
         rq.token <= Len(owner), rq.pc # "login", status' \in Statuses, user' \in User \cup {None},
         NEW ks \in SUBSET Keys, NEW n \in Nat, n <= Len(owner), storage' = Stored(ks, n),
         UNCHANGED <<mobile, owner, access, refresh, fault>>
  PROVE ClientTyped'
  <1>1. /\ call' \in [Call -> CallType] /\ call'[c] = rq
        /\ \A d \in Call : d # c => call'[d] = call[d]
        /\ excused' \in BOOLEAN
    BY BecomesFacts
  <1>2. storage' \in [Keys -> 0..MaxPairs] /\ \A k \in Keys : storage'[k] <= Len(owner)
    BY StoredFacts
  <1>3. ApiClientTypeOK'
    BY <1>1, <1>2, ClientTypes DEF ApiClientTypeOK, CallType
  <1> QED
    BY <1>1, <1>2, <1>3 DEF ClientTyped

\* The call in the section goes on; the others are outside it.
LEMMA WritesKeep ==
  ASSUME ClientInv, ~excused, ClientTyped', NEW c \in Call, NEW q \in CallType, q = call[c],
         q.pc \in Section, NEW rq \in CallType, NEW excuse, Becomes(c, rq, excuse), ~excused',
         rq.op = q.op, UNCHANGED status, CallOK(rq), rq.pc \in Section => SectionOK(rq)', rq.pc \notin Section => Settled'
  PROVE ClientInv'
  <1>0. /\ ClientTyped /\ AloneInSection
        /\ \A d \in Call : CallOK(call[d]) /\ SectionOK(call[d]) /\ call[d] \in CallType
    BY Unexcused
  <1>1. /\ call' \in [Call -> CallType] /\ call'[c] = rq
        /\ \A d \in Call : d # c => call'[d] = call[d]
    BY <1>0, BecomesFacts
  <1>2. \A d \in Call : d # c => call'[d].pc \notin Section
    BY <1>0, <1>1 DEF AloneInSection
  <1>3. AloneInSection' /\ (Quiet' => rq.pc \notin Section)
    BY <1>0, <1>1, <1>2 DEF AloneInSection, Quiet
  <1>4. ASSUME NEW d \in Call PROVE (CallOK(call[d]) /\ SectionOK(call[d]))'
    <2>1. CASE d = c
      <3>1. CallOK(rq)'
        BY DEF CallOK
      <3>2. SectionOK(rq)'
        BY SectionPcs DEF SectionOK
      <3> QED
        BY <1>1, <2>1, <3>1, <3>2
    <2>2. CASE d # c
      <3>1. PICK x \in CallType : x = call'[d] /\ CallOK(x) /\ x.pc \notin Section
        BY <1>0, <1>1, <1>2, <2>2
      <3>2. CallOK(x)' /\ SectionOK(x)'
        BY <3>1, SectionPcs DEF CallOK, SectionOK
      <3> QED
        BY <3>1, <3>2
    <2> QED
      BY <2>1, <2>2
  <1> QED
    BY <1>3, <1>4 DEF ClientInv

\* Who is shown does not change with a call that keeps its operation and its token.
LEMMA SameShown ==
  ASSUME NEW c \in Call, NEW rq, call'[c] = rq, \A d \in Call : d # c => call'[d] = call[d],
         rq.op = call[c].op, rq.token = call[c].token, UNCHANGED <<status, user, owner, refresh>>
  PROVE (Used' <=> Used) /\ \A n : Fits(n)' <=> Fits(n)
  <1>1. \A d \in Call : call'[d].token = call[d].token /\ (ShowsProfile(call'[d]) <=> ShowsProfile(call[d]))
    BY DEF ShowsProfile
  <1>2. Used' <=> Used
    BY <1>1 DEF Used
  <1>3. \A n : Fits(n)' <=> Fits(n)
    BY <1>1 DEF Fits
  <1> QED
    BY <1>2, <1>3

LEMMA SaveTokensKeeps ==
  ASSUME ClientInv, NEW c \in Call, SaveTokens(c)
  PROVE ClientInv' /\ (excused => excused')
  <1>0. /\ ClientTyped /\ UNCHANGED <<mobile, status, user, owner, access, refresh, fault>>
    BY DEF ClientInv, SaveTokens, api
  <1>1. PICK q \in CallType : q = call[c] /\ q.pc = "save" /\ q.token \in Nat /\ q.token <= Len(owner)
    BY <1>0, ClientTypes DEF SaveTokens
  <1>a. PICK ks \in Written(q) :
          LET left == [q EXCEPT !.keys = @ \ ks]  IN
          /\ storage' = Stored(ks, q.token)
          /\ IF left.keys # {} THEN Becomes(c, left, FALSE)
             ELSE IF q.op = "login"
               THEN Becomes(c, [left EXCEPT !.op = "me", !.pc = "send", !.token = storage'["access"]], FALSE)
               ELSE Goto(c, left, "retry")
    BY <1>1 DEF SaveTokens
  <1>b. PICK left : left = [q EXCEPT !.keys = @ \ ks]
    OBVIOUS
  <1>2. /\ left = [q EXCEPT !.keys = @ \ ks]
        /\ storage' = Stored(ks, q.token)
        /\ IF left.keys # {} THEN Becomes(c, left, FALSE)
           ELSE IF q.op = "login"
             THEN Becomes(c, [left EXCEPT !.op = "me", !.pc = "send", !.token = storage'["access"]], FALSE)
             ELSE Goto(c, left, "retry")
    BY <1>a, <1>b
  <1>3. /\ ks \subseteq q.keys /\ ks \subseteq Keys
        /\ left \in CallType /\ left.op = q.op /\ left.pc = q.pc /\ left.token = q.token
        /\ left.keys = q.keys \ ks
    BY <1>2, WrittenFacts
  <1>4. \A k \in Keys : storage'[k] = (IF k \in ks THEN q.token ELSE storage[k])
    BY <1>0, <1>1, <1>2, <1>3, StoredFacts
  <1>5. PICK rq :
          rq = IF left.keys # {} THEN left
               ELSE IF q.op = "login"
                 THEN [left EXCEPT !.op = "me", !.pc = "send", !.token = storage'["access"]]
                 ELSE [left EXCEPT !.pc = "retry"]
    OBVIOUS
  <1>6. Becomes(c, rq, FALSE)
    BY <1>2, <1>5 DEF Goto
  <1>7. CASE left.keys = {} /\ q.op = "login"
    <2>1. PICK n \in 0..MaxPairs : n = storage'["access"] /\ n <= Len(owner)
      BY <1>0, <1>1, <1>2, <1>3, StoredFacts, KeysFacts
    <2>2. rq = [left EXCEPT !.op = "me", !.pc = "send", !.token = n]
      BY <1>5, <1>7, <2>1
    <2>3. rq \in CallType /\ rq.op = "me" /\ rq.pc = "send" /\ rq.token = n
      BY <1>3, <2>2 DEF CallType, Ops, Pcs
    <2>4. ClientTyped' /\ (excused => excused')
      <3>1. status' \in Statuses /\ user' \in User \cup {None}
        BY <1>0, ClientTypes
      <3>2. ClientTyped'
        BY <1>0, <1>1, <1>2, <1>3, <1>6, <2>1, <2>3, <3>1, TypedByWrite
      <3> QED
        BY <1>0, <1>6, <2>3, <3>2, BecomesFacts
    <2> SUFFICES ASSUME ~excused, ~excused' PROVE ClientInv'
      BY <2>4, ExcusedKeeps
    <2>5. /\ AloneInSection /\ CallOK(q) /\ SectionOK(q)
          /\ \A d \in Call : CallOK(call[d]) /\ call[d] \in CallType
      BY <1>1, Unexcused
    <2>6. /\ call'[c] = rq /\ \A d \in Call : d # c => call'[d] = call[d]
      BY <1>0, <1>6, <2>3, BecomesFacts
    <2>7. \A d \in Call : d # c => call'[d].pc \notin Section /\ call'[d].op \notin SignsIn
      BY <1>1, <1>7, <2>5, <2>6, SectionPcs DEF AloneInSection, SignsIn
    <2>8. Fits(q.token) /\ status = "unauthenticated" /\ q.token # 0
      <3>1. Fits(q.token) /\ status = "unauthenticated"
        BY <1>1, <1>7, <2>5 DEF SectionOK, CallOK
      <3>2. 0 \notin refresh
        BY <1>0, ClientTypes
      <3> QED
        BY <3>1, <3>2 DEF Fits
    <2>9. \A k \in Keys : storage'[k] = q.token
      BY <1>1, <1>3, <1>4, <1>7, <2>5 DEF SectionOK
    <2>10. rq.token = q.token
      BY <2>1, <2>3, <2>9, KeysFacts
    <2>11. Fits(q.token)'
      BY <1>0, <2>6, <2>7, <2>8, <2>10 DEF Fits, ShowsProfile, SignsIn
    <2>12. Used'
      BY <2>3, <2>6, <2>8, <2>10 DEF Used, ShowsProfile
    <2>13. Settled'
      BY <2>8, <2>9, <2>11, <2>12, KeysFacts DEF Settled
    <2>14. AloneInSection'
      BY <2>3, <2>6, <2>7, SectionPcs DEF AloneInSection
    <2>15. ASSUME NEW d \in Call PROVE (CallOK(call[d]) /\ SectionOK(call[d]))'
      <3>1. CASE d = c
        <4>1. CallOK(rq)'
          BY <1>0, <2>3, <2>8, <2>10 DEF CallOK, Renews
        <4>2. SectionOK(rq)'
          BY <2>3 DEF SectionOK
        <4> QED
          BY <2>6, <3>1, <4>1, <4>2
      <3>2. CASE d # c
        <4>1. PICK x \in CallType : x = call'[d] /\ CallOK(x) /\ x.pc \notin Section
          BY <2>5, <2>6, <2>7, <3>2
        <4>2. CallOK(x)' /\ SectionOK(x)'
          BY <1>0, <4>1, SectionPcs DEF CallOK, SectionOK
        <4> QED
          BY <4>1, <4>2
      <3> QED
        BY <3>1, <3>2
    <2> QED
      BY <2>4, <2>13, <2>14, <2>15 DEF ClientInv
  <1>8. CASE ~(left.keys = {} /\ q.op = "login")
    <2>1. /\ rq \in CallType /\ rq.op = q.op /\ rq.token = q.token /\ rq.keys = left.keys
          /\ rq.pc = IF left.keys # {} THEN "save" ELSE "retry"
      <3>1. CASE left.keys # {}
        BY <1>1, <1>3, <1>5, <3>1
      <3>2. CASE left.keys = {}
        BY <1>3, <1>5, <1>8, <3>2 DEF CallType, Pcs
      <3> QED
        BY <3>1, <3>2
    <2>2. ClientTyped' /\ (excused => excused')
      <3>1. status' \in Statuses /\ user' \in User \cup {None} /\ rq.pc # "login"
        BY <1>0, <2>1, ClientTypes
      <3>2. ClientTyped'
        BY <1>0, <1>1, <1>2, <1>3, <1>6, <2>1, <3>1, TypedByWrite
      <3> QED
        BY <1>0, <1>6, <2>1, <3>2, BecomesFacts
    <2> SUFFICES ASSUME ~excused, ~excused' PROVE ClientInv'
      BY <2>2, ExcusedKeeps
    <2>3. CallOK(q) /\ SectionOK(q)
      BY <1>1, Unexcused
    <2>4. Fits(q.token) /\ q.token # 0
      <3>1. Fits(q.token)
        BY <1>1, <2>3 DEF SectionOK
      <3>2. 0 \notin refresh
        BY <1>0, ClientTypes
      <3> QED
        BY <3>1, <3>2 DEF Fits
    <2>5. /\ call'[c] = rq /\ \A d \in Call : d # c => call'[d] = call[d]
      BY <1>0, <1>6, <2>1, BecomesFacts
    <2>6. (Used' <=> Used) /\ Fits(q.token)'
      BY <1>0, <1>1, <2>1, <2>4, <2>5, SameShown
    <2>7. \A k \in Keys \ left.keys : storage'[k] = q.token
      BY <1>1, <1>3, <1>4, <2>3 DEF SectionOK
    <2>8. q.op # "login" => Used' /\ \A k \in Keys : storage'[k] # 0
      BY <1>1, <1>4, <2>3, <2>4, <2>6 DEF SectionOK
    <2>9. CallOK(rq)
      BY <1>1, <1>8, <2>1, <2>3 DEF CallOK, Renews
    <2>10. rq.pc \in Section => SectionOK(rq)'
      BY <2>1, <2>6, <2>7, <2>8, SectionPcs DEF SectionOK
    <2>11. rq.pc \notin Section => Settled'
      <3> SUFFICES ASSUME rq.pc \notin Section PROVE Settled'
        OBVIOUS
      <3>1. left.keys = {} /\ q.op # "login"
        BY <1>8, <2>1, SectionPcs
      <3>2. storage'["access"] = q.token /\ storage'["refresh"] = q.token
        BY <2>7, <3>1, KeysFacts
      <3> QED
        BY <2>4, <2>6, <2>8, <3>1, <3>2 DEF Settled
    <2>12. q.pc \in Section
      BY <1>1, SectionPcs
    <2> QED
      BY <1>0, <1>1, <1>6, <2>1, <2>2, <2>9, <2>10, <2>11, <2>12, WritesKeep
  <1> QED
    BY <1>7, <1>8

\* The call c has deleted what is stored, and nobody is shown.
LEMMA ClearedKeeps ==
  ASSUME ClientInv, ~excused, ClientTyped', NEW c \in Call, NEW q \in CallType, q = call[c],
         q.pc = "clear", Becomes(c, Idle, FALSE), ~excused', status' = "unauthenticated",
         \A k \in Keys : storage'[k] = 0
  PROVE ClientInv'
  <1>0. /\ ClientTyped /\ AloneInSection /\ CallOK(q) /\ SectionOK(q)
        /\ \A d \in Call : CallOK(call[d]) /\ SectionOK(call[d]) /\ call[d] \in CallType
    BY Unexcused
  <1>1. /\ call'[c] = Idle /\ \A d \in Call : d # c => call'[d] = call[d]
    BY <1>0, BecomesFacts, IdleFacts
  <1>2. \A d \in Call : d # c => call[d].pc \notin Section
    BY <1>0, SectionPcs DEF AloneInSection
  <1>3. status = "authenticated" \/ ~Used
    BY <1>0 DEF CallOK, SectionOK
  <1>4. ASSUME NEW d \in Call, d # c
        PROVE call[d].op \notin {"load", "logout"} /\ ~ShowsProfile(call[d])
    <2>1. CallOK(call[d]) /\ call[d] \in CallType /\ call[d].pc \notin Section
      BY <1>0, <1>2, <1>4
    <2>2. call[d].op # "logout"
      BY <2>1, CallCases
    <2>3. CASE status = "authenticated"
      BY <2>1, <2>2, <2>3 DEF CallOK, ShowsProfile
    <2>4. CASE status # "authenticated"
      <3>1. ~Used /\ q.op \in Renews
        BY <1>0, <1>3, <2>4 DEF CallOK
      <3>2. ~ShowsProfile(call[d]) /\ ~ShowsProfile(q)
        BY <3>1 DEF Used
      <3>3. q.op = "query"
        BY <1>0, <3>1, <3>2 DEF CallOK, Renews, ShowsProfile
      <3>4. call[d].op # "load"
        BY <1>0, <2>1, <3>3 DEF CallOK
      <3> QED
        BY <2>2, <3>2, <3>4
    <2> QED
      BY <2>3, <2>4
  <1>5. \A d \in Call : ~ShowsProfile(call'[d])
    BY <1>1, <1>4, IdleFacts
  <1>6. Settled'
    <2>1. ~Used'
      BY <1>5 DEF Used
    <2> QED
      BY <2>1, KeysFacts DEF Settled
  <1>7. AloneInSection'
    BY <1>0, <1>1, IdleFacts DEF AloneInSection, SignsIn
  <1>8. ASSUME NEW d \in Call PROVE (CallOK(call[d]) /\ SectionOK(call[d]))'
    <2>1. CASE d = c
      BY <1>1, <2>1, IdleFacts, SectionPcs DEF CallOK, SectionOK
    <2>2. CASE d # c
      <3>1. PICK x \in CallType : /\ x = call'[d] /\ CallOK(x) /\ x.pc \notin Section
                                  /\ x.op \notin {"load", "logout"}
        BY <1>0, <1>1, <1>2, <1>4, <2>2
      <3>2. CallOK(x)' /\ SectionOK(x)'
        BY <3>1, SectionPcs DEF CallOK, SectionOK
      <3> QED
        BY <3>1, <3>2
    <2> QED
      BY <2>1, <2>2
  <1> QED
    BY <1>6, <1>7, <1>8 DEF ClientInv

LEMMA ClearKeeps ==
  ASSUME ClientInv, NEW c \in Call, Clear(c)
  PROVE ClientInv' /\ (excused => excused')
  <1>0. /\ ClientTyped /\ UNCHANGED <<mobile, owner, access, refresh, fault>>
    BY DEF ClientInv, Clear, api
  <1>1. PICK q \in CallType : q = call[c] /\ q.pc = "clear" /\ q.token <= Len(owner)
    BY <1>0, ClientTypes DEF Clear
  <1>a. PICK ks \in Written(q) :
          LET left == [q EXCEPT !.keys = @ \ ks]  IN
          /\ storage' = Stored(ks, 0)
          /\ IF left.keys # {}
               THEN Becomes(c, left, FALSE) /\ UNCHANGED <<status, user>>
               ELSE Becomes(c, Idle, FALSE) /\ status' = "unauthenticated" /\ user' = None
    BY <1>1 DEF Clear
  <1>b. PICK left : left = [q EXCEPT !.keys = @ \ ks]
    OBVIOUS
  <1>2. /\ storage' = Stored(ks, 0)
        /\ left.keys # {} => Becomes(c, left, FALSE) /\ UNCHANGED <<status, user>>
        /\ left.keys = {} => Becomes(c, Idle, FALSE) /\ status' = "unauthenticated" /\ user' = None
    BY <1>a, <1>b
  <1>3. /\ ks \subseteq q.keys /\ ks \subseteq Keys
        /\ left \in CallType /\ left.op = q.op /\ left.pc = q.pc /\ left.token = q.token
        /\ left.keys = q.keys \ ks
    BY <1>b, WrittenFacts
  <1>4. 0 \in Nat /\ 0 <= Len(owner)
    BY <1>0, ClientTypes
  <1>5. \A k \in Keys : storage'[k] = (IF k \in ks THEN 0 ELSE storage[k])
    BY <1>0, <1>2, <1>3, <1>4, StoredFacts
  <1>6. CASE left.keys # {}
    <2>1. ClientTyped' /\ (excused => excused')
      <3>1. status' \in Statuses /\ user' \in User \cup {None} /\ left.pc # "login"
        BY <1>0, <1>1, <1>2, <1>3, <1>6, ClientTypes
      <3>2. ClientTyped'
        BY <1>0, <1>1, <1>2, <1>3, <1>4, <1>6, <3>1, TypedByWrite
      <3> QED
        BY <1>0, <1>2, <1>3, <1>6, <3>2, BecomesFacts
    <2> SUFFICES ASSUME ~excused, ~excused' PROVE ClientInv'
      BY <2>1, ExcusedKeeps
    <2>2. CallOK(q) /\ SectionOK(q)
      BY <1>1, Unexcused
    <2>3. /\ call'[c] = left /\ \A d \in Call : d # c => call'[d] = call[d]
      BY <1>0, <1>2, <1>3, <1>6, BecomesFacts
    <2>4. Used' <=> Used
      BY <1>0, <1>1, <1>2, <1>3, <1>6, <2>3, SameShown
    <2>5. \A k \in Keys \ left.keys : storage'[k] = 0
      BY <1>1, <1>3, <1>5, <2>2 DEF SectionOK
    <2>6. q.op # "logout" => ~Used' /\ \A k \in Keys : storage'[k] = 0
      BY <1>1, <1>5, <2>2, <2>4 DEF SectionOK
    <2>7. CallOK(left)
      BY <1>1, <1>3, <1>6, <2>2 DEF CallOK
    <2>8. SectionOK(left)' /\ q.pc \in Section /\ left.pc \in Section
      BY <1>1, <1>3, <2>5, <2>6, SectionPcs DEF SectionOK
    <2> QED
      BY <1>1, <1>2, <1>3, <1>6, <2>1, <2>7, <2>8, WritesKeep
  <1>7. CASE left.keys = {}
    <2>1. ClientTyped' /\ (excused => excused')
      <3>1. status' \in Statuses /\ user' \in User \cup {None} /\ Idle.pc # "login"
            /\ Idle \in CallType /\ Idle.token <= Len(owner)
        BY <1>2, <1>4, <1>7, IdleFacts DEF Statuses
      <3>2. ClientTyped'
        BY <1>0, <1>2, <1>3, <1>4, <1>7, <3>1, TypedByWrite
      <3> QED
        BY <1>0, <1>2, <1>7, <3>1, <3>2, BecomesFacts
    <2> SUFFICES ASSUME ~excused, ~excused' PROVE ClientInv'
      BY <2>1, ExcusedKeeps
    <2>2. SectionOK(q)
      BY <1>1, Unexcused
    <2>3. \A k \in Keys : storage'[k] = 0
      BY <1>1, <1>3, <1>5, <1>7, <2>2 DEF SectionOK
    <2> QED
      BY <1>1, <1>2, <1>7, <2>1, <2>3, ClearedKeeps
  <1> QED
    BY <1>6, <1>7

LEMMA RevokeKeeps ==
  ASSUME ClientInv, NEW c \in Call, Revoke(c)
  PROVE ClientInv' /\ (excused => excused')
  <1>0. /\ ClientTyped /\ UNCHANGED <<mobile, storage, status, user, owner, access, fault>>
        /\ refresh' \subseteq refresh
    BY DEF ClientInv, Revoke, app
  <1>1. PICK q \in CallType : q = call[c] /\ q.pc = "revoke" /\ q.token <= Len(owner)
    BY <1>0, ClientTypes DEF Revoke
  <1>2. PICK rq : rq = [q EXCEPT !.pc = "clear", !.keys = Keys]
    OBVIOUS
  <1>3. rq \in CallType /\ rq.op = q.op /\ rq.pc = "clear" /\ rq.keys = Keys /\ rq.token = q.token
    BY <1>2, ClearingFacts
  <1>4. Becomes(c, rq, FALSE)
    BY <1>1, <1>2 DEF Revoke
  <1>5. ClientTyped' /\ (excused => excused')
    <2>1. status' \in Statuses /\ user' \in User \cup {None} /\ fault' \in Faults
      BY <1>0, ClientTypes
    <2> QED
      BY <1>0, <1>1, <1>3, <1>4, <2>1, TypedByCall, BecomesFacts
  <1> SUFFICES ASSUME ~excused, ~excused' PROVE ClientInv'
    BY <1>5, ExcusedKeeps
  <1>6. CallOK(q) /\ q.pc \in Section
    BY <1>1, Unexcused, SectionPcs
  <1>7. CallOK(rq) /\ SectionOK(rq)' /\ rq.pc \in Section
    BY <1>1, <1>3, <1>6, KeysFacts, SectionPcs DEF CallOK, SectionOK
  <1> QED
    BY <1>0, <1>1, <1>3, <1>4, <1>5, <1>6, <1>7, WritesKeep

-----------------------------------------------------------------------------
(* ApiClient: the app is killed and launched; tokens and sessions end.      *)

LEMMA KillKeeps ==
  ASSUME ClientInv, Kill
  PROVE ClientInv' /\ (excused => excused')
  <1>0. /\ ClientTyped /\ UNCHANGED <<mobile, storage, owner, access, refresh>>
        /\ call' = [c \in Call |-> Idle] /\ status' = "closed" /\ user' = None /\ fault' \in Faults
        /\ excused' = (excused \/ InSection(call) # {})
    BY DEF ClientInv, Kill, api, Meets, Faults
  <1>1. call' \in [Call -> CallType] /\ \A c \in Call : call'[c] = Idle
    BY <1>0, IdleFacts
  <1>2. ApiClientTypeOK'
    BY <1>0, <1>1, ClientTypes DEF ApiClientTypeOK, CallType, Statuses
  <1>3. ClientTyped'
    BY <1>0, <1>1, <1>2, IdleFacts DEF ClientTyped
  <1> SUFFICES ASSUME ~excused, ~excused' PROVE ClientInv'
    BY <1>0, <1>3, ExcusedKeeps
  <1>4. Quiet
    BY <1>0 DEF Quiet, InSection
  <1>5. Settled
    BY <1>4, Unexcused
  <1>6. \A n : Fits(n) => Fits(n)'
    BY <1>0, <1>1, IdleFacts DEF Fits
  <1>7. Settled'
    BY <1>0, <1>1, <1>5, <1>6, IdleFacts DEF Settled, Used
  <1>8. AloneInSection' /\ \A c \in Call : (CallOK(call[c]) /\ SectionOK(call[c]))'
    BY <1>1, IdleFacts DEF AloneInSection, SignsIn, CallOK, SectionOK
  <1> QED
    BY <1>3, <1>7, <1>8 DEF ClientInv

LEMMA LaunchKeeps ==
  ASSUME ClientInv, Launch
  PROVE ClientInv' /\ (excused => excused')
  <1>0. /\ ClientTyped /\ UNCHANGED <<mobile, storage, user, owner, access, refresh, fault, excused>>
        /\ status = "closed" /\ status' = "loading"
    BY DEF ClientInv, Launch, api
  <1>1. PICK rq : rq = [Idle EXCEPT !.op = "load"]
    OBVIOUS
  <1>2. rq \in CallType /\ rq.op = "load" /\ rq.pc = "idle" /\ rq.token = 0
    BY <1>1, IdleFacts DEF CallType, Ops
  <1>3. PICK c \in Call : call' = [call EXCEPT ![c] = rq]
    BY <1>1 DEF Launch
  <1>4. /\ call' \in [Call -> CallType] /\ call'[c] = rq
        /\ \A d \in Call : d # c => call'[d] = call[d]
    BY <1>0, <1>2, <1>3, ClientTypes
  <1>5. ApiClientTypeOK'
    BY <1>0, <1>4, ClientTypes DEF ApiClientTypeOK, CallType, Statuses
  <1>6. ClientTyped'
    <2>1. \A d \in Call : call'[d].token <= Len(owner)
                          /\ (call'[d].pc = "login" => call'[d].user \in User)
      BY <1>0, <1>2, <1>4, ClientTypes DEF ClientTyped
    <2> QED
      BY <1>0, <1>5, <2>1 DEF ClientTyped
  <1> SUFFICES ASSUME ~excused PROVE ClientInv'
    BY <1>0, <1>6, ExcusedKeeps
  <1>7. \A d \in Call : call[d] = Idle
    <2>1. ASSUME NEW d \in Call PROVE call[d] = Idle
      <3>1. call[d] \in CallType /\ CallOK(call[d])
        BY Unexcused
      <3>2. call[d].op = "none"
        BY <1>0, <3>1, CallFacts DEF CallOK, Ops
      <3> QED
        BY <3>1, <3>2, CallCases
    <2> QED
      BY <2>1
  <1>8. Settled
    BY <1>7, Unexcused, IdleFacts DEF Quiet
  <1>9. \A d \in Call : ~ShowsProfile(call'[d]) /\ call'[d].pc = "idle"
    BY <1>2, <1>4, <1>7, IdleFacts DEF ShowsProfile
  <1>10. Settled'
    <2>1. \A n : Fits(n) => Fits(n)'
      BY <1>0, <1>9 DEF Fits
    <2>2. ~Used'
      BY <1>0, <1>9 DEF Used
    <2> QED
      BY <1>0, <1>8, <2>1, <2>2 DEF Settled
  <1>11. AloneInSection'
    BY <1>4, <1>7, <1>9, IdleFacts DEF AloneInSection, SignsIn, Section
  <1>12. ASSUME NEW d \in Call PROVE (CallOK(call[d]) /\ SectionOK(call[d]))'
    <2>1. call'[d] = Idle \/ call'[d] = rq
      BY <1>4, <1>7
    <2> QED
      BY <1>0, <1>1, <1>2, <2>1, IdleFacts DEF CallOK, SectionOK
  <1> QED
    BY <1>6, <1>10, <1>11, <1>12 DEF ClientInv

LEMMA ExpireAccessKeeps ==
  ASSUME ClientInv, ExpireAccess
  PROVE ClientInv' /\ (excused => excused')
  <1>0. /\ ClientTyped /\ access' \subseteq access
        /\ UNCHANGED <<mobile, storage, status, user, call, owner, refresh, fault, excused>>
    BY DEF ClientInv, ExpireAccess, app
  <1>1. ClientTyped'
    <2>1. ApiClientTypeOK'
      BY <1>0, ClientTypes DEF ApiClientTypeOK, CallType
    <2> QED
      BY <1>0, <2>1 DEF ClientTyped
  <1>2. /\ AloneInSection' <=> AloneInSection
        /\ Quiet' <=> Quiet
        /\ Settled' <=> Settled
        /\ \A c \in Call : (CallOK(call[c])' <=> CallOK(call[c])) /\ (SectionOK(call[c])' <=> SectionOK(call[c]))
    BY <1>0 DEF AloneInSection, Quiet, Settled, CallOK, SectionOK, Used, Fits
  <1> QED
    BY <1>0, <1>1, <1>2 DEF ClientInv

LEMMA EndSessionKeeps ==
  ASSUME ClientInv, EndSession
  PROVE ClientInv' /\ (excused => excused')
  <1>0. /\ ClientTyped /\ refresh' = {} /\ excused' = TRUE
        /\ UNCHANGED <<mobile, storage, status, user, call, owner, access, fault>>
    BY DEF ClientInv, EndSession, app
  <1>1. ApiClientTypeOK'
    BY <1>0, ClientTypes DEF ApiClientTypeOK, CallType
  <1>2. ClientTyped'
    BY <1>0, <1>1 DEF ClientTyped
  <1> QED
    BY <1>0, <1>2, ExcusedKeeps

-----------------------------------------------------------------------------
(* ApiClient: the theorems.                                                 *)

\* An excuse stays.
LEMMA ClientStepKeeps ==
  ASSUME ClientInv, [ApiClientNext]_apiClient
  PROVE ClientInv' /\ (excused => excused')
  <1>1. ASSUME NEW c \in Call, Step(c) PROVE ClientInv' /\ (excused => excused')
    BY <1>1, LoadProfileKeeps, AnswerKeeps, ReadRefreshTokenKeeps, RefreshKeeps, LoginKeeps,
       SaveTokensKeeps, RetryKeeps, ClearKeeps, RevokeKeeps DEF Step
  <1>2. ASSUME NEW c \in Call, ServerError(c) \/ NetworkError(c) \/ LoseAnswer(c)
        PROVE ClientInv' /\ (excused => excused')
    BY <1>2, ServerErrorKeeps, NetworkErrorKeeps, LoseAnswerKeeps
  <1>3. ASSUME NewWork PROVE ClientInv' /\ (excused => excused')
    BY <1>3, StartQueryKeeps, StartLogoutKeeps, StartLoginKeeps, KillKeeps, ExpireAccessKeeps,
       EndSessionKeeps DEF NewWork, StartRegister
  <1>4. ASSUME UNCHANGED apiClient PROVE ClientInv' /\ (excused => excused')
    <2>1. UNCHANGED <<mobile, storage, status, user, call, owner, access, refresh, fault, excused>>
      BY <1>4 DEF apiClient, app, api
    <2>2. ClientTyped' <=> ClientTyped
      BY <2>1 DEF ClientTyped, ApiClientTypeOK
    <2>3. /\ AloneInSection' <=> AloneInSection
          /\ Quiet' <=> Quiet
          /\ Settled' <=> Settled
          /\ \A c \in Call : (CallOK(call[c])' <=> CallOK(call[c]))
                             /\ (SectionOK(call[c])' <=> SectionOK(call[c]))
      BY <2>1 DEF AloneInSection, Quiet, Settled, CallOK, SectionOK, Used, Fits
    <2> QED
      BY <2>1, <2>2, <2>3 DEF ClientInv
  <1> QED
    BY <1>1, <1>2, <1>3, <1>4, LaunchKeeps DEF ApiClientNext

\* A step of Apps is a step of the client, or does not touch it.
LEMMA ClientOfApps == [Next]_apps => [ApiClientNext]_apiClient
  BY DEF Next, apps, Client, OfPanel

\* What holds between the stored tokens, the calls in flight, what is shown and
\* the tokens of the API.
THEOREM ClientInvariant == Spec => []ClientInv
  <1>1. Init => ClientInv
    BY ClientInitHolds DEF Init
  <1>2. ClientInv /\ [Next]_apps => ClientInv'
    BY ClientOfApps, ClientStepKeeps
  <1> QED
    BY <1>1, <1>2, PTL DEF Spec

\* Every variable of the client and of the form's page has its type.
THEOREM AppsTypeCorrect == Spec => []AppsTypeOK
  <1>1. ClientInv => ApiClientTypeOK
    BY DEF ClientInv, ClientTyped
  <1>2. PanelInv => PanelTypeOK
    BY DEF PanelInv, PanelTyped
  <1>3. ClientInv /\ PanelInv => AppsTypeOK
    BY <1>1, <1>2 DEF AppsTypeOK
  <1> QED
    BY <1>3, ClientInvariant, PanelInvariant, PTL

\* Before any of the Excuses of ApiClient, what the device stores is what the screen
\* says (AuthProvider and the token storage of both apps): signed in, a pair that
\* the API still exchanges, of the account that is shown; signed out, nothing;
\* whatever calls, renewals, logins and launches came before, and for any number of
\* them.  A logout during a renewal is one of the Excuses: the code then stores the
\* renewed pair on a device that is signed out.
THEOREM StorageIsShown == Spec => []StorageMatches
  <1>1. ASSUME ClientInv, status = "authenticated", ~excused, Quiet
        PROVE /\ storage["refresh"] \in refresh /\ storage["access"] = storage["refresh"]
              /\ owner[storage["access"]] = user
    <2>1. Settled /\ Used
      BY <1>1, Unexcused DEF Used
    <2> QED
      BY <1>1, <2>1 DEF Settled, Fits
  <1>2. ASSUME ClientInv, status = "unauthenticated", ~excused, Quiet, ~Busy("me")
        PROVE storage = Empty
    <2>1. ClientTyped /\ Settled /\ \A c \in Call : CallOK(call[c])
      BY <1>2, Unexcused
    <2>2. ~Used
      BY <1>2, <2>1 DEF Used, ShowsProfile, CallOK, Busy
    <2>3. storage["access"] = 0 /\ storage["refresh"] = 0 /\ storage \in [Keys -> 0..MaxPairs]
      BY <1>2, <2>1, <2>2, ClientTypes DEF Settled
    <2> QED
      BY <2>3, KeysFacts DEF Empty
  <1>3. ClientInv => StorageMatches
    BY <1>1, <1>2 DEF StorageMatches, SessionKept, SignedOutKeepsNothing
  <1> QED
    BY <1>3, ClientInvariant, PTL

\* Nobody is signed out but by a logout or after one of the Excuses of ApiClient:
\* an access token that merely expired never signs out, and neither does a query
\* that is refused or fails.
THEOREM SignOutsHaveReasons == Spec => SignedOutForReason
  <1>1. ASSUME ClientInv, [ApiClientNext]_apiClient, status = "authenticated",
               status' = "unauthenticated", ~excused', ~Busy("logout")
        PROVE FALSE
    <2>0. ~excused
      BY <1>1, ClientStepKeeps
    <2>1. \A c \in Call : CallOK(call[c]) /\ SectionOK(call[c])
      BY <1>1, <2>0, Unexcused
    <2>2. Used
      BY <1>1 DEF Used
    <2>3. ASSUME NEW c \in Call, Refuse(c) PROVE FALSE
      <3>1. call[c].op = "load"
        BY <1>1, <2>3 DEF Refuse
      <3> QED
        BY <1>1, <2>1, <3>1 DEF CallOK
    <2>4. ASSUME NEW c \in Call, Succeed(c, call[c].token) PROVE FALSE
      BY <1>1, <2>4 DEF Succeed
    <2>5. ASSUME NEW c \in Call, Clear(c) PROVE FALSE
      <3>1. call[c].pc = "clear" /\ call[c].op # "logout"
        BY <1>1, <2>5 DEF Clear, Busy
      <3> QED
        BY <2>1, <2>2, <3>1 DEF SectionOK
    <2>6. ASSUME UNCHANGED status PROVE FALSE
      BY <1>1, <2>6
    <2>7. ASSUME NEW c \in Call, LoadProfile(c) \/ Answer(c) \/ Retry(c) \/ ServerError(c) PROVE FALSE
      BY <2>3, <2>4, <2>6, <2>7 DEF LoadProfile, Answer, Retry, ServerError, Throw, app
    <2>8. ASSUME NEW c \in Call,
                 \/ ReadRefreshToken(c) \/ Refresh(c) \/ Login(c) \/ SaveTokens(c) \/ Revoke(c)
                 \/ NetworkError(c) \/ LoseAnswer(c) \/ StartQuery(c) \/ StartLogout(c)
                 \/ \E u \in User : StartLogin(c, u) \/ StartRegister(c, u)
          PROVE FALSE
      BY <2>6, <2>8 DEF ReadRefreshToken, Refresh, Login, SaveTokens, Revoke, NetworkError, LoseAnswer,
         Throw, StartQuery, StartLogout, StartLogin, StartRegister, app
    <2>9. ASSUME Kill \/ Launch PROVE FALSE
      BY <1>1, <2>9 DEF Kill, Launch
    <2>10. ASSUME ExpireAccess \/ EndSession \/ UNCHANGED apiClient PROVE FALSE
      BY <2>6, <2>10 DEF ExpireAccess, EndSession, apiClient, app
    <2> QED
      BY <1>1, <2>5, <2>7, <2>8, <2>9, <2>10 DEF ApiClientNext, Step, NewWork
  <1>2. ClientInv /\ [Next]_apps =>
          [(status = "authenticated" /\ status' = "unauthenticated") =>
             Busy("logout") \/ excused']_apiClient
    BY <1>1, ClientOfApps
  <1> QED
    BY <1>2, ClientInvariant, PTL DEF Spec, SignedOutForReason
=============================================================================
