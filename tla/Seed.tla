-------------------------------- MODULE Seed --------------------------------
(***************************************************************************)
(* prisma/seed.ts: a sequence of upserts without a transaction, run again  *)
(* over a database that administrators have worked with.                   *)
(*                                                                         *)
(* Of each kind of row one stands for all: the course is found by its      *)
(* slug, like the instrument, and hangs under the row that this run found  *)
(* or made; rows found by an id that is written into the script keep the   *)
(* parent they have.  n tells the copies of a row apart.                   *)
(***************************************************************************)
EXTENDS Naturals, Sequences, FiniteSets

CONSTANTS MaxSeeds, MaxCopies, MaxActs   \* bounds: runs, copies of a row, acts of others

ASSUME SeedAssumption == {MaxSeeds, MaxCopies, MaxActs} \subseteq Nat \ {0}

VARIABLES
  rows, keyed,         \* the rows; of each kind the copy with the key that the seed looks for, 0 for none
  altered,              \* rows an administrator has changed
  subscribed,          \* the seed's subscription is ACTIVE
  step, handles,       \* the run: its next upsert, 0 for none; the copies it found or made
  seeds, acts,         \* bounds
  renamed, crossed     \* history: a slug was changed; somebody acted while the seed ran

seed == <<rows, keyed, altered, subscribed, step, handles, seeds, acts, renamed, crossed>>

-----------------------------------------------------------------------------
Order == <<"role", "instrument", "user", "userRole", "plan", "subscription",
           "course", "module", "lesson", "live">>
Kind == {Order[i] : i \in DOMAIN Order}
Parent(k) ==
  CASE k = "userRole" -> "user" [] k = "subscription" -> "plan" [] k = "course" -> "instrument"
    [] k = "module" -> "course" [] k = "lesson" -> "module" [] k = "live" -> "instrument"
    [] OTHER -> "none"

NewRow(k, n, of) == [kind |-> k, n |-> n, of |-> of]
Copies(k) == {r \in rows : r.kind = k}

\* The rows, each with the row it hangs under, and the run that writes them.
SeedTypeOK ==
  /\ \A r \in rows :
       /\ r.kind \in Kind /\ r.n \in 1..MaxCopies /\ r.of \in 0..MaxCopies
       /\ Parent(r.kind) # "none" => \E s \in Copies(Parent(r.kind)) : s.n = r.of
  /\ \A k \in Kind : keyed[k] # 0 => \E r \in Copies(k) : r.n = keyed[k]
  /\ altered \subseteq rows
  /\ step \in 0..Len(Order) /\ handles \in [Kind \cup {"none"} -> 0..MaxCopies]

SeedInit ==
  /\ rows = {} /\ keyed = [k \in Kind |-> 0] /\ altered = {} /\ subscribed = FALSE
  /\ step = 0 /\ handles = [k \in Kind \cup {"none"} |-> 0]
  /\ seeds = 0 /\ acts = 0 /\ renamed = FALSE /\ crossed = FALSE

-----------------------------------------------------------------------------
(* main                                                                     *)

StartSeed ==
  /\ step = 0 /\ seeds < MaxSeeds
  /\ step' = 1 /\ handles' = [k \in Kind \cup {"none"} |-> 0]
  /\ seeds' = seeds + 1 /\ crossed' = FALSE
  /\ UNCHANGED <<rows, keyed, altered, subscribed, acts, renamed>>

Advance == step' = IF step = Len(Order) THEN 0 ELSE step + 1

\* Faulty variant: the subscription, too, is left as it is.
FaultyFound(k) ==
  /\ keyed[k] # 0
  /\ handles' = [handles EXCEPT ![k] = keyed[k]]
  /\ UNCHANGED <<rows, keyed, altered, subscribed>>
\* The row with the key is left as it is, but for the period and the status of
\* the subscription.
Found(k) ==
  /\ keyed[k] # 0
  /\ handles' = [handles EXCEPT ![k] = keyed[k]]
  /\ subscribed' = (subscribed \/ k = "subscription")
  /\ UNCHANGED <<rows, keyed, altered>>

Missing(k) == keyed[k] = 0

\* The new row hangs under the parent of this run; without it the run fails.
Made(k) ==
  LET of == handles[Parent(k)]
      n == CHOOSE m \in 1..MaxCopies : \A r \in Copies(k) : r.n # m
  IN
  /\ Missing(k) /\ Cardinality(Copies(k)) < MaxCopies
  /\ (Parent(k) # "none") => \E r \in Copies(Parent(k)) : r.n = of
  /\ rows' = rows \cup {NewRow(k, n, of)}
  /\ keyed' = [keyed EXCEPT ![k] = n]
  /\ handles' = [handles EXCEPT ![k] = n]
  /\ subscribed' = (subscribed \/ k = "subscription")
  /\ UNCHANGED altered

SeedUpsert ==
  /\ step > 0 /\ Advance
  /\ Found(Order[step]) \/ Made(Order[step])
  /\ UNCHANGED <<seeds, acts, renamed, crossed>>

\* The script ends early: on an error, or killed.
StopSeed ==
  /\ step > 0 /\ step' = 0 /\ crossed' = TRUE
  /\ UNCHANGED <<rows, keyed, altered, subscribed, handles, seeds, acts, renamed>>

-----------------------------------------------------------------------------
(* The API, meanwhile and between two runs.                                 *)

Act ==
  /\ acts < MaxActs /\ acts' = acts + 1
  /\ crossed' = TRUE
  /\ UNCHANGED <<step, handles, seeds>>

Edit ==
  /\ Act /\ \E r \in rows : r.kind \notin {"role", "userRole", "subscription"} /\ altered' = altered \cup {r}
  /\ UNCHANGED <<rows, keyed, subscribed, renamed>>

Rename ==
  /\ Act /\ \E k \in {"instrument", "course"} : keyed[k] # 0 /\ keyed' = [keyed EXCEPT ![k] = 0]
  /\ renamed' = TRUE
  /\ UNCHANGED <<rows, altered, subscribed>>

\* The rows whose foreign key names r.
Under(r) == {s \in rows : Parent(s.kind) = r.kind /\ s.of = r.n}

\* A course takes its modules and lessons with it; an instrument in use stays.
Delete ==
  /\ Act
  /\ \E r \in rows :
       LET gone == {r} \cup Under(r) \cup UNION {Under(s) : s \in Under(r)}  IN
       /\ r.kind \in {"instrument", "userRole", "course", "module", "lesson", "live"}
       /\ r.kind = "instrument" => Under(r) = {}
       /\ rows' = rows \ gone /\ altered' = altered \ gone
       /\ keyed' = [k \in Kind |-> IF \E s \in gone : s.kind = k /\ s.n = keyed[k] THEN 0 ELSE keyed[k]]
  /\ UNCHANGED <<subscribed, renamed>>

\* The student cancels, or the period ends.
EndSubscription ==
  /\ Act /\ subscribed /\ subscribed' = FALSE
  /\ UNCHANGED <<rows, keyed, altered, renamed>>

SeedNext == StartSeed \/ SeedUpsert \/ StopSeed \/ Edit \/ Rename \/ Delete \/ EndSubscription

-----------------------------------------------------------------------------
(* Properties.                                                              *)

\* A run that ends leaves everything the tests and the apps start from, whatever
\* an earlier run that stopped, or an administrator, had left: all the rows, the
\* ACTIVE subscription and, unless a slug was changed, the lesson in the course
\* that is found.
SeedCompletes ==
  [][(step = Len(Order) /\ step' = 0 /\ ~crossed') =>
       /\ \A k \in Kind : keyed'[k] # 0
       /\ subscribed'
       /\ ~renamed => \A r \in rows' : Parent(r.kind) # "none" => r.of = keyed'[Parent(r.kind)]]_seed

\* Running it again makes no second row, unless the first one has lost its slug.
OneOfEach == ~renamed => \A k \in Kind : Cardinality(Copies(k)) <= 1

\* What an administrator changed stays changed.
EditsKept == [][acts' = acts => altered \subseteq altered']_seed

\* The seed may be run again at any time.
SeedRepeatable == SeedCompletes /\ []OneOfEach /\ EditsKept
=============================================================================
