---------------------------- MODULE ClaimValidity ----------------------------
(* Whether the code under a claim has moved: claims bound to the commit they *)
(* were observed at, pulls that measure them against each clone's default    *)
(* branch, and the hub that keeps one reading a claim and derives its state. *)
(* Sources: server/src/services/{claim-revalidations,claim-validity,         *)
(* record-handlers}.ts, connector-core/src/flows/claim-revalidation.ts,      *)
(* git/claim-drift.ts, mcp/tools/get-diagnosis.ts and cli/revalidate.ts.     *)
(*                                                                           *)
(* One work context of one repository, and clones of that repository; claims *)
(* are created in the order they are written, and the author's words decide  *)
(* what the same claim is (no embedder).  The basis, the commits a reading   *)
(* lists and the hub's counters are left out.                                *)
EXTENDS Integers, Sequences, FiniteSets, FiniteSetsExt, Functions, TLC

CONSTANTS
  Dev,
  Claim,
  Path,       \* numbered as the hub sorts them
  Cap,        \* MAX_CLAIM_SURFACE_PATHS
  MaxGroups,  \* REVALIDATION_GROUPS_PER_PULL
  Casts,      \* bound: the claims that come to be written, what each says, the paths
              \* each commit of the default branch touches and how many it starts with,
              \* the paths it holds, the files the work context comes to name, which
              \* claim revises which, whose clone moves, and who pulls and how
  None

Brief == [author : Dev, words : Claim, declares : SUBSET Path,
          stated : BOOLEAN,     \* the connector sends the commit it was observed at
          retracted : BOOLEAN,
          guest : BOOLEAN]      \* by a session that works in another repository

Results == {"changed", "unchanged", "unknown"}

\* A row of claim_revalidations.  History: the ref and the files it was measured
\* against, and whether the check overlooked what the cap dropped of them.
Readings == [result : Results, ref : Nat, fresh : BOOLEAN, of : SUBSET Path,
             overlooked : BOOLEAN]

ASSUME ValidityAssumption ==
  /\ Path \subseteq Nat /\ Cap \in Nat \ {0} /\ MaxGroups \in Nat \ {0}
  /\ None \notin Claim \cup Readings
  /\ \A cast \in Casts :
       /\ DOMAIN cast.about \subseteq Claim
       /\ \A c \in DOMAIN cast.about :
            cast.about[c] \in Brief /\ Cardinality(cast.about[c].declares) <= Cap
       /\ cast.touches \in Seq(SUBSET cast.tracked) /\ cast.start \in 0..Len(cast.touches)
       /\ cast.tracked \subseteq Path /\ cast.files \subseteq Path
       /\ cast.revises \subseteq (DOMAIN cast.about) \X (DOMAIN cast.about)
       /\ cast.moves \subseteq Dev /\ cast.asks \subseteq Dev \X {"mcp", "cli"}

VARIABLES
  cast,
  main,        \* the newest commit of the default branch, 0 for none
  ref,         \* [Dev -> the commit the clone's default ref names, 0 for no ref]
  head,        \* [Dev -> the commit checked out, 0 for NO_COMMIT_SHA]
  base,        \* [Dev -> base_commit of the developer's session on the hub]
  written,     \* the claims in the order of their createdAt
  seen,        \* [claim -> the commit it was observed at]
  answer,      \* [claim -> the id the hub answered its record with, or None]
  bound,       \* [claim -> its observed_at_commit and commit_binding, or None]
  files,       \* the work context's file targets
  superseded,  \* what supersedes edges point at
  reading,     \* [claim -> its row of claim_revalidations, or None]
  pull         \* [Dev -> the get_diagnosis or revalidate that runs there]

clones == <<main, ref, head>>
records == <<base, written, seen, answer, bound>>
tree == <<files, superseded>>
vars == <<cast, clones, records, tree, reading, pull>>

Claims == DOMAIN cast.about
About(c) == cast.about[c]
Stored == {c \in Claims : answer[c] = c}

NoPull == [pc |-> "idle", ref |-> 0, plan |-> {}, files |-> {}, overlooked |-> {},
           found |-> [c \in {} |-> None]]

Init ==
  /\ cast \in Casts /\ main = cast.start
  /\ ref = [d \in Dev |-> 0] /\ head = [d \in Dev |-> main] /\ base = head
  /\ written = <<>> /\ seen = [c \in Claims |-> 0]
  /\ answer = [c \in Claims |-> None] /\ bound = [c \in Claims |-> None]
  /\ files = {} /\ superseded = {}
  /\ reading = [c \in Claims |-> None] /\ pull = [d \in Dev |-> NoPull]

-----------------------------------------------------------------------------
(* The default branch and the clones of it.                                 *)

Land ==
  /\ main < Len(cast.touches) /\ main' = main + 1
  /\ UNCHANGED <<cast, ref, head, records, tree, reading, pull>>

FetchOrigin(d) ==
  /\ d \in cast.moves \cup {ask[1] : ask \in cast.asks}
  /\ ref[d] # main /\ ref' = [ref EXCEPT ![d] = main]
  /\ UNCHANGED <<cast, main, head, records, tree, reading, pull>>

Checkout(d) ==
  /\ d \in cast.moves
  /\ \E n \in 1..ref[d] : n # head[d] /\ head' = [head EXCEPT ![d] = n]
  /\ UNCHANGED <<cast, main, ref, records, tree, reading, pull>>

\* registerSession again: "checkouts are normal".
Register(d) ==
  /\ base[d] # head[d] /\ base' = [base EXCEPT ![d] = head[d]]
  /\ UNCHANGED <<cast, clones, written, seen, answer, bound, tree, reading, pull>>

-----------------------------------------------------------------------------
(* Claims and edges, from the connector to the hub.                         *)

Write(c) ==
  /\ c \notin Range(written)
  /\ written' = Append(written, c)
  /\ seen' = [seen EXCEPT ![c] = head[About(c).author]]
  /\ UNCHANGED <<cast, clones, base, answer, bound, tree, reading, pull>>

Binding(at, kind) ==
  IF at = 0 THEN [at |-> 0, kind |-> "none"] ELSE [at |-> at, kind |-> kind]

\* resolveCommitBinding
CommitBinding(c) ==
  IF About(c).stated THEN Binding(seen[c], "reported")
                     ELSE Binding(base[About(c).author], "session_base")

\* findDedupMatch: the author said so before, in these words and with this status.
DedupMatch(c) ==
  {o \in Stored : \A part \in {"author", "words", "retracted"} : About(o)[part] = About(c)[part]}

IngestClaim(c) ==
  /\ c \in Range(written) /\ answer[c] = None
  /\ \/ /\ DedupMatch(c) = {}
        /\ answer' = [answer EXCEPT ![c] = c]
        /\ bound' = [bound EXCEPT ![c] = CommitBinding(c)]
     \/ \E o \in DedupMatch(c) : answer' = [answer EXCEPT ![c] = o] /\ UNCHANGED bound
  /\ UNCHANGED <<cast, clones, base, written, seen, tree, reading, pull>>

\* A supersedes edge: both claims are there, and of one author.
IngestEdge(new, old) ==
  /\ <<new, old>> \in cast.revises /\ {new, old} \subseteq Stored
  /\ About(new).author = About(old).author /\ old \notin superseded
  /\ superseded' = superseded \cup {old}
  /\ UNCHANGED <<cast, clones, records, files, reading, pull>>

AddTarget(p) ==
  /\ p \in cast.files \ files /\ files' = files \cup {p}
  /\ UNCHANGED <<cast, clones, records, superseded, reading, pull>>

\* A reading passes CLAIM_REVALIDATION_RETENTION_DAYS.
Expire(c) ==
  /\ reading[c] # None /\ reading[c].fresh
  /\ reading' = [reading EXCEPT ![c].fresh = FALSE]
  /\ UNCHANGED <<cast, clones, records, tree, pull>>

-----------------------------------------------------------------------------
(* claim-validity.ts: the state is derived whenever it is read.             *)

\* loadRevalidations: age retires what carries no downgrade.
Readable(rows, c) == rows[c] # None /\ (rows[c].fresh \/ rows[c].result = "changed")

\* resolveState
StateUnder(rows, c) ==
  IF c \in superseded THEN "superseded"
  ELSE IF About(c).retracted THEN "invalidated"
  ELSE IF bound[c].kind = "none" \/ ~Readable(rows, c) THEN "unknown"
  ELSE IF rows[c].result = "changed" THEN "stale"
  ELSE IF rows[c].result = "unchanged" THEN "current" ELSE "unknown"

State(c) == StateUnder(reading, c)
NonCurrent == {"stale", "invalidated", "superseded"}

\* isAssertableValidity: may the claim's body reach a reader who did not ask?
Assertable(c) == bound[c].kind # "none" /\ State(c) \notin NonCurrent

-----------------------------------------------------------------------------
(* planClaimRevalidation                                                    *)

Capped(paths) == {p \in paths : Cardinality({q \in paths : q < p}) < Cap}

Declared(c) == About(c).declares # {}
Surface(c) == IF Declared(c) THEN About(c).declares ELSE Capped(files)
Dropped(c) == IF Declared(c) THEN {} ELSE files \ Capped(files)

Measurable == {c \in Stored : bound[c].kind # "none" /\ Surface(c) # {}}
PlaceOf(c) == CHOOSE i \in DOMAIN written : written[i] = c

\* Seeded fault: claims of one surface share a check whatever their commits.
KeyBySurface(c) == [at |-> Min({bound[o].at : o \in {m \in Measurable : Surface(m) = Surface(c)}}),
                    guest |-> About(c).guest, paths |-> Surface(c)]

GroupKey(c) == [at |-> bound[c].at, guest |-> About(c).guest, paths |-> Surface(c)]
Group(key) == {c \in Measurable : GroupKey(c) = key}

\* The first claim of a group brings the paths the cap dropped for all of it.
Lead(key) == CHOOSE c \in Group(key) : \A o \in Group(key) : PlaceOf(c) <= PlaceOf(o)

\* History: claims checked under a lead that the cap left whole, though it dropped
\* files of theirs: groupKey has the files that are left, not those dropped.
Overlooked == {c \in Measurable : Dropped(c) # {} /\ Dropped(Lead(GroupKey(c))) = {}}

NewestAt(key) == Max({PlaceOf(c) : c \in Group(key)})

Plan ==
  LET keys == {GroupKey(c) : c \in Measurable}
      taken(k) == Cardinality({o \in keys : NewestAt(o) > NewestAt(k)}) < MaxGroups IN
  {[at |-> k.at, guest |-> k.guest, paths |-> k.paths,
    dropped |-> Dropped(Lead(k)), claims |-> Group(k)] : k \in {k \in keys : taken(k)}}

-----------------------------------------------------------------------------
(* A pull: get_diagnosis fetches the tree and then names the ref's commit,  *)
(* `crosscheck revalidate` the other way round.  A pull that dies does not  *)
(* report, or reports and does not hear.                                    *)

At(d, pc) == pull[d].pc = pc
Step(d, next) == pull' = [pull EXCEPT ![d] = next]

Asked(d, kind) == At(d, "idle") /\ <<d, kind>> \in cast.asks

\* What of the tree, as the hub hands it out, there is to measure.
Fetched(d, then) ==
  IF Plan = {} THEN NoPull
  ELSE [pull[d] EXCEPT !.pc = then, !.plan = Plan, !.files = files, !.overlooked = Overlooked]

FetchDiagnosis(d) ==
  /\ Asked(d, "mcp") /\ Plan # {} /\ Step(d, Fetched(d, "fetched"))
  /\ UNCHANGED <<cast, clones, records, tree, reading>>

\* resolveRefCommit, once a pull
NameRef(d) ==
  /\ At(d, "fetched") /\ ref[d] # 0
  /\ Step(d, [pull[d] EXCEPT !.pc = "resolved", !.ref = ref[d]])
  /\ UNCHANGED <<cast, clones, records, tree, reading>>

\* No default ref, or git does not say.
NoDefaultRef(d) ==
  /\ At(d, "fetched") /\ Step(d, NoPull)
  /\ UNCHANGED <<cast, clones, records, tree, reading>>

RunRevalidate(d) ==
  /\ Asked(d, "cli") /\ ref[d] # 0
  /\ Step(d, [NoPull EXCEPT !.pc = "walking", !.ref = ref[d]])
  /\ UNCHANGED <<cast, clones, records, tree, reading>>

WalkTree(d) ==
  /\ At(d, "walking") /\ Step(d, Fetched(d, "resolved"))
  /\ UNCHANGED <<cast, clones, records, tree, reading>>

Touching(at, to, paths) == {n \in (at + 1)..to : cast.touches[n] \cap paths # {}}

\* Seeded fault: what the cap dropped is forgotten.
DriftOfKept(group, to) ==
  IF group.guest THEN "unknown"
  ELSE IF Touching(group.at, to, group.paths) # {} THEN "changed"
  ELSE IF group.paths \cap cast.tracked # {} THEN "unchanged" ELSE "unknown"

\* checkClaimDrift, when git answers: a narrowed surface may confirm a change
\* and never its absence, and a clone does not hold another repository's commits.
Drift(group, to) ==
  IF group.guest THEN "unknown"
  ELSE IF Touching(group.at, to, group.paths) # {} THEN "changed"
  ELSE IF group.paths \cap cast.tracked # {} /\ group.dropped = {} THEN "unchanged"
  ELSE "unknown"

\* readClaimDrift: git declines to answer about some of the groups.
Verdicts(d, failed) ==
  [c \in UNION {g.claims : g \in pull[d].plan} |->
     LET g == CHOOSE g \in pull[d].plan : c \in g.claims IN
     IF g \in failed THEN "unknown" ELSE Drift(g, pull[d].ref)]

Measure(d) ==
  /\ At(d, "resolved")
  /\ \E failed \in SUBSET pull[d].plan :
       Step(d, [pull[d] EXCEPT !.pc = "measured", !.plan = {}, !.found = Verdicts(d, failed)])
  /\ UNCHANGED <<cast, clones, records, tree, reading>>

-----------------------------------------------------------------------------
(* claim-revalidations.ts                                                   *)

\* The rule of setWhere.
Wins(old, result) == old = None \/ old.result # "changed" \/ result = "changed"

\* One entry's upsert.
Upsert(d, c) ==
  LET old == reading[c]
      result == pull[d].found[c] IN
  IF bound[c].kind = "none" \/ ~Wins(old, result) THEN old
  ELSE [result |-> result, ref |-> pull[d].ref, fresh |-> TRUE,
        of |-> IF Declared(c) THEN About(c).declares ELSE pull[d].files,
        overlooked |-> c \in pull[d].overlooked]

\* Seeded fault: every reading past its retention is deleted.
PruneAll(row) == IF row # None /\ ~row.fresh THEN None ELSE row

\* Retention runs last, and never over a measured downgrade.
Prune(row) == IF row # None /\ ~row.fresh /\ row.result # "changed" THEN None ELSE row

\* ingestClaimRevalidations, one transaction
Ingested(d) ==
  [c \in Claims |-> Prune(IF c \in DOMAIN pull[d].found THEN Upsert(d, c) ELSE reading[c])]

\* unknownClaimIds refuses the whole report for one claim of another repository.
Accepted(d) == \A c \in DOMAIN pull[d].found : ~About(c).guest

\* The report reaches the hub, or is refused or lost; its answer, the states the
\* reader is then shown, changes nothing here.
Report(d) ==
  /\ At(d, "measured") /\ Step(d, NoPull)
  /\ \/ UNCHANGED reading
     \/ Accepted(d) /\ reading' = Ingested(d)
  /\ UNCHANGED <<cast, clones, records, tree>>

Pull(d) ==
  \/ FetchDiagnosis(d) \/ NameRef(d) \/ NoDefaultRef(d)
  \/ RunRevalidate(d) \/ WalkTree(d)
  \/ Measure(d) \/ Report(d)

Next ==
  \/ Land
  \/ \E d \in Dev : FetchOrigin(d) \/ Checkout(d) \/ Register(d) \/ Pull(d)
  \/ \E c \in Claims : Write(c) \/ IngestClaim(c) \/ Expire(c)
  \/ \E new, old \in Claims : IngestEdge(new, old)
  \/ \E p \in Path : AddTarget(p)

Spec == Init /\ [][Next]_vars

-----------------------------------------------------------------------------
(* Properties.                                                              *)

Bindings == [at : Nat, kind : {"none", "reported", "session_base"}]
Groups == [at : Nat, guest : BOOLEAN, paths : SUBSET Path, dropped : SUBSET Path,
           claims : SUBSET Claims]
Pulls == [pc : {"idle", "fetched", "walking", "resolved", "measured"}, ref : Nat,
          plan : SUBSET Groups, files : SUBSET Path, overlooked : SUBSET Claims,
          found : UNION {[S -> Results] : S \in SUBSET Claims}]

\* What the variables hold.
TypeOK ==
  /\ cast \in Casts /\ main \in 0..Len(cast.touches)
  /\ ref \in [Dev -> Nat] /\ head \in [Dev -> Nat] /\ base \in [Dev -> Nat]
  /\ written \in Seq(Claims) /\ seen \in [Claims -> Nat]
  /\ answer \in [Claims -> Claims \cup {None}]
  /\ bound \in [Claims -> Bindings \cup {None}]
  /\ \A c \in Stored : bound[c] \in Bindings
  /\ files \in SUBSET Path /\ superseded \in SUBSET Claims
  /\ reading \in [Claims -> Readings \cup {None}] /\ pull \in [Dev -> Pulls]

\* What the claim has to hold up against: since it was observed, or, where the
\* record does not say, since the commit the hub took for it.
Since(c) == IF About(c).stated THEN seen[c] ELSE bound[c].at

\* `current` is earned: a claim is never called current (claim-validity.ts:202)
\* unless no commit up to the ref it was measured against touched any file it
\* was about, whoever measured it, from whatever clone, whatever arrived since;
\* but for a claim that shared its check with one of which the cap dropped
\* nothing (claim-revalidation.ts:165-179 keeps the first claim's count).  There
\* "the cut travels with the group" (:216) is not so, and files that were never
\* looked at pass for untouched.
CurrentIsEarned ==
  \A c \in Stored : State(c) = "current" =>
    /\ Since(c) # 0
    /\ reading[c].overlooked \/ Touching(Since(c), reading[c].ref, reading[c].of) = {}

\* A claim is never called stale (claim-validity.ts:199) but for a commit of the
\* default branch that came after it and touched a file it was about: the
\* downgrade cannot be taken back, so it must not be wrong.
StaleIsDeserved ==
  \A c \in Stored : State(c) = "stale" => Touching(Since(c), main, reading[c].of) # {}

\* A claim that may not be asserted is never asserted again, whatever order the
\* reports arrive in and however old its row is (claim-revalidations.ts:273).
DowngradeStands ==
  [][\A c \in Stored : ~Assertable(c) => ~Assertable(c)']_vars
=============================================================================
