--------------------------- MODULE LandedNotices ----------------------------
(***************************************************************************)
(* The hub's author's notices (server/src/services/landed-notices.ts).  A  *)
(* reader whose edit was stopped at somebody's landed commit spools a stop;*)
(* the hub keeps one row per reader and commit until its author was told,  *)
(* or seven days after the latest stop.                                    *)
(*                                                                         *)
(* Stops are spooled on the reader's machine and may arrive late, twice and*)
(* in any order.  A commit stands for a commit at one path.                *)
(***************************************************************************)
EXTENDS HubClock, FiniteSets, Sequences

CONSTANTS
  Readers,    \* teammates whose edits may be stopped
  Commits,    \* a landed commit, at the path the stop was about
  AuthorOf,   \* the developer its address belongs to
  NoticeTTL,  \* LANDED_NOTICE_TTL_DAYS
  PairCap     \* LANDED_NOTICE_MAX_PER_PAIR

ASSUME LandedNoticesAssumption ==
    /\ DOMAIN AuthorOf = Commits
    /\ {NoticeTTL, PairCap} \subseteq Nat \ {0}

VARIABLES
  stops,    \* spooled landed_stop records: [reader, commits, at]
  rows,     \* the landed_notices table: [reader, commit, filing, stopped, told]
  filings   \* stops that were ingested: part of the id of the rows they file

noticeVars == <<stops, rows, filings>>

NoticesInit ==
    /\ stops = {}
    /\ rows = {}
    /\ filings = 0

IdOf(row) == <<row.reader, row.commit, row.filing>>

Current(row) == row.stopped + NoticeTTL > now

\* The reader's hook won its booking and spooled the stop.
Stop(reader, commits) ==
    /\ stops' = stops \cup {[reader |-> reader, commits |-> commits, at |-> now]}
    /\ UNCHANGED <<rows, filings>>

Kept == {row \in rows : Current(row)}

PruneNotices ==
    /\ Kept # rows
    /\ rows' = Kept
    /\ UNCHANGED <<stops, filings>>

FiledFor(reader, author) ==
    {row \in Kept : row.reader = reader /\ AuthorOf[row.commit] = author}

\* Seeded fault: only the rows still waiting count against the cap.
RoomBesideWaiting(reader, author) ==
    LET filed == Cardinality({row \in FiledFor(reader, author) : ~row.told})
    IN  IF filed < PairCap THEN PairCap - filed ELSE 0

Room(reader, author) ==
    LET filed == Cardinality(FiledFor(reader, author))
    IN  IF filed < PairCap THEN PairCap - filed ELSE 0

Waiting(reader, commit) ==
    \E row \in Kept : row.reader = reader /\ row.commit = commit /\ ~row.told

\* The commits earlier in the list that ask room of the same author.
Ahead(stop, i) ==
    {j \in 1..(i - 1) : /\ ~Waiting(stop.reader, stop.commits[j])
                       /\ AuthorOf[stop.commits[j]] = AuthorOf[stop.commits[i]]}

\* withinPairBudget: a commit still waiting is only refreshed and always passes;
\* any other, one already told too, takes room of its author, in the stop's order.
Fitting(stop) ==
    {stop.commits[i] : i \in {k \in DOMAIN stop.commits :
        \/ Waiting(stop.reader, stop.commits[k])
        \/ Cardinality(Ahead(stop, k)) < Room(stop.reader, AuthorOf[stop.commits[k]])}}

Same(row, reader, commit) == row.reader = reader /\ row.commit = commit

\* A told row stays as it is, and an older stop rolls nothing back.
Refresh(row, stop) ==
    IF ~row.told /\ stop.at >= row.stopped THEN [row EXCEPT !.stopped = stop.at] ELSE row

\* ingestLandedStop, one transaction: prune, bound, insert or refresh.
IngestStop(stop) ==
    LET isCurrent == stop.at + NoticeTTL > now
        fit == IF isCurrent THEN Fitting(stop) ELSE {}
        isHit(row) == row.reader = stop.reader /\ row.commit \in fit
        fresh == {c \in fit : ~\E row \in Kept : Same(row, stop.reader, c)}
    IN  /\ stop \in stops
        /\ rows' = {IF isHit(row) THEN Refresh(row, stop) ELSE row : row \in Kept}
                     \cup {[reader |-> stop.reader, commit |-> c, filing |-> filings + 1,
                            stopped |-> stop.at, told |-> FALSE] : c \in fresh}
        /\ filings' = IF fresh = {} THEN filings ELSE filings + 1

\* ingestLandedNoticeDelivery: the named rows, of their own author, once.
Marked(author, ids) ==
    {IF AuthorOf[row.commit] = author /\ IdOf(row) \in ids
     THEN [row EXCEPT !.told = TRUE] ELSE row : row \in rows}

\* listLandedNotices: what waits for the author, by reader.
NoticesFor(author, reader) ==
    {IdOf(row) : row \in {r \in Kept :
        ~r.told /\ AuthorOf[r.commit] = author /\ r.reader = reader}}

----------------------------------------------------------------------------
(* Correctness.                                                            *)

\* One reader never has more rows on one author within the seven days than the
\* cap, told or not, however many stops race, repeat or arrive late.
PairBudget ==
    \A reader \in Readers, c \in Commits :
        Cardinality(FiledFor(reader, AuthorOf[c])) <= PairCap
=============================================================================
