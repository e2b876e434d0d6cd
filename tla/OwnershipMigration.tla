------------------------- MODULE OwnershipMigration -------------------------
(***************************************************************************)
(* cmd/migrate-ownership: a command run by hand that moves the rows of the *)
(* old tables to Karakeep and to the Article Index (internal/ownership,    *)
(* internal/storage/ownership_repo.go), beside the running server, whose   *)
(* requests are those of ReaderSignals.  A run may be a dry run, may die   *)
(* anywhere, and may be repeated.  A read and the write it decides are two *)
(* steps; a write that fails may have taken effect all the same.           *)
(*                                                                         *)
(* Scores, tags and summaries ride on one condition, that the row is new,  *)
(* and are one class here, "enrichment".  Titles and authors are left out. *)
(***************************************************************************)
EXTENDS ReaderSignals, FiniteSetsExt, SequencesExt

CONSTANT LegacyTables   \* the old tables to try: sequences of rows, oldest first

VARIABLES
    legacy,     \* the old table, joined with tags and current votes
    row,        \* [Articles -> who wrote the record of this URL, or None]
    karakeep,   \* [Articles -> Bookmarks of this URL]
    run         \* the command's process: its locals and its Report

index == <<row, opened, feedback>>
reader == <<now, request, fate, line, langfuse, lossy, overlapped>>
migration == <<legacy, row, karakeep, run, vars>>

Indexed == {"enrichment", "opens", "votes"}
Classes == Indexed \union {"saved_urls"}
LegacyRows == [url: Articles \union {None}, saved: BOOLEAN, enriched: BOOLEAN,
               opened: Times \union {None}, vote: Votes \union {None},
               voted: Times \union {None}]

ASSUME OwnershipMigrationAssumption ==
    /\ LegacyTables \subseteq Seq(LegacyRows)
    /\ None \notin Articles \union {"live", "migrated"}

-----------------------------------------------------------------------------
(* Classify: what the rows of one URL become.                              *)

RowsOf(u) == {r \in ToSet(legacy) : r.url = u}

\* An Open is the first time the page was opened.
EarliestOpen(u) ==
    LET opens == {r.opened : r \in RowsOf(u)} \ {None}
    IN  IF opens = {} THEN None ELSE Min(opens)

\* Mutation: an undated vote counts as newer.
NewerUndated(kept, r) ==
    /\ r.vote # None
    /\ \/ None \in {kept.vote, kept.voted, r.voted}
       \/ r.voted > kept.voted

\* newerVote: an undated vote never displaces a dated one.
Newer(kept, r) ==
    /\ r.vote # None
    /\ \/ kept.vote = None
       \/ r.voted # None /\ kept.voted = None
       \/ None \notin {r.voted, kept.voted} /\ r.voted > kept.voted

\* The rows are merged in their order; what is kept is one of them, or this.
NoVoteKept == [vote |-> None, voted |-> None]

CurrentVote(u) ==
    FoldLeft(LAMBDA kept, r : IF r.url = u /\ Newer(kept, r)
                              THEN [vote |-> r.vote, voted |-> r.voted] ELSE kept,
             NoVoteKept, legacy)

Bookmarks == {u \in Articles : \E r \in RowsOf(u) : r.saved}

\* The classes a merged record carries; a Save is none of them.
Carried(u) ==
    {c \in Indexed :
       CASE c = "enrichment" -> \E r \in RowsOf(u) : r.enriched
         [] c = "opens"      -> EarliestOpen(u) # None
         [] c = "votes"      -> CurrentVote(u).vote # None}

Records == {u \in Articles : Carried(u) # {}}

\* Mutation: the vote of a record that is there counts as stored.
OutcomeVote(u) ==
    {c \in Carried(u) :
       CASE c = "enrichment" -> row[u] = None
         [] c = "opens"      -> opened[u] = None
         [] c = "votes"      -> TRUE}

\* outcome: the classes an Import adds to what the Article Index holds now.
Outcome(u) ==
    {c \in Carried(u) :
       CASE c = "enrichment" -> row[u] = None
         [] c = "opens"      -> opened[u] = None
         [] c = "votes"      -> feedback[u].vote = None}

-----------------------------------------------------------------------------
(* One run *)

Tally == [destination: Nat, duplicate: Nat, failed: Nat]
NoTally == [c \in Classes |-> [destination |-> 0, duplicate |-> 0, failed |-> 0]]
NoRun == [at |-> "off", apply |-> FALSE, left |-> {}, item |-> None, result |-> {},
          tally |-> NoTally, landed |-> [c \in Classes |-> 0], raced |-> {}]

MigrationTypeOK ==
    /\ TypeOK
    /\ legacy \in LegacyTables
    /\ row \in [Articles -> {"live", "migrated", None}]
    /\ karakeep \in [Articles -> Nat]
    /\ run \in [at: {"off", "bookmarks", "records", "done", "aborted"},
               apply: BOOLEAN, left: SUBSET Articles, item: Articles \union {None},
               result: SUBSET Indexed, tally: [Classes -> Tally],
               landed: [Classes -> Nat], raced: SUBSET Articles]

MigrationInit ==
    /\ Init
    /\ legacy \in LegacyTables
    /\ row = [u \in Articles |-> None]
    /\ karakeep \in [Articles -> {0, 1}]
    /\ run = NoRun

Running == run.at \in {"bookmarks", "records"}

\* A dry run is the default; -apply writes.  Karakeep answered the Ping.
Start(apply) ==
    /\ ~Running
    /\ run' = [NoRun EXCEPT !.at = "bookmarks", !.apply = apply, !.left = Bookmarks]
    /\ UNCHANGED <<legacy, row, karakeep, vars>>

\* The run after item u is counted: `outcome` names its counter by class.
Counted(u, outcome) ==
    [run EXCEPT !.left = @ \ {u}, !.item = None, !.result = {},
                !.tally = [c \in Classes |->
                    IF c \in DOMAIN outcome
                    THEN [run.tally[c] EXCEPT ![outcome[c]] = @ + 1]
                    ELSE run.tally[c]]]

As(classes, counter) == [c \in classes |-> counter]

\* Destination for what the lookup promised, Duplicate for the rest.
Scored(u, result) ==
    Counted(u, [c \in Carried(u) |-> IF c \in result THEN "destination" ELSE "duplicate"])

Landed(counted, classes) ==
    [counted EXCEPT !.landed = [c \in Classes |->
                                  IF c \in classes THEN @[c] + 1 ELSE @[c]]]

\* Mutation: an error is read as "not there".
AnswersAbsent(u) == {IF karakeep[u] > 0 THEN "saved" ELSE "absent", "absent"}

\* Karakeep's answers to check-url.
Answers(u) == {IF karakeep[u] > 0 THEN "saved" ELSE "absent", "error"}

\* saveBookmarks: looking first is what makes a rerun safe.
FindBookmark(u) ==
    /\ run.at = "bookmarks" /\ run.item = None /\ u \in run.left
    /\ \E answer \in Answers(u) :
          run' = CASE answer = "error"  -> Counted(u, As({"saved_urls"}, "failed"))
                   [] answer = "saved"  -> Counted(u, As({"saved_urls"}, "duplicate"))
                   [] answer = "absent" -> IF run.apply THEN [run EXCEPT !.item = u]
                                           ELSE Counted(u, As({"saved_urls"}, "destination"))
    /\ UNCHANGED <<legacy, row, karakeep, vars>>

\* Create adds a Bookmark, or fails, or adds one and its answer is lost.
SaveBookmark(u) ==
    /\ run.at = "bookmarks" /\ run.item = u
    /\ LET added == [karakeep EXCEPT ![u] = @ + 1] IN
       \/ /\ karakeep' = added
          /\ run' = Landed(Counted(u, As({"saved_urls"}, "destination")), {"saved_urls"})
       \/ /\ UNCHANGED karakeep
          /\ run' = Counted(u, As({"saved_urls"}, "failed"))
       \/ /\ karakeep' = added
          /\ run' = Landed(Counted(u, As({"saved_urls"}, "failed")), {"saved_urls"})
    /\ UNCHANGED <<legacy, row, vars>>

\* A failed Bookmark does not keep the records from being imported.
ToRecords ==
    /\ run.at = "bookmarks" /\ run.left = {}
    /\ run' = [run EXCEPT !.at = "records", !.left = Records]
    /\ UNCHANGED <<legacy, row, karakeep, vars>>

\* importRecords: the lookup decides what will be counted.
FindRecord(u) ==
    /\ run.at = "records" /\ run.item = None /\ u \in run.left
    /\ run' \in {Counted(u, As(Carried(u), "failed")),
                 IF run.apply THEN [run EXCEPT !.item = u, !.result = Outcome(u)]
                 ELSE Scored(u, Outcome(u))}
    /\ UNCHANGED <<legacy, row, karakeep, vars>>

\* Mutation: COALESCE(EXCLUDED.opened_at, article_index.opened_at).
HistoryFirst(kept, history) == IF history = None THEN kept ELSE history

\* COALESCE(article_index.opened_at, EXCLUDED.opened_at).
KeptFirst(kept, history) == IF kept = None THEN history ELSE kept

\* Import's transaction: a record that is there keeps its Enrichment, its
\* Open and its vote.
Write(u) ==
    LET vote == CurrentVote(u)
        at   == IF vote.voted = None THEN now ELSE vote.voted
    IN  /\ row' = [row EXCEPT ![u] = KeptFirst(@, "migrated")]
        /\ opened' = [opened EXCEPT ![u] = KeptFirst(@, EarliestOpen(u))]
        /\ feedback' = [feedback EXCEPT ![u] =
              IF @.vote = None /\ vote.vote # None
              THEN [vote |-> vote.vote, created |-> at, updated |-> now] ELSE @]

\* The classes of the record that Write(u) stored.
Written(u) ==
    {c \in Carried(u) :
       CASE c = "enrichment" -> row'[u] # row[u]
         [] c = "opens"      -> opened'[u] # opened[u]
         [] c = "votes"      -> feedback'[u] # feedback[u]}

\* The transaction commits, rolls back, or commits and its answer is lost.
ImportRecord(u) ==
    /\ run.at = "records" /\ run.item = u
    /\ \/ /\ Write(u)
          /\ run' = Landed(Scored(u, run.result), Written(u))
       \/ /\ UNCHANGED index
          /\ run' = Counted(u, As(Carried(u), "failed"))
       \/ /\ Write(u)
          /\ run' = Landed(Counted(u, As(Carried(u), "failed")), Written(u))
    /\ UNCHANGED <<legacy, karakeep, reader>>

\* The samples are read back; an error ends the run with its counts.
Sample ==
    /\ run.at = "records" /\ run.left = {}
    /\ run' \in {[run EXCEPT !.at = "done"], [run EXCEPT !.at = "aborted"]}
    /\ UNCHANGED <<legacy, row, karakeep, vars>>

Die ==
    /\ Running
    /\ run' = NoRun
    /\ UNCHANGED <<legacy, row, karakeep, vars>>

-----------------------------------------------------------------------------
(* The running server *)

\* History: the server wrote u between the run's lookup and its import.
Raced(us) ==
    run' = IF run.at = "records" /\ run.item \in us
           THEN [run EXCEPT !.raced = @ \union {run.item}] ELSE run

\* The fast path claims the URL of a new entry.
Enrich(u) ==
    /\ row[u] = None
    /\ row' = [row EXCEPT ![u] = "live"]
    /\ Raced({u})
    /\ UNCHANGED <<legacy, karakeep, vars>>

\* A Digest only links Articles that have a record.
ClickLink(r, a, signal) ==
    /\ row[a] # None
    /\ Click(r, a, signal)
    /\ UNCHANGED <<legacy, row, karakeep, run>>

Serve ==
    /\ Signals
    /\ Raced({a \in Articles : opened'[a] # opened[a] \/ feedback'[a] # feedback[a]})
    /\ UNCHANGED <<legacy, row, karakeep>>

MigrationNext ==
    \/ \E apply \in BOOLEAN : Start(apply)
    \/ \E u \in Articles : \/ FindBookmark(u) \/ SaveBookmark(u)
                           \/ FindRecord(u) \/ ImportRecord(u)
    \/ ToRecords \/ Sample \/ Die
    \/ \E u \in Articles : Enrich(u)
    \/ \E r \in Requests, a \in Articles, signal \in Votes \union {"open"} :
          ClickLink(r, a, signal)
    \/ Serve

MigrationSpec == MigrationInit /\ [][MigrationNext]_migration

-----------------------------------------------------------------------------
(* Properties *)

\* Action: no step of a run replaces an Enrichment, an Open or a vote the
\* Article Index holds, whatever the server wrote after the run looked; only
\* a request of the reader changes a vote (ownership_repo.go:100, "it can
\* never overwrite Enrichment the live pipeline produced").
LiveDataKept ==
    [][\A u \in Articles :
         /\ row[u] # None => row'[u] = row[u]
         /\ opened[u] # None => opened'[u] = opened[u]
         /\ feedback[u].vote # None /\ feedback'[u] # feedback[u]
              => \E r \in Requests : /\ request[r].at = "store" /\ Article(r) = u
                                     /\ request'[r].at \in {"emit", "failed"}]_migration

\* Safety: repeated runs, runs that died and Creates whose answer was lost
\* leave one Bookmark of a URL (run.go:140, "Looking first is what makes a
\* rerun safe").
BookmarkOnce == \A u \in Articles : karakeep[u] <= 1

Clean == run.at \in {"done", "aborted"} /\ run.apply
         /\ \A c \in Classes : run.tally[c].failed = 0

LegacyVotes(u) == {r \in RowsOf(u) : r.vote # None}

\* Safety: an applied run without failures left every saved URL, Open and vote
\* of the old tables at its destination, whatever earlier runs left half-done
\* (run.go:108, "a partial run is safe to repeat"); where the reader did
\* nothing since, the Open is the earliest one and the vote one no other row
\* of the URL is dated after.
CleanRunFinishes ==
    Clean =>
      /\ \A u \in Bookmarks : karakeep[u] > 0
      /\ \A u \in Records :
           /\ row[u] # None
           /\ \A r \in RowsOf(u) :
                /\ r.opened # None => opened[u] # None
                /\ r.vote # None => feedback[u].vote # None
           /\ (\A r \in Requests : Article(r) # u) =>
                /\ \A r \in RowsOf(u) : r.opened # None => opened[u] <= r.opened
                /\ LegacyVotes(u) # {} =>
                     \E kept \in LegacyVotes(u) :
                        /\ feedback[u].vote = kept.vote
                        /\ \A r \in LegacyVotes(u) : r.voted # None =>
                              kept.voted # None /\ r.voted <= kept.voted

\* Safety: an applied run reports as Destination what it stored: every class it
\* stored is counted there or under Failed, and what it counted and did not
\* store is at most one per record the server wrote in between
\* (ownership_repo.go:114, "the worst case is a count that is one off").
CountsHonest ==
    run.apply => \A c \in Classes :
        /\ run.landed[c] <= run.tally[c].destination + run.tally[c].failed
        /\ run.tally[c].destination <= run.landed[c] + Cardinality(run.raced)
=============================================================================
