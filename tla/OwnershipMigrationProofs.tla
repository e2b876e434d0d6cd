---------------------- MODULE OwnershipMigrationProofs ----------------------
(***************************************************************************)
(* Proofs about OwnershipMigration and the reader's requests beside it     *)
(* (ReaderSignals), for any old tables and any number of Articles,         *)
(* requests and runs.                                                      *)
(***************************************************************************)
EXTENDS OwnershipMigration, FiniteSetTheorems, SequenceTheorems, WellFoundedInduction, TLAPS

(* Classify: the merge of the rows of one URL                              *)

\* A set that holds 0 and, with a number, its successor holds every number.
LEMMA Counting ==
    ASSUME NEW S, 0 \in S, \A n \in Nat : n \in S => n + 1 \in S
    PROVE  Nat \subseteq S
<1> DEFINE T == Nat \ S
<1>1. SUFFICES ASSUME T # {} PROVE FALSE
  OBVIOUS
<1>2. PICK m \in T : \A n \in T : ~ (<<n, m>> \in OpToRel(<, Nat))
  BY <1>1, NatLessThanWellFounded, WFMin
<1>3. m \in Nat /\ m # 0 /\ m - 1 \in Nat
  OBVIOUS
<1>4. <<m - 1, m>> \in OpToRel(<, Nat)
  BY <1>3 DEF OpToRel
<1>5. m - 1 \in S
  BY <1>2, <1>3, <1>4
<1>6. (m - 1) + 1 = m
  BY <1>3
<1> QED BY <1>3, <1>5, <1>6

\* The two kinds of value CurrentVote folds over.
Kept == [vote: Votes \union {None}, voted: Times \union {None}]

\* What merge keeps after row r.
Merge(u, kept, r) ==
    IF r.url = u /\ Newer(kept, r) THEN [vote |-> r.vote, voted |-> r.voted] ELSE kept

\* A merge keeps a vote with its stamp, or nothing.
LEMMA MergeIsKept ==
    ASSUME NEW u, NEW kept \in Kept, NEW r \in LegacyRows
    PROVE  Merge(u, kept, r) \in Kept
  BY DEF Kept, Merge, LegacyRows

\* The last row of the first k + 1 is row k + 1.
LEMMA LastOf ==
    ASSUME NEW k \in Nat, NEW s \in SUBSET (1..k + 1), k + 1 \in s
    PROVE  Max(s) = k + 1
<1>1. \A y \in s : k + 1 >= y
  OBVIOUS
<1>2. Max(s) \in s /\ \A y \in s : Max(s) >= y
  BY <1>1 DEF Max
<1>3. Max(s) \in 1..k + 1 /\ Max(s) >= k + 1
  BY <1>2
<1> QED BY <1>3

\* The table of the fold's values over sets of rows.
Table(u, D, table) ==
    table = [s \in SUBSET D |->
                IF s = {} THEN NoVoteKept
                ELSE Merge(u, table[s \ {Max(s)}], legacy[Max(s)])]

\* The fold is defined: a table over the first k rows extends to the next.
LEMMA TableExists ==
    ASSUME legacy \in Seq(LegacyRows), NEW u
    PROVE  \E table : Table(u, DOMAIN legacy, table)
<1> DEFINE n == Len(legacy)
           S == {k \in Nat : k <= n => \E table : Table(u, 1..k, table)}
<1>1. n \in Nat /\ DOMAIN legacy = 1..n
  BY LenProperties
<1>2. 0 \in S
  <2>1. Table(u, 1..0, [s \in SUBSET (1..0) |-> NoVoteKept])
    BY DEF Table
  <2> QED BY <2>1
<1>3. ASSUME NEW k \in Nat, k \in S PROVE k + 1 \in S
  <2>1. SUFFICES ASSUME k + 1 <= n PROVE \E table : Table(u, 1..k + 1, table)
    OBVIOUS
  <2>2. PICK g : Table(u, 1..k, g)
    BY <1>1, <1>3, <2>1
  <2> DEFINE h == [s \in SUBSET (1..k + 1) |->
                     IF k + 1 \in s THEN Merge(u, g[s \ {k + 1}], legacy[k + 1]) ELSE g[s]]
  <2>3. ASSUME NEW s \in SUBSET (1..k + 1)
        PROVE  h[s] = IF s = {} THEN NoVoteKept
                      ELSE Merge(u, h[s \ {Max(s)}], legacy[Max(s)])
    <3>1. CASE k + 1 \in s
      <4>1. Max(s) = k + 1
        BY <3>1, LastOf
      <4>2. s \ {k + 1} \in SUBSET (1..k + 1) /\ k + 1 \notin s \ {k + 1}
        OBVIOUS
      <4>3. h[s \ {k + 1}] = g[s \ {k + 1}]
        BY <4>2
      <4>4. h[s] = Merge(u, g[s \ {k + 1}], legacy[k + 1]) /\ s # {}
        BY <3>1
      <4> HIDE DEF h
      <4> QED BY <4>1, <4>3, <4>4
    <3>2. CASE k + 1 \notin s
      <4>1. s \in SUBSET (1..k) /\ s \ {Max(s)} \in SUBSET (1..k + 1)
        <5>1. \A i \in s : i \in 1..k
          BY <3>2
        <5> QED BY <5>1
      <4>2. h[s] = g[s] /\ h[s \ {Max(s)}] = g[s \ {Max(s)}]
        BY <3>2, <4>1
      <4>3. g[s] = IF s = {} THEN NoVoteKept
                   ELSE Merge(u, g[s \ {Max(s)}], legacy[Max(s)])
        BY <2>2, <4>1 DEF Table
      <4> HIDE DEF h
      <4> QED BY <4>2, <4>3
    <3> QED BY <3>1, <3>2
  <2>4. h = [s \in SUBSET (1..k + 1) |-> h[s]]
    OBVIOUS
  <2> HIDE DEF h
  <2>5. Table(u, 1..k + 1, h)
    BY <2>3, <2>4 DEF Table
  <2> QED BY <2>5
<1> HIDE DEF S
<1>4. n \in S
  BY <1>1, <1>2, <1>3, Counting
<1> QED BY <1>1, <1>4 DEF S

\* Rows i and j of the old table are votes on u, and i is not the older one.
VoteRow(u, i) == legacy[i].url = u /\ legacy[i].vote # None
NotOlder(i, j) ==
    legacy[j].voted # None => legacy[i].voted # None /\ legacy[j].voted <= legacy[i].voted

\* What the fold holds after k rows: a vote on u that no other of them is
\* dated after, if there is one.
MergedTo(u, k, kept) ==
    /\ kept \in Kept
    /\ (\A i \in 1..k : ~VoteRow(u, i)) => kept = NoVoteKept
    /\ (\E i \in 1..k : VoteRow(u, i)) =>
          \E i \in 1..k : /\ VoteRow(u, i)
                          /\ kept = [vote |-> legacy[i].vote, voted |-> legacy[i].voted]
                          /\ \A j \in 1..k : VoteRow(u, j) => NotOlder(i, j)

\* One more row.
LEMMA MergedOneMore ==
    ASSUME legacy \in Seq(LegacyRows), NEW u, NEW k \in Nat, k + 1 <= Len(legacy),
           NEW kept, MergedTo(u, k, kept),
           NEW next, next = Merge(u, kept, legacy[k + 1])
    PROVE  MergedTo(u, k + 1, next)
<1> DEFINE r == legacy[k + 1]
<1> USE ReaderSignalsAssumption
<1>1. k + 1 \in 1..Len(legacy) /\ \A i \in 1..k + 1 : legacy[i] \in LegacyRows
  BY LenProperties, ElementOfSeq
<1>2. next \in Kept /\ kept \in Kept
  BY <1>1, MergeIsKept DEF MergedTo
<1>3. \A i \in 1..k + 1 : i \in 1..k \/ i = k + 1
  OBVIOUS
<1>4. \A i \in 1..k : i \in 1..k + 1
  OBVIOUS
<1>5. k + 1 \in 1..k + 1
  OBVIOUS
<1>6. \A i \in 1..k + 1 : legacy[i].voted = None \/ legacy[i].voted \in Int
  BY <1>1 DEF LegacyRows, Times
<1>7. CASE ~VoteRow(u, k + 1)
  <2>1. next = kept
    BY <1>7 DEF Merge, VoteRow, Newer
  <2> QED BY <1>2, <1>3, <1>4, <1>7, <2>1 DEF MergedTo
<1>8. CASE VoteRow(u, k + 1) /\ \A i \in 1..k : ~VoteRow(u, i)
  <2>1. next = [vote |-> r.vote, voted |-> r.voted]
    BY <1>8 DEF MergedTo, NoVoteKept, Merge, Newer, VoteRow
  <2>2. NotOlder(k + 1, k + 1)
    BY <1>5, <1>6 DEF NotOlder
  <2> QED BY <1>2, <1>3, <1>5, <1>8, <2>1, <2>2 DEF MergedTo
<1>9. CASE VoteRow(u, k + 1) /\ \E i \in 1..k : VoteRow(u, i)
  <2>1. PICK i \in 1..k : /\ VoteRow(u, i)
                          /\ kept = [vote |-> legacy[i].vote, voted |-> legacy[i].voted]
                          /\ \A j \in 1..k : VoteRow(u, j) => NotOlder(i, j)
    BY <1>9 DEF MergedTo
  <2>2. kept.vote # None /\ kept.voted = legacy[i].voted
    BY <2>1 DEF VoteRow
  <2>3. CASE Newer(kept, r)
    <3>1. next = [vote |-> r.vote, voted |-> r.voted]
      BY <1>9, <2>3 DEF Merge, VoteRow
    <3>2. \A j \in 1..k : VoteRow(u, j) => NotOlder(k + 1, j)
      BY <1>4, <1>5, <1>6, <2>1, <2>2, <2>3 DEF Newer, NotOlder
    <3>3. NotOlder(k + 1, k + 1)
      BY <1>5, <1>6 DEF NotOlder
    <3> QED BY <1>2, <1>3, <1>5, <1>9, <3>1, <3>2, <3>3 DEF MergedTo
  <2>4. CASE ~Newer(kept, r)
    <3>1. next = kept
      BY <2>4 DEF Merge
    <3>2. NotOlder(i, k + 1)
      BY <1>4, <1>5, <1>6, <1>9, <2>2, <2>4 DEF Newer, NotOlder, VoteRow
    <3> QED BY <1>2, <1>3, <1>4, <1>9, <2>1, <3>1, <3>2 DEF MergedTo
  <2> QED BY <2>3, <2>4
<1> QED BY <1>7, <1>8, <1>9

\* The vote of the merged record: none if no row of the URL has one, and else
\* one that no other row of the URL is dated after.
LEMMA CurrentVoteIs ==
    ASSUME legacy \in Seq(LegacyRows), NEW u
    PROVE  MergedTo(u, Len(legacy), CurrentVote(u))
<1> DEFINE n == Len(legacy)
           table == CHOOSE table : Table(u, DOMAIN legacy, table)
           S == {k \in Nat : k <= n => MergedTo(u, k, table[1..k])}
<1>1. n \in Nat /\ DOMAIN legacy = 1..n
  BY LenProperties
<1>2. Table(u, DOMAIN legacy, table)
  BY TableExists
<1>3. CurrentVote(u) = table[DOMAIN legacy]
  BY DEF CurrentVote, FoldLeft, MapThenFoldSet, Table, Merge
<1> HIDE DEF table
<1>4. \A s \in SUBSET (1..n) : table[s] = IF s = {} THEN NoVoteKept
                                    ELSE Merge(u, table[s \ {Max(s)}], legacy[Max(s)])
  BY <1>1, <1>2 DEF Table
<1>5. 0 \in S
  <2>1. 1..0 = {} /\ table[{}] = NoVoteKept
    <3>1. 1..0 = {}
      OBVIOUS
    <3>2. table[{}] = NoVoteKept
      BY <1>4
    <3> QED BY <3>1, <3>2
  <2>2. NoVoteKept \in Kept
    BY DEF NoVoteKept, Kept
  <2> QED BY <2>1, <2>2 DEF MergedTo
<1>6. ASSUME NEW k \in Nat, k \in S PROVE k + 1 \in S
  <2>1. SUFFICES ASSUME k + 1 <= n PROVE MergedTo(u, k + 1, table[1..k + 1])
    OBVIOUS
  <2>2. MergedTo(u, k, table[1..k])
    BY <1>1, <1>6, <2>1
  <2>3. Max(1..k + 1) = k + 1
    BY LastOf
  <2>4. (1..k + 1) \ {k + 1} = 1..k
    OBVIOUS
  <2>5. 1..k + 1 \in SUBSET (1..n) /\ 1..k + 1 # {}
    <3>1. \A i \in 1..k + 1 : i \in 1..n
      BY <1>1, <2>1
    <3>2. k + 1 \in 1..k + 1
      OBVIOUS
    <3> QED BY <3>1, <3>2
  <2>6. table[1..k + 1] = Merge(u, table[1..k], legacy[k + 1])
    BY <1>4, <2>3, <2>4, <2>5
  <2> QED BY <2>1, <2>2, <2>6, MergedOneMore
<1> HIDE DEF S
<1>7. n \in S
  BY <1>1, <1>5, <1>6, Counting
<1> QED BY <1>1, <1>3, <1>7 DEF S

\* The same about the rows as a set.
LEMMA CurrentVoteOfRows ==
    ASSUME legacy \in Seq(LegacyRows), NEW u
    PROVE  /\ CurrentVote(u).vote \in Votes \union {None}
           /\ CurrentVote(u).voted \in Times \union {None}
           /\ LegacyVotes(u) = {} => CurrentVote(u).vote = None
           /\ LegacyVotes(u) # {} =>
                 \E kept \in LegacyVotes(u) :
                    /\ CurrentVote(u).vote = kept.vote /\ kept.vote # None
                    /\ \A r \in LegacyVotes(u) : r.voted # None =>
                          kept.voted # None /\ r.voted <= kept.voted
<1> DEFINE n == Len(legacy)
           current == CurrentVote(u)
<1>1. MergedTo(u, n, current)
  BY CurrentVoteIs
<1>2. DOMAIN legacy = 1..n
  BY LenProperties
<1>3. \A i \in 1..n : VoteRow(u, i) <=> legacy[i] \in LegacyVotes(u)
  BY <1>2 DEF VoteRow, LegacyVotes, RowsOf, ToSet
<1>4. \A r \in LegacyVotes(u) : \E i \in 1..n : VoteRow(u, i) /\ r = legacy[i]
  BY <1>2 DEF VoteRow, LegacyVotes, RowsOf, ToSet
<1> HIDE DEF current
<1>5. current.vote \in Votes \union {None} /\ current.voted \in Times \union {None}
  BY <1>1 DEF MergedTo, Kept
<1>6. LegacyVotes(u) = {} => current.vote = None
  BY <1>1, <1>3 DEF MergedTo, NoVoteKept
<1>7. ASSUME LegacyVotes(u) # {}
      PROVE  \E kept \in LegacyVotes(u) :
                /\ current.vote = kept.vote /\ kept.vote # None
                /\ \A r \in LegacyVotes(u) : r.voted # None =>
                      kept.voted # None /\ r.voted <= kept.voted
  <2>1. \E i \in 1..n : VoteRow(u, i)
    BY <1>4, <1>7
  <2>2. PICK i \in 1..n : /\ VoteRow(u, i)
                          /\ current = [vote |-> legacy[i].vote, voted |-> legacy[i].voted]
                          /\ \A j \in 1..n : VoteRow(u, j) => NotOlder(i, j)
    BY <1>1, <2>1 DEF MergedTo
  <2>3. legacy[i] \in LegacyVotes(u) /\ current.vote = legacy[i].vote
    BY <1>3, <2>2
  <2>4. ASSUME NEW r \in LegacyVotes(u), r.voted # None
        PROVE  legacy[i].voted # None /\ r.voted <= legacy[i].voted
    BY <1>4, <2>2, <2>4 DEF NotOlder
  <2> QED BY <2>2, <2>3, <2>4 DEF VoteRow
<1> QED BY <1>5, <1>6, <1>7 DEF current

\* A set of times that is not empty has an earliest one.
LEMMA EarliestIs ==
    ASSUME NEW S \in SUBSET Times, S # {}
    PROVE  Min(S) \in S /\ \A t \in S : Min(S) <= t
<1> DEFINE T == {t + Past : t \in S}
<1> USE ReaderSignalsAssumption
<1>1. T \subseteq Nat /\ T # {}
  <2>1. \A t \in S : t \in Int /\ t + Past \in Nat
    BY DEF Times
  <2> QED BY <2>1
<1>2. PICK m \in T : \A k \in T : ~(<<k, m>> \in OpToRel(<, Nat))
  <2> HIDE DEF T
  <2> QED BY <1>1, WFMin, NatLessThanWellFounded
<1>3. \A k \in T : m <= k
  <2> HIDE DEF T
  <2>1. m \in Nat
    BY <1>1
  <2>2. \A k \in Nat : k < m => <<k, m>> \in OpToRel(<, Nat)
    BY <2>1 DEF OpToRel
  <2>3. \A k \in T : k \in Nat /\ ~(k < m)
    BY <1>1, <1>2, <2>2
  <2> QED BY <2>1, <2>3
<1>4. PICK s \in S : m = s + Past
  OBVIOUS
<1>5. \A t \in S : s <= t
  BY <1>3, <1>4 DEF Times
<1> QED BY <1>5 DEF Min

\* The Open of the merged record is the earliest of its rows'.
LEMMA EarliestOpenIs ==
    ASSUME legacy \in Seq(LegacyRows), NEW u
    PROVE  /\ EarliestOpen(u) \in Times \union {None}
           /\ \A r \in RowsOf(u) : r.opened # None =>
                 EarliestOpen(u) # None /\ EarliestOpen(u) <= r.opened
<1> DEFINE opens == {r.opened : r \in RowsOf(u)} \ {None}
<1> USE ReaderSignalsAssumption
<1>1. \A r \in RowsOf(u) : r \in LegacyRows
  <2>1. DOMAIN legacy = 1..Len(legacy) /\ \A i \in 1..Len(legacy) : legacy[i] \in LegacyRows
    BY LenProperties, ElementOfSeq
  <2> QED BY <2>1 DEF RowsOf, ToSet
<1>2. opens \in SUBSET Times
  BY <1>1 DEF LegacyRows
<1>3. \A r \in RowsOf(u) : r.opened # None => r.opened \in opens
  OBVIOUS
<1>4. EarliestOpen(u) = IF opens = {} THEN None ELSE Min(opens)
  BY DEF EarliestOpen
<1> HIDE DEF opens
<1>5. CASE opens = {}
  BY <1>3, <1>4, <1>5
<1>6. CASE opens # {}
  <2>1. Min(opens) \in opens /\ \A t \in opens : Min(opens) <= t
    BY <1>2, <1>6, EarliestIs
  <2>2. None \notin opens
    BY <1>2 DEF Times
  <2> QED BY <1>2, <1>3, <1>4, <1>6, <2>1, <2>2
<1> QED BY <1>5, <1>6

\* What the rows become depends on nothing but the rows.
LEMMA ClassifySame ==
    ASSUME UNCHANGED legacy
    PROVE  /\ \A u : /\ RowsOf(u)' = RowsOf(u) /\ CurrentVote(u)' = CurrentVote(u)
                     /\ EarliestOpen(u)' = EarliestOpen(u) /\ Carried(u)' = Carried(u)
           /\ Bookmarks' = Bookmarks /\ Records' = Records
<1>1. \A u : RowsOf(u)' = RowsOf(u)
  BY DEF RowsOf, ToSet
<1>2. \A u : CurrentVote(u)' = CurrentVote(u)
  BY DEF CurrentVote, FoldLeft, MapThenFoldSet, Newer, NoVoteKept
<1>3. \A u : EarliestOpen(u)' = EarliestOpen(u)
  BY <1>1 DEF EarliestOpen
<1>4. \A u : Carried(u)' = Carried(u)
  BY <1>1, <1>2, <1>3 DEF Carried
<1>5. Bookmarks' = Bookmarks /\ Records' = Records
  BY <1>1, <1>4 DEF Bookmarks, Records
<1> QED BY <1>1, <1>2, <1>3, <1>4, <1>5

-----------------------------------------------------------------------------
(* The reader's requests                                                   *)

RequestStates ==
    [at: {"idle", "store", "emit", "ok", "failed"}, article: Articles \union {None},
     signal: Votes \union {"open", None}, first: Times]

\* A request that stored its row carries the first time of its row.
DatedAs(r) ==
    /\ request[r].at = "idle" => Article(r) = None
    /\ request[r].at # "idle" =>
          Article(r) \in Articles /\ request[r].signal \in Votes \union {"open"}
    /\ request[r].at \in {"emit", "ok"} /\ request[r].signal = "open" =>
          opened[Article(r)] # None /\ request[r].first = opened[Article(r)]
    /\ request[r].at \in {"emit", "ok"} /\ request[r].signal \in Votes =>
          /\ feedback[Article(r)].vote # None
          /\ request[r].first = feedback[Article(r)].created

Dated == \A r \in Requests : DatedAs(r)

\* The requests whose scores are in line have answered.
Lined == \A i \in 1..Len(line) : request[line[i]].at = "ok"

\* Every score that Langfuse holds has the first time of its row.
ScoresDated ==
    \A a \in Articles : \A s \in langfuse[a] :
        /\ s.name = "opened" => opened[a] # None /\ s.at = opened[a]
        /\ s.name = "user_vote" => feedback[a].vote # None /\ s.at = feedback[a].created

\* The votes on a that are stored and not sent: at most one is about to join
\* the line, and the last of them is the current one.
EmitVote(r, a) ==
    request[r].at = "emit" /\ request[r].signal \in Votes /\ Article(r) = a
LineVote(i, a) == request[line[i]].signal \in Votes /\ Article(line[i]) = a
LastVote(i, a) == LineVote(i, a) /\ \A j \in 1..Len(line) : j > i => ~LineVote(j, a)

LineInOrder(a) ==
    /\ \A i \in 1..Len(line) : LastVote(i, a) => request[line[i]].signal = feedback[a].vote
    /\ (\A i \in 1..Len(line) : ~LineVote(i, a)) =>
          \A s \in langfuse[a] : s.name = "user_vote" => s.value = feedback[a].vote

InOrder(a) ==
    /\ \A r \in Requests : EmitVote(r, a) => request[r].signal = feedback[a].vote
    /\ \A r, q \in Requests : EmitVote(r, a) /\ EmitVote(q, a) => r = q
    /\ (\A r \in Requests : ~EmitVote(r, a)) => LineInOrder(a)

VotesInOrder == ~lossy => \A a \in Articles \ overlapped : InOrder(a)

ReaderInv ==
    TypeOK /\ Dated /\ Lined /\ ScoresDated /\ OneScorePerName /\ VotesInOrder

\* What no step does: move the first time of a row, or take back a vote.
RowsStay ==
    \A a \in Articles :
        /\ opened[a] # None => opened'[a] = opened[a]
        /\ feedback[a].vote # None =>
              feedback'[a].vote # None /\ feedback'[a].created = feedback[a].created

\* A request that has not answered is not in line.
LEMMA NotInLine ==
    ASSUME ReaderInv, NEW r \in Requests, request[r].at # "ok"
    PROVE  \A i \in 1..Len(line) : line[i] # r /\ line[i] \in Requests
  BY ElementOfSeq DEF ReaderInv, TypeOK, Lined

\* A step of a request before its score: it may write its rows.
LEMMA BeforeScore ==
    ASSUME ReaderInv, NEW r \in Requests, request[r].at \in {"idle", "store"},
           request'[r] \in RequestStates, request' = [request EXCEPT ![r] = request'[r]],
           RowsStay, DatedAs(r)', UNCHANGED <<now, fate, line, langfuse>>,
           opened' \in [Articles -> Times \union {None}],
           feedback' \in [Articles -> [vote: Votes \union {None}, created: Times,
                                       updated: Times]],
           lossy' \in BOOLEAN, overlapped' \subseteq Articles, VotesInOrder'
    PROVE  ReaderInv'
<1>1. TypeOK /\ Dated /\ Lined /\ ScoresDated /\ OneScorePerName
  BY DEF ReaderInv
<1>2. request \in [Requests -> RequestStates]
  BY <1>1 DEF TypeOK, RequestStates
<1>3. TypeOK'
  BY <1>1, <1>2 DEF TypeOK, RequestStates
<1>4. \A q \in Requests \ {r} : request'[q] = request[q]
  BY <1>2
<1>5. Dated'
  BY <1>1, <1>4 DEF Dated, DatedAs, RowsStay, Article
<1>6. Lined'
  BY <1>1, <1>4, NotInLine DEF Lined
<1>7. ScoresDated' /\ OneScorePerName'
  BY <1>1 DEF ScoresDated, RowsStay, OneScorePerName
<1> QED BY <1>3, <1>5, <1>6, <1>7 DEF ReaderInv

\* The votes on a stay in order when a request that is none of them moves.
LEMMA OrderKept ==
    ASSUME ReaderInv, NEW r \in Requests, NEW a \in Articles, InOrder(a),
           request[r].at \in {"idle", "store"},
           \A q \in Requests \ {r} : request'[q] = request[q],
           ~EmitVote(r, a)', feedback'[a].vote = feedback[a].vote,
           UNCHANGED <<line, langfuse>>
    PROVE  InOrder(a)'
<1>1. \A i \in 1..Len(line) : line[i] # r /\ line[i] \in Requests
  BY NotInLine
<1>2. \A q \in Requests \ {r} : EmitVote(q, a)' <=> EmitVote(q, a)
  BY DEF EmitVote, Article
<1>3. ~EmitVote(r, a)
  BY DEF EmitVote
<1>4. \A i \in 1..Len(line) : LineVote(i, a)' <=> LineVote(i, a)
  BY <1>1 DEF LineVote, Article
<1>5. \A i \in 1..Len(line) : LastVote(i, a)' <=> LastVote(i, a)
  BY <1>4 DEF LastVote
<1>6. LineInOrder(a) => LineInOrder(a)'
  BY <1>1, <1>4, <1>5 DEF LineInOrder
<1>7. \A q \in Requests : EmitVote(q, a)' <=> EmitVote(q, a)
  BY <1>2, <1>3
<1>8. \A q \in Requests : EmitVote(q, a) => request'[q].signal = feedback'[a].vote
  BY <1>3 DEF InOrder
<1> QED BY <1>6, <1>7, <1>8 DEF InOrder

\* A click: the request is to be stored.
LEMMA ClickKeeps ==
    ASSUME ReaderInv, NEW r \in Requests, NEW a \in Articles,
           NEW signal \in Votes \union {"open"}, Click(r, a, signal)
    PROVE  ReaderInv'
<1> USE ReaderSignalsAssumption
<1> DEFINE clicked == [at |-> "store", article |-> a, signal |-> signal, first |-> 0]
<1>1. TypeOK /\ request \in [Requests -> RequestStates]
  BY DEF ReaderInv, TypeOK, RequestStates
<1>2. clicked \in RequestStates
  BY DEF RequestStates, Times
<1>3. /\ request[r].at = "idle" /\ request' = [request EXCEPT ![r] = clicked]
      /\ UNCHANGED <<now, opened, feedback, fate, line, langfuse, lossy, overlapped>>
  BY DEF Click
<1>4. request'[r] = clicked /\ \A q \in Requests \ {r} : request'[q] = request[q]
  BY <1>1, <1>3
<1>5. DatedAs(r)'
  BY <1>4 DEF DatedAs, Article
<1>6. VotesInOrder'
  <2>1. \A b \in Articles : ~EmitVote(r, b)'
    BY <1>4 DEF EmitVote
  <2> QED BY <1>3, <1>4, <2>1, OrderKept DEF ReaderInv, VotesInOrder
<1>7. RowsStay
  BY <1>3 DEF RowsStay
<1> HIDE DEF clicked
<1> QED BY <1>1, <1>2, <1>3, <1>4, <1>5, <1>6, <1>7, BeforeScore DEF TypeOK

\* How a statement ends: with the answer, or with the connection lost.
LEMMA StoredIs ==
    ASSUME request \in [Requests -> RequestStates], NEW r \in Requests
    PROVE  \A first \in Times : Stored(r, first) =>
              /\ request'[r] \in RequestStates
              /\ request' = [request EXCEPT ![r] = request'[r]]
              /\ \A q \in Requests \ {r} : request'[q] = request[q]
              /\ request'[r].signal = request[r].signal
              /\ request'[r].article = request[r].article
              /\ \/ /\ request'[r].at = "emit" /\ request'[r].first = first
                    /\ UNCHANGED lossy
                 \/ request'[r].at = "failed" /\ lossy' = TRUE
<1> SUFFICES ASSUME NEW first \in Times, Stored(r, first)
             PROVE  /\ request'[r] \in RequestStates
                    /\ request' = [request EXCEPT ![r] = request'[r]]
                    /\ \A q \in Requests \ {r} : request'[q] = request[q]
                    /\ request'[r].signal = request[r].signal
                    /\ request'[r].article = request[r].article
                    /\ \/ /\ request'[r].at = "emit" /\ request'[r].first = first
                          /\ UNCHANGED lossy
                       \/ request'[r].at = "failed" /\ lossy' = TRUE
  OBVIOUS
<1>1. CASE request' = [request EXCEPT ![r].at = "emit", ![r].first = first] /\ UNCHANGED lossy
  BY <1>1 DEF RequestStates
<1>2. CASE request' = [request EXCEPT ![r].at = "failed"] /\ lossy' = TRUE
  BY <1>2 DEF RequestStates
<1> QED BY <1>1, <1>2 DEF Stored

\* An Open: opened_at stays once it is set.
LEMMA OpenKeeps ==
    ASSUME ReaderInv, NEW r \in Requests, Open(r)
    PROVE  ReaderInv' /\ RowsStay
<1> USE ReaderSignalsAssumption
<1> DEFINE a == Article(r)
<1>1. /\ TypeOK /\ request \in [Requests -> RequestStates] /\ DatedAs(r)
      /\ request[r].at = "store" /\ request[r].signal = "open"
  BY DEF ReaderInv, Dated, TypeOK, RequestStates, Open
<1>2. a \in Articles
  BY <1>1 DEF DatedAs
<1>3. PICK first \in Times :
         /\ first = IF opened[a] = None THEN now ELSE opened[a]
         /\ opened' = [opened EXCEPT ![a] = first] /\ Stored(r, first)
  <2> DEFINE f == IF opened[a] = None THEN now ELSE opened[a]
  <2>1. f \in Times
    BY <1>1, <1>2 DEF TypeOK
  <2>2. opened' = [opened EXCEPT ![a] = f] /\ Stored(r, f)
    BY DEF Open
  <2> QED BY <2>1, <2>2
<1>4. /\ request'[r] \in RequestStates /\ request' = [request EXCEPT ![r] = request'[r]]
      /\ \A q \in Requests \ {r} : request'[q] = request[q]
      /\ request'[r].signal = "open" /\ request'[r].article = a
      /\ \/ request'[r].at = "emit" /\ request'[r].first = first /\ UNCHANGED lossy
         \/ request'[r].at = "failed" /\ lossy' = TRUE
  BY <1>1, <1>3, StoredIs DEF Article
<1>5. UNCHANGED <<now, feedback, fate, line, langfuse, overlapped>>
  BY DEF Open
<1>6. opened' \in [Articles -> Times \union {None}] /\ opened'[a] = first
  BY <1>1, <1>2, <1>3 DEF TypeOK
<1>7. RowsStay
  BY <1>1, <1>2, <1>3, <1>5 DEF RowsStay, TypeOK
<1>8. DatedAs(r)'
  BY <1>2, <1>4, <1>6 DEF DatedAs, Article, Times, Votes
<1>9. VotesInOrder'
  <2>1. \A b \in Articles : ~EmitVote(r, b)'
    BY <1>4 DEF EmitVote, Votes
  <2>2. \A b \in Articles : InOrder(b) => InOrder(b)'
    BY <1>1, <1>4, <1>5, <2>1, OrderKept
  <2>3. ~lossy' => ~lossy
    BY <1>4
  <2> QED BY <1>5, <2>2, <2>3 DEF ReaderInv, VotesInOrder
<1>10. lossy' \in BOOLEAN
  BY <1>1, <1>4 DEF TypeOK
<1> QED BY <1>1, <1>4, <1>5, <1>6, <1>7, <1>8, <1>9, <1>10, BeforeScore DEF TypeOK

\* A vote: it is the only one about to be emitted, or the Article is one of
\* those with two votes in flight.
LEMMA VoteKeeps ==
    ASSUME ReaderInv, NEW r \in Requests, Vote(r)
    PROVE  ReaderInv' /\ RowsStay
<1> USE ReaderSignalsAssumption
<1> DEFINE a == Article(r)
           vote == request[r].signal
<1>1. /\ TypeOK /\ request \in [Requests -> RequestStates] /\ DatedAs(r)
      /\ request[r].at = "store" /\ vote \in Votes
  BY DEF ReaderInv, Dated, TypeOK, RequestStates, Vote
<1>2. a \in Articles /\ now \in Times
  BY <1>1 DEF DatedAs, TypeOK
<1>3. PICK next \in [vote: Votes \union {None}, created: Times, updated: Times] :
         /\ next = Voted(feedback[a], vote)
         /\ feedback' = [feedback EXCEPT ![a] = next] /\ Stored(r, next.created)
  <2>1. Voted(feedback[a], vote) \in [vote: Votes \union {None}, created: Times, updated: Times]
    BY <1>1, <1>2 DEF TypeOK, Voted
  <2>2. /\ feedback' = [feedback EXCEPT ![a] = Voted(feedback[a], vote)]
        /\ Stored(r, Voted(feedback[a], vote).created)
    BY DEF Vote, Returning
  <2> QED BY <2>1, <2>2
<1>4. /\ next.vote = vote /\ next.created \in Times
      /\ feedback[a].vote # None => next.created = feedback[a].created
  BY <1>3 DEF Voted
<1>5. /\ request'[r] \in RequestStates /\ request' = [request EXCEPT ![r] = request'[r]]
      /\ \A q \in Requests \ {r} : request'[q] = request[q]
      /\ request'[r].signal = vote /\ request'[r].article = a
      /\ \/ request'[r].at = "emit" /\ request'[r].first = next.created /\ UNCHANGED lossy
         \/ request'[r].at = "failed" /\ lossy' = TRUE
  BY <1>1, <1>3, <1>4, StoredIs DEF Article
<1>6. UNCHANGED <<now, opened, fate, line, langfuse>>
  BY DEF Vote
<1>7. /\ feedback' \in [Articles -> [vote: Votes \union {None}, created: Times, updated: Times]]
      /\ feedback'[a] = next /\ \A b \in Articles \ {a} : feedback'[b] = feedback[b]
  BY <1>1, <1>2, <1>3 DEF TypeOK
<1>8. RowsStay
  BY <1>1, <1>2, <1>4, <1>6, <1>7 DEF RowsStay, Votes
<1>9. DatedAs(r)'
  BY <1>1, <1>2, <1>4, <1>5, <1>7 DEF DatedAs, Article, Votes
<1>10. /\ overlapped \subseteq overlapped' /\ overlapped' \subseteq Articles
       /\ (\E q \in Requests : EmitVote(q, a)) => a \in overlapped'
  <2> DEFINE racing == {q \in Requests : EmitVote(q, a)}
  <2>1. overlapped' = overlapped \union {Article(q) : q \in racing}
    BY DEF Vote, EmitVote
  <2>2. \A q \in racing : Article(q) = a
    BY DEF EmitVote
  <2> HIDE DEF racing
  <2>3. overlapped \subseteq overlapped' /\ overlapped' \subseteq Articles
    BY <1>1, <1>2, <2>1, <2>2 DEF TypeOK
  <2>4. racing # {} => a \in overlapped'
    BY <2>1, <2>2
  <2> QED BY <2>3, <2>4 DEF racing
<1>11. VotesInOrder'
  <2> SUFFICES ASSUME ~lossy', NEW b \in Articles \ overlapped' PROVE InOrder(b)'
    BY DEF VotesInOrder
  <2>1. InOrder(b) /\ request'[r].at = "emit"
    BY <1>5, <1>10 DEF ReaderInv, VotesInOrder
  <2>2. CASE b = a
    <3>1. \A q \in Requests : ~EmitVote(q, b)
      BY <1>10, <2>2
    <3>2. \A q \in Requests : EmitVote(q, b)' <=> q = r
      BY <1>1, <1>5, <2>1, <2>2, <3>1 DEF EmitVote, Article
    <3> QED BY <1>4, <1>5, <1>7, <2>2, <3>2 DEF InOrder
  <2>3. CASE b # a
    <3>1. ~EmitVote(r, b)'
      BY <1>5, <2>3 DEF EmitVote, Article
    <3> QED BY <1>1, <1>5, <1>6, <1>7, <2>1, <2>3, <3>1, OrderKept
  <2> QED BY <2>2, <2>3
<1>12. lossy' \in BOOLEAN
  BY <1>1, <1>5 DEF TypeOK
<1> QED BY <1>1, <1>5, <1>6, <1>7, <1>8, <1>9, <1>10, <1>11, <1>12, BeforeScore DEF TypeOK

\* A statement that fails leaves its request without a score.
LEMMA StoreFailsKeeps ==
    ASSUME ReaderInv, NEW r \in Requests, StoreFails(r)
    PROVE  ReaderInv' /\ RowsStay
<1>1. TypeOK /\ request \in [Requests -> RequestStates] /\ DatedAs(r)
  BY DEF ReaderInv, Dated, TypeOK, RequestStates
<1>2. /\ request[r].at = "store" /\ request' = [request EXCEPT ![r].at = "failed"]
      /\ UNCHANGED <<now, opened, feedback, fate, line, langfuse, lossy, overlapped>>
  BY DEF StoreFails
<1>3. /\ request'[r] \in RequestStates /\ request' = [request EXCEPT ![r] = request'[r]]
      /\ \A q \in Requests \ {r} : request'[q] = request[q]
      /\ request'[r].at = "failed" /\ request'[r].signal = request[r].signal
      /\ request'[r].article = request[r].article
  BY <1>1, <1>2 DEF RequestStates
<1>4. DatedAs(r)' /\ RowsStay
  BY <1>1, <1>2, <1>3 DEF DatedAs, Article, RowsStay
<1>5. VotesInOrder'
  <2>1. \A b \in Articles : ~EmitVote(r, b)'
    BY <1>3 DEF EmitVote
  <2>2. \A b \in Articles : InOrder(b) => InOrder(b)'
    BY <1>2, <1>3, <2>1, OrderKept
  <2> QED BY <1>2, <2>2 DEF ReaderInv, VotesInOrder
<1> QED BY <1>1, <1>2, <1>3, <1>4, <1>5, BeforeScore DEF TypeOK

\* A score joins the end of the line, or is dropped.
LEMMA EmitKeeps ==
    ASSUME ReaderInv, NEW r \in Requests, Emit(r)
    PROVE  ReaderInv' /\ RowsStay
<1>1. /\ TypeOK /\ request \in [Requests -> RequestStates] /\ DatedAs(r) /\ Lined
      /\ request[r].at = "emit" /\ line \in Seq(Requests)
  BY DEF ReaderInv, Dated, TypeOK, RequestStates, Emit
<1>2. /\ request' = [request EXCEPT ![r].at = "ok"]
      /\ UNCHANGED <<now, opened, feedback, langfuse, overlapped>>
      /\ \/ line' = Append(line, r) /\ fate' = [fate EXCEPT ![r] = "accepted"] /\ UNCHANGED lossy
         \/ UNCHANGED line /\ fate' = [fate EXCEPT ![r] = "dropped"] /\ lossy' = TRUE
  BY DEF Emit, Sink!Accept, Sink!Drop
<1>3. /\ request' \in [Requests -> RequestStates]
      /\ \A q \in Requests \ {r} : request'[q] = request[q]
      /\ request'[r].at = "ok" /\ request'[r].signal = request[r].signal
      /\ request'[r].article = request[r].article /\ request'[r].first = request[r].first
  BY <1>1, <1>2 DEF RequestStates
<1>4. Append(line, r) \in Seq(Requests) /\ Len(Append(line, r)) = Len(line) + 1
      /\ \A i \in 1..Len(line) + 1 :
            Append(line, r)[i] = IF i = Len(line) + 1 THEN r ELSE line[i]
  BY <1>1, LenProperties
<1>5. Len(line) \in Nat /\ \A i \in 1..Len(line) : line[i] # r /\ line[i] \in Requests
  BY <1>1, NotInLine, LenProperties
<1>6. TypeOK'
  <2>1. line' \in Seq(Requests) /\ lossy' \in BOOLEAN
    BY <1>1, <1>2, <1>4 DEF TypeOK
  <2>2. fate' \in [Requests -> {"new", "accepted", "dropped", "settled"}]
    BY <1>1, <1>2 DEF TypeOK
  <2> QED BY <1>1, <1>2, <1>3, <2>1, <2>2 DEF TypeOK, RequestStates
<1>7. Dated' /\ ScoresDated' /\ OneScorePerName' /\ RowsStay
  BY <1>1, <1>2, <1>3
  DEF ReaderInv, Dated, DatedAs, Article, ScoresDated, OneScorePerName, RowsStay
<1>8. Lined'
  <2>1. CASE UNCHANGED line
    BY <1>1, <1>3, <1>5, <2>1 DEF Lined
  <2>2. CASE line' = Append(line, r)
    <3>1. Len(line') = Len(line) + 1
      BY <1>4, <2>2
    <3>2. ASSUME NEW i \in 1..Len(line) + 1 PROVE request'[line'[i]].at = "ok"
      <4>1. CASE i = Len(line) + 1
        BY <1>3, <1>4, <2>2, <4>1
      <4>2. CASE i # Len(line) + 1
        <5>1. i \in 1..Len(line)
          BY <1>5, <4>2
        <5> QED BY <1>1, <1>3, <1>4, <1>5, <2>2, <4>2, <5>1 DEF Lined
      <4> QED BY <4>1, <4>2
    <3> QED BY <3>1, <3>2 DEF Lined
  <2> QED BY <1>2, <2>1, <2>2
<1>9. VotesInOrder'
  <2> SUFFICES ASSUME ~lossy', NEW a \in Articles \ overlapped' PROVE InOrder(a)'
    BY DEF VotesInOrder
  <2>1. line' = Append(line, r) /\ ~lossy /\ a \notin overlapped
    BY <1>2
  <2>2. InOrder(a)
    BY <2>1 DEF ReaderInv, VotesInOrder
  <2>3. \A q \in Requests : EmitVote(q, a)' <=> EmitVote(q, a) /\ q # r
    BY <1>3 DEF EmitVote, Article
  <2>4. PICK n \in Nat : n = Len(line) + 1
    BY <1>5
  <2>5. Len(line') = n /\ line'[n] = r /\ \A i \in 1..n : i \in 1..Len(line) \/ i = n
    BY <1>4, <1>5, <2>1, <2>4
  <2>6. ASSUME NEW i \in 1..Len(line)
        PROVE  line'[i] = line[i] /\ line[i] \in Requests \ {r}
    BY <1>4, <1>5, <2>1
  <2>7. \A i \in 1..Len(line) : LineVote(i, a)' <=> LineVote(i, a)
    BY <1>3, <2>6 DEF LineVote, Article
  <2>8. LineVote(n, a)' <=> EmitVote(r, a)
    BY <1>1, <1>3, <2>5 DEF LineVote, EmitVote, Article
  <2>9. n \in 1..n /\ \A i \in 1..Len(line) : i \in 1..n /\ n > i
    BY <1>5, <2>4
  <2>10. ASSUME \A q \in Requests : ~EmitVote(q, a)' PROVE LineInOrder(a)'
    <3>1. CASE EmitVote(r, a)
      <4>1. request[r].signal = feedback[a].vote
        BY <2>2, <3>1 DEF InOrder
      <4>2. \A i \in 1..n : LastVote(i, a)' => i = n
        BY <2>5, <2>8, <2>9, <3>1 DEF LastVote
      <4> QED BY <1>2, <1>3, <2>5, <2>8, <2>9, <3>1, <4>1, <4>2 DEF LineInOrder
    <3>2. CASE ~EmitVote(r, a)
      <4>1. LineInOrder(a)
        BY <2>2, <2>3, <2>10, <3>2 DEF InOrder
      <4>2. \A i \in 1..n : LastVote(i, a)' => i \in 1..Len(line) /\ LastVote(i, a)
        BY <2>5, <2>7, <2>8, <2>9, <3>2 DEF LastVote
      <4>3. \A i \in 1..n : LastVote(i, a)' => request'[line'[i]].signal = feedback'[a].vote
        BY <1>2, <1>3, <2>6, <4>1, <4>2 DEF LineInOrder
      <4>4. (\A i \in 1..n : ~LineVote(i, a)') => \A i \in 1..Len(line) : ~LineVote(i, a)
        BY <2>7, <2>9
      <4> QED BY <1>2, <2>5, <4>1, <4>3, <4>4 DEF LineInOrder
    <3> QED BY <3>1, <3>2
  <2>11. \A q \in Requests : EmitVote(q, a)' => request'[q].signal = feedback'[a].vote
    BY <1>2, <1>3, <2>2, <2>3 DEF InOrder
  <2>12. \A p, q \in Requests : EmitVote(p, a)' /\ EmitVote(q, a)' => p = q
    BY <2>2, <2>3 DEF InOrder
  <2> QED BY <2>10, <2>11, <2>12 DEF InOrder
<1> QED BY <1>6, <1>7, <1>8, <1>9 DEF ReaderInv

\* The score at the head of the line overwrites the one of its name, because
\* they have one timestamp.
LEMMA PostKeeps ==
    ASSUME ReaderInv, Post
    PROVE  ReaderInv' /\ RowsStay
<1> DEFINE r == Head(line)
           b == Article(r)
           score == Score(r)
<1>1. /\ TypeOK /\ Dated /\ Lined /\ ScoresDated /\ OneScorePerName
      /\ line \in Seq(Requests) /\ line # <<>>
  BY DEF ReaderInv, TypeOK, Post, Sink!Settle
<1>2. /\ r \in Requests /\ r = line[1] /\ line' = Tail(line) /\ Tail(line) \in Seq(Requests)
      /\ Len(line) \in Nat /\ Len(line) >= 1 /\ Len(Tail(line)) = Len(line) - 1
      /\ \A i \in 1..Len(line) - 1 : Tail(line)[i] = line[i + 1]
  BY <1>1, HeadTailProperties, LenProperties, EmptySeq DEF Post, Sink!Settle
<1>3. request[r].at = "ok" /\ DatedAs(r)
  BY <1>1, <1>2 DEF Lined, Dated
<1>4. b \in Articles /\ request[r].signal \in Votes \union {"open"}
  BY <1>3 DEF DatedAs
<1>5. /\ UNCHANGED <<now, opened, feedback, request, overlapped>>
      /\ fate' = [fate EXCEPT ![r] = "settled"]
      /\ \/ /\ langfuse' = [langfuse EXCEPT ![b] =
                  {s \in langfuse[b] : ~SameScore(s, score)} \union {score}]
            /\ UNCHANGED lossy
         \/ lossy' = TRUE /\ UNCHANGED langfuse
  BY DEF Post, Sink!Settle
<1>6. /\ score \in Scores
      /\ request[r].signal = "open" =>
            score.name = "opened" /\ opened[b] # None /\ score.at = opened[b]
      /\ request[r].signal \in Votes =>
            /\ score.name = "user_vote" /\ score.value = request[r].signal
            /\ feedback[b].vote # None /\ score.at = feedback[b].created
  <2>1. request[r].first \in Times
    BY <1>1, <1>2 DEF TypeOK
  <2>2. CASE request[r].signal = "open"
    BY <1>3, <2>1, <2>2 DEF DatedAs, Score, Scores, Votes
  <2>3. CASE request[r].signal \in Votes
    BY <1>3, <2>1, <2>3 DEF DatedAs, Score, Scores, Votes
  <2> QED BY <1>4, <2>2, <2>3
<1> HIDE DEF score
<1>7. TypeOK'
  <2>1. langfuse' \in [Articles -> SUBSET Scores]
    <3>1. {s \in langfuse[b] : ~SameScore(s, score)} \union {score} \in SUBSET Scores
      BY <1>1, <1>4, <1>6 DEF TypeOK
    <3> QED BY <1>1, <1>5, <3>1 DEF TypeOK
  <2>2. fate' \in [Requests -> {"new", "accepted", "dropped", "settled"}]
    BY <1>1, <1>5 DEF TypeOK
  <2>3. lossy' \in BOOLEAN
    BY <1>1, <1>5 DEF TypeOK
  <2> QED BY <1>1, <1>2, <1>5, <2>1, <2>2, <2>3 DEF TypeOK
<1>8. Dated' /\ RowsStay
  BY <1>1, <1>5 DEF Dated, DatedAs, Article, RowsStay
<1>9. Lined'
  BY <1>1, <1>2, <1>5 DEF Lined
<1>10. \A a \in Articles : \A s \in langfuse'[a] :
          \/ s \in langfuse[a] /\ (a = b => ~SameScore(s, score) \/ UNCHANGED langfuse)
          \/ a = b /\ s = score
  BY <1>1, <1>4, <1>5 DEF TypeOK
<1>11. ScoresDated'
  BY <1>1, <1>4, <1>5, <1>6, <1>10 DEF ScoresDated, Votes
<1>12. OneScorePerName'
  <2>1. CASE UNCHANGED langfuse
    BY <1>1, <2>1 DEF OneScorePerName
  <2>2. CASE ~UNCHANGED langfuse
    <3>1. ASSUME NEW s \in langfuse[b], ~SameScore(s, score) PROVE s.name # score.name
      BY <1>1, <1>4, <1>6, <3>1 DEF SameScore, ScoresDated
    <3> QED BY <1>1, <1>4, <1>10, <2>2, <3>1 DEF OneScorePerName
  <2> QED BY <2>1, <2>2
<1>13. VotesInOrder'
  <2> SUFFICES ASSUME ~lossy', NEW a \in Articles \ overlapped' PROVE InOrder(a)'
    BY DEF VotesInOrder
  <2>1. InOrder(a) /\ ~lossy
    BY <1>5 DEF ReaderInv, VotesInOrder
  <2>2. \A q \in Requests : EmitVote(q, a)' <=> EmitVote(q, a)
    BY <1>5 DEF EmitVote, Article
  <2>3. PICK n \in Nat : n = Len(line) - 1
    <3>1. Len(line) - 1 \in Nat
      BY <1>2
    <3> QED BY <3>1
  <2>4. /\ Len(line') = n /\ Len(line) = n + 1
        /\ \A i \in 1..n : i + 1 \in 1..n + 1 /\ line'[i] = line[i + 1]
        /\ \A i \in 1..n + 1 : i = 1 \/ (i - 1 \in 1..n /\ (i - 1) + 1 = i)
    BY <1>2, <2>3
  <2>5. \A i \in 1..n : LineVote(i, a)' <=> LineVote(i + 1, a)
    BY <1>5, <2>4 DEF LineVote, Article
  <2>6. ASSUME NEW i \in 1..n, LastVote(i, a)' PROVE LastVote(i + 1, a)
    <3>1. ASSUME NEW j \in 1..n + 1, j > i + 1 PROVE ~LineVote(j, a)
      <4>1. j - 1 \in 1..n /\ j - 1 > i /\ (j - 1) + 1 = j
        BY <3>1
      <4> QED BY <2>4, <2>5, <2>6, <4>1 DEF LastVote
    <3> QED BY <2>4, <2>5, <2>6, <3>1 DEF LastVote
  <2>7. ASSUME LineInOrder(a) PROVE LineInOrder(a)'
    <3>1. \A i \in 1..n : LastVote(i, a)' => request'[line'[i]].signal = feedback'[a].vote
      BY <1>5, <2>4, <2>6, <2>7 DEF LineInOrder
    <3>2. ASSUME \A i \in 1..n : ~LineVote(i, a)', NEW s \in langfuse'[a], s.name = "user_vote"
          PROVE  s.value = feedback'[a].vote
      <4>1. \A j \in 1..n + 1 : j > 1 => ~LineVote(j, a)
        BY <2>4, <2>5, <3>2
      <4>2. 1 \in 1..n + 1
        BY <2>3
      <4>3. CASE LineVote(1, a)
        <5>1. LastVote(1, a)
          BY <2>4, <4>1, <4>3 DEF LastVote
        <5>2. request[r].signal = feedback[a].vote /\ request[r].signal \in Votes /\ b = a
          BY <1>2, <2>4, <2>7, <4>2, <4>3, <5>1 DEF LineInOrder, LineVote
        <5>3. score \in langfuse'[b]
          BY <1>1, <1>4, <1>5 DEF TypeOK
        <5>4. s = score
          BY <1>6, <1>12, <3>2, <5>2, <5>3 DEF OneScorePerName
        <5> QED BY <1>5, <1>6, <5>2, <5>4
      <4>4. CASE ~LineVote(1, a)
        <5>1. \A j \in 1..n + 1 : ~LineVote(j, a)
          BY <4>1, <4>4
        <5>2. \A t \in langfuse[a] : t.name = "user_vote" => t.value = feedback[a].vote
          BY <2>4, <2>7, <5>1 DEF LineInOrder
        <5>3. s \in langfuse[a]
          BY <1>2, <1>4, <1>6, <1>10, <3>2, <4>4 DEF LineVote
        <5> QED BY <1>5, <3>2, <5>2, <5>3
      <4> QED BY <4>3, <4>4
    <3> QED BY <2>4, <3>1, <3>2 DEF LineInOrder
  <2>8. \A q \in Requests : EmitVote(q, a)' => request'[q].signal = feedback'[a].vote
    BY <1>5, <2>1, <2>2 DEF InOrder
  <2> QED BY <2>1, <2>2, <2>7, <2>8 DEF InOrder
<1> QED BY <1>7, <1>8, <1>9, <1>11, <1>12, <1>13 DEF ReaderInv

\* A tick of the clock.
LEMMA TickKeeps == ReaderInv /\ Tick => ReaderInv' /\ RowsStay
<1> SUFFICES ASSUME ReaderInv, Tick PROVE ReaderInv' /\ RowsStay
  OBVIOUS
<1>1. /\ now < MaxTime /\ now' = now + 1
      /\ UNCHANGED <<opened, feedback, request, fate, line, langfuse, lossy, overlapped>>
  BY DEF Tick
<1>2. now' \in Times
  BY <1>1, ReaderSignalsAssumption DEF ReaderInv, TypeOK, Times
<1>3. TypeOK' /\ RowsStay
  BY <1>1, <1>2 DEF ReaderInv, TypeOK, RowsStay
<1>4. Dated' /\ Lined' /\ ScoresDated' /\ OneScorePerName'
  BY <1>1 DEF ReaderInv, Dated, DatedAs, Article, Lined, ScoresDated, OneScorePerName
<1>5. VotesInOrder'
  BY <1>1
  DEF ReaderInv, VotesInOrder, InOrder, LineInOrder, LastVote, LineVote, EmitVote, Article
<1> QED BY <1>3, <1>4, <1>5 DEF ReaderInv

\* The server's steps keep what the reader is promised.
LEMMA SignalsKeep == ReaderInv /\ Signals => ReaderInv' /\ RowsStay
  BY TickKeeps, OpenKeeps, VoteKeeps, StoreFailsKeeps, EmitKeeps, PostKeeps DEF Signals

\* Import's transaction adds what a row does not have.
LEMMA WriteIs ==
    ASSUME TypeOK, legacy \in Seq(LegacyRows), NEW u \in Articles, Write(u)
    PROVE  /\ RowsStay
           /\ opened' \in [Articles -> Times \union {None}]
           /\ feedback' \in [Articles -> [vote: Votes \union {None}, created: Times,
                                          updated: Times]]
           /\ opened'[u] = IF opened[u] = None THEN EarliestOpen(u) ELSE opened[u]
           /\ feedback[u].vote # None => feedback'[u] = feedback[u]
           /\ feedback[u].vote = None => feedback'[u].vote = CurrentVote(u).vote
           /\ \A a \in Articles \ {u} : opened'[a] = opened[a] /\ feedback'[a] = feedback[a]
<1> USE ReaderSignalsAssumption
<1>1. /\ EarliestOpen(u) \in Times \union {None}
      /\ CurrentVote(u).vote \in Votes \union {None}
      /\ CurrentVote(u).voted \in Times \union {None} /\ now \in Times
  BY EarliestOpenIs, CurrentVoteOfRows DEF TypeOK
<1>2. /\ opened' \in [Articles -> Times \union {None}]
      /\ opened'[u] = IF opened[u] = None THEN EarliestOpen(u) ELSE opened[u]
      /\ \A a \in Articles \ {u} : opened'[a] = opened[a]
  BY <1>1 DEF TypeOK, Write, KeptFirst
<1> DEFINE at == IF CurrentVote(u).voted = None THEN now ELSE CurrentVote(u).voted
           vote == CurrentVote(u).vote
           next == IF feedback[u].vote = None /\ vote # None
                   THEN [vote |-> vote, created |-> at, updated |-> now] ELSE feedback[u]
<1>3. feedback' = [feedback EXCEPT ![u] = next]
  BY DEF Write
<1>4. next \in [vote: Votes \union {None}, created: Times, updated: Times]
  BY <1>1 DEF TypeOK
<1>5. /\ feedback' \in [Articles -> [vote: Votes \union {None}, created: Times, updated: Times]]
      /\ feedback'[u] = next /\ \A a \in Articles \ {u} : feedback'[a] = feedback[a]
  BY <1>3, <1>4 DEF TypeOK
<1>6. /\ feedback[u].vote # None => next = feedback[u]
      /\ feedback[u].vote = None => next.vote = vote
  OBVIOUS
<1> HIDE DEF next
<1>7. RowsStay
  BY <1>2, <1>5, <1>6 DEF RowsStay
<1> QED BY <1>2, <1>5, <1>6, <1>7

\* A vote that is imported displaces none, so no score was sent for the row.
LEMMA WriteKeeps ==
    ASSUME ReaderInv, legacy \in Seq(LegacyRows), NEW u \in Articles, Write(u),
           UNCHANGED reader
    PROVE  ReaderInv' /\ RowsStay
<1>1. /\ TypeOK /\ Dated /\ Lined /\ ScoresDated /\ OneScorePerName
      /\ UNCHANGED <<now, request, fate, line, langfuse, lossy, overlapped>>
  BY DEF ReaderInv, reader
<1>2. /\ RowsStay /\ opened' \in [Articles -> Times \union {None}]
      /\ feedback' \in [Articles -> [vote: Votes \union {None}, created: Times, updated: Times]]
      /\ \A a \in Articles : feedback[a].vote # None => feedback'[a].vote = feedback[a].vote
      /\ \A a \in Articles \ {u} : feedback'[a].vote = feedback[a].vote
  BY <1>1, WriteIs
<1>3. TypeOK'
  BY <1>1, <1>2 DEF TypeOK
<1>4. Dated' /\ Lined' /\ ScoresDated' /\ OneScorePerName'
  BY <1>1, <1>2 DEF Dated, DatedAs, Article, Lined, ScoresDated, OneScorePerName, RowsStay
<1>5. VotesInOrder'
  <2> SUFFICES ASSUME ~lossy', NEW a \in Articles \ overlapped' PROVE InOrder(a)'
    BY DEF VotesInOrder
  <2>1. InOrder(a)
    BY <1>1 DEF ReaderInv, VotesInOrder
  <2>2. /\ \A r \in Requests : EmitVote(r, a)' <=> EmitVote(r, a)
        /\ \A i \in 1..Len(line) : /\ LineVote(i, a)' <=> LineVote(i, a)
                                   /\ LastVote(i, a)' <=> LastVote(i, a)
    BY <1>1 DEF EmitVote, LineVote, LastVote, Article
  <2>3. CASE feedback'[a].vote = feedback[a].vote
    BY <1>1, <2>1, <2>2, <2>3 DEF InOrder, LineInOrder
  <2>4. CASE feedback[a].vote = None
    <3>1. \A r \in Requests : ~EmitVote(r, a)
      BY <1>1, <2>4 DEF EmitVote, Dated, DatedAs, Article
    <3>2. ASSUME NEW i \in 1..Len(line) PROVE ~LineVote(i, a)
      <4>1. line[i] \in Requests /\ request[line[i]].at = "ok"
        BY <1>1, ElementOfSeq DEF TypeOK, Lined
      <4> QED BY <1>1, <2>4, <4>1 DEF LineVote, Dated, DatedAs, Article
    <3>3. \A s \in langfuse[a] : s.name # "user_vote"
      BY <1>1, <2>4 DEF ScoresDated
    <3> QED BY <1>1, <2>2, <3>1, <3>2, <3>3 DEF InOrder, LineInOrder, LastVote
  <2> QED BY <1>2, <2>3, <2>4
<1> QED BY <1>2, <1>3, <1>4, <1>5 DEF ReaderInv

-----------------------------------------------------------------------------
(* The runs                                                                *)

RunStates ==
    [at: {"off", "bookmarks", "records", "done", "aborted"},
     apply: BOOLEAN, left: SUBSET Articles, item: Articles \union {None},
     result: SUBSET Indexed, tally: [Classes -> Tally],
     landed: [Classes -> Nat], raced: SUBSET Articles]

\* A run works on one item of what is left, and writes only if it applies.
RunFits ==
    /\ run.at = "off" => ~run.apply
    /\ run.item # None => Running /\ run.apply /\ run.item \in run.left
    /\ run.at = "bookmarks" => run.left \subseteq Bookmarks /\ run.raced = {}
    /\ run.at = "records" => run.left \subseteq Records
    /\ run.at \in {"done", "aborted"} => run.left = {}
    /\ IsFiniteSet(run.raced)

\* Between the lookup and the Create, nobody else adds a Bookmark.
NothingThere == run.at = "bookmarks" /\ run.item # None => karakeep[run.item] = 0

\* Between the lookup and the import, what an import would add only shrinks,
\* and only if the server wrote the record.
LookupHolds ==
    run.at = "records" /\ run.item # None =>
        /\ Outcome(run.item) \subseteq run.result /\ run.result \subseteq Carried(run.item)
        /\ run.item \notin run.raced => run.result = Outcome(run.item)

\* CountsHonest with only the records that are done with.
CountsFit ==
    run.apply => \A c \in Classes :
        /\ run.landed[c] <= run.tally[c].destination + run.tally[c].failed
        /\ run.tally[c].destination <= run.landed[c] + Cardinality(run.raced \ run.left)

\* An Article that the reader never touched has nothing but its history.
HistoryOnly ==
    \A u \in Articles : (\A r \in Requests : Article(r) # u) =>
        /\ opened[u] \in {None, EarliestOpen(u)}
        /\ feedback[u].vote \in {None, CurrentVote(u).vote}

NoFailures == \A c \in Classes : run.tally[c].failed = 0

Settled(u) ==
    /\ row[u] # None
    /\ EarliestOpen(u) # None => opened[u] # None
    /\ CurrentVote(u).vote # None => feedback[u].vote # None

\* An applied run that did not fail stored all that it is done with.
DoneSoFar ==
    run.apply /\ NoFailures =>
        /\ \A u \in Bookmarks : \/ karakeep[u] > 0
                                \/ run.at = "bookmarks" /\ u \in run.left
        /\ run.at \in {"records", "done", "aborted"} =>
              \A u \in Records \ run.left : Settled(u)

IInv ==
    /\ ReaderInv /\ MigrationTypeOK
    /\ RunFits /\ NothingThere /\ BookmarkOnce /\ LookupHolds /\ CountsFit
    /\ HistoryOnly /\ DoneSoFar

\* The invariant's types.
LEMMA RunTyped ==
    ASSUME IInv
    PROVE  /\ TypeOK /\ legacy \in LegacyTables /\ legacy \in Seq(LegacyRows)
           /\ row \in [Articles -> {"live", "migrated", None}]
           /\ karakeep \in [Articles -> Nat] /\ run \in RunStates
  BY OwnershipMigrationAssumption DEF IInv, MigrationTypeOK, RunStates

\* One more in a counter.
LEMMA OneMore ==
    ASSUME NEW t \in Tally, NEW counter \in {"destination", "duplicate", "failed"},
           NEW next, next = [t EXCEPT ![counter] = @ + 1]
    PROVE  /\ next \in Tally
           /\ next.destination = t.destination + (IF counter = "destination" THEN 1 ELSE 0)
           /\ next.failed = t.failed + (IF counter = "failed" THEN 1 ELSE 0)
<1>1. CASE counter = "destination"
  BY <1>1 DEF Tally
<1>2. CASE counter = "duplicate"
  BY <1>2 DEF Tally
<1>3. CASE counter = "failed"
  BY <1>3 DEF Tally
<1> QED BY <1>1, <1>2, <1>3

\* The run that counted the classes of an item, each under its outcome.
CountedAs(next, u, D, outcome) ==
    /\ next \in RunStates
    /\ next.at = run.at /\ next.apply = run.apply /\ next.left = run.left \ {u}
    /\ next.item = None /\ next.landed = run.landed /\ next.raced = run.raced
    /\ \A c \in Classes :
          /\ next.tally[c].destination = run.tally[c].destination
                + (IF c \in D /\ outcome[c] = "destination" THEN 1 ELSE 0)
          /\ next.tally[c].failed = run.tally[c].failed
                + (IF c \in D /\ outcome[c] = "failed" THEN 1 ELSE 0)

\* Each class of the counted item is one more in its counter.
LEMMA CountedIs ==
    ASSUME run \in RunStates
    PROVE  \A u \in Articles, D \in SUBSET Classes :
              \A outcome \in [D -> {"destination", "duplicate", "failed"}] :
                 CountedAs(Counted(u, outcome), u, D, outcome)
<1> SUFFICES ASSUME NEW u \in Articles, NEW D \in SUBSET Classes,
                    NEW outcome \in [D -> {"destination", "duplicate", "failed"}]
             PROVE  CountedAs(Counted(u, outcome), u, D, outcome)
  OBVIOUS
<1> DEFINE tally == [c \in Classes |->
                       IF c \in DOMAIN outcome
                       THEN [run.tally[c] EXCEPT ![outcome[c]] = @ + 1]
                       ELSE run.tally[c]]
           next == [run EXCEPT !.left = @ \ {u}, !.item = None, !.result = {}, !.tally = tally]
<1>1. Counted(u, outcome) = next
  BY DEF Counted
<1>2. ASSUME NEW c \in Classes
      PROVE  /\ tally[c] \in Tally
             /\ tally[c].destination = run.tally[c].destination
                   + (IF c \in D /\ outcome[c] = "destination" THEN 1 ELSE 0)
             /\ tally[c].failed = run.tally[c].failed
                   + (IF c \in D /\ outcome[c] = "failed" THEN 1 ELSE 0)
  <2>1. run.tally[c] \in Tally
    BY DEF RunStates
  <2>2. CASE c \in D
    <3>1. outcome[c] \in {"destination", "duplicate", "failed"} /\ c \in DOMAIN outcome
      BY <2>2
    <3>2. tally[c] = [run.tally[c] EXCEPT ![outcome[c]] = @ + 1]
      BY <3>1
    <3>3. PICK t \in Tally, counter \in {"destination", "duplicate", "failed"} :
             t = run.tally[c] /\ counter = outcome[c]
      BY <2>1, <3>1
    <3>4. PICK after : after = tally[c]
      OBVIOUS
    <3> HIDE DEF tally
    <3>5. after = [t EXCEPT ![counter] = @ + 1]
      BY <3>2, <3>3, <3>4
    <3>6. /\ after \in Tally
          /\ after.destination = t.destination + (IF counter = "destination" THEN 1 ELSE 0)
          /\ after.failed = t.failed + (IF counter = "failed" THEN 1 ELSE 0)
      BY <3>5, OneMore
    <3> QED BY <2>2, <3>3, <3>4, <3>6
  <2>3. CASE c \notin D
    <3>1. tally[c] = run.tally[c]
      BY <2>3
    <3> HIDE DEF tally
    <3> QED BY <2>1, <2>3, <3>1 DEF Tally
  <2> QED BY <2>2, <2>3
<1>3. tally \in [Classes -> Tally]
  BY <1>2
<1> HIDE DEF tally
<1>4. /\ next \in RunStates
      /\ next.at = run.at /\ next.apply = run.apply /\ next.left = run.left \ {u}
      /\ next.item = None /\ next.landed = run.landed /\ next.raced = run.raced
      /\ next.tally = tally
  BY <1>3 DEF RunStates
<1> QED BY <1>1, <1>2, <1>4 DEF CountedAs

\* The same with one outcome for all of some classes.
LEMMA CountedSame ==
    ASSUME run \in RunStates
    PROVE  \A u \in Articles, D \in SUBSET Classes :
              \A counter \in {"destination", "duplicate", "failed"} :
                 CountedAs(Counted(u, As(D, counter)), u, D, As(D, counter))
  BY CountedIs DEF As

\* History: what landed is noted.
LEMMA LandedIs ==
    ASSUME NEW counted \in RunStates, NEW classes \in SUBSET Classes,
           NEW next, next = Landed(counted, classes)
    PROVE  /\ next \in RunStates
           /\ next.at = counted.at /\ next.apply = counted.apply /\ next.left = counted.left
           /\ next.item = counted.item /\ next.tally = counted.tally
           /\ next.raced = counted.raced
           /\ \A c \in Classes :
                 next.landed[c] = counted.landed[c] + (IF c \in classes THEN 1 ELSE 0)
<1> DEFINE landed == [c \in Classes |->
                        IF c \in classes THEN counted.landed[c] + 1 ELSE counted.landed[c]]
<1>1. next = [counted EXCEPT !.landed = landed]
  BY DEF Landed
<1>2. /\ landed \in [Classes -> Nat]
      /\ \A c \in Classes : landed[c] = counted.landed[c] + (IF c \in classes THEN 1 ELSE 0)
  BY DEF RunStates
<1> HIDE DEF landed
<1>3. /\ next \in RunStates
      /\ next.at = counted.at /\ next.apply = counted.apply /\ next.left = counted.left
      /\ next.item = counted.item /\ next.tally = counted.tally
      /\ next.raced = counted.raced /\ next.landed = landed
  BY <1>1, <1>2 DEF RunStates
<1> QED BY <1>2, <1>3

\* A step of the run alone: the destinations and the reader stay.
LEMMA RunOnly ==
    ASSUME IInv, UNCHANGED <<legacy, row, karakeep, vars>>, run' \in RunStates
    PROVE  /\ ReaderInv' /\ MigrationTypeOK' /\ BookmarkOnce' /\ HistoryOnly'
           /\ Bookmarks' = Bookmarks /\ Records' = Records
           /\ \A u : /\ Outcome(u)' = Outcome(u) /\ Carried(u)' = Carried(u)
                     /\ Settled(u)' <=> Settled(u)
<1>1. UNCHANGED <<now, opened, feedback, request, fate, line, langfuse, lossy, overlapped>>
  BY DEF vars
<1>2. TypeOK' /\ BookmarkOnce' /\ MigrationTypeOK'
  BY <1>1 DEF IInv, MigrationTypeOK, TypeOK, BookmarkOnce, RunStates
<1>3. Dated' /\ Lined' /\ ScoresDated' /\ OneScorePerName'
  BY <1>1 DEF IInv, ReaderInv, Dated, DatedAs, Article, Lined, ScoresDated, OneScorePerName
<1>4. VotesInOrder'
  BY <1>1 DEF IInv, ReaderInv, VotesInOrder, InOrder, LineInOrder, LastVote, LineVote,
              EmitVote, Article
<1>5. HistoryOnly'
  BY <1>1, ClassifySame DEF IInv, HistoryOnly, Article
<1>6. \A u : /\ Outcome(u)' = Outcome(u) /\ Carried(u)' = Carried(u)
             /\ Settled(u)' <=> Settled(u)
  BY <1>1, ClassifySame DEF Outcome, Settled
<1> QED BY <1>2, <1>3, <1>4, <1>5, <1>6, ClassifySame DEF ReaderInv

\* What is carried is of the Article Index's classes.
LEMMA CarriedIs ==
    /\ \A u : Carried(u) \subseteq Indexed /\ Outcome(u) \subseteq Carried(u)
    /\ Indexed \subseteq Classes /\ "saved_urls" \in Classes \ Indexed
  BY DEF Carried, Outcome, Indexed, Classes

\* A run starts from the old tables again and has done nothing.
LEMMA StartKeeps ==
    ASSUME IInv, NEW apply \in BOOLEAN, Start(apply)
    PROVE  IInv'
<1> DEFINE tally == NoTally
           landed == [c \in Classes |-> 0]
<1>1. run' = [at |-> "bookmarks", apply |-> apply, left |-> Bookmarks, item |-> None,
              result |-> {}, tally |-> tally, landed |-> landed, raced |-> {}]
  <2>1. run' = [NoRun EXCEPT !.at = "bookmarks", !.apply = apply, !.left = Bookmarks]
    BY DEF Start
  <2> QED BY <2>1 DEF NoRun
<1>2. /\ tally \in [Classes -> Tally] /\ landed \in [Classes -> Nat]
      /\ \A c \in Classes : tally[c].destination = 0 /\ tally[c].failed = 0 /\ landed[c] = 0
  BY DEF NoTally, Tally
<1> HIDE DEF tally, landed
<1>3. Bookmarks \subseteq Articles
  BY DEF Bookmarks
<1>4. run' \in RunStates
  BY <1>1, <1>2, <1>3 DEF RunStates
<1>5. UNCHANGED <<legacy, row, karakeep, vars>>
  BY DEF Start
<1>6. Bookmarks' = Bookmarks
  BY <1>5, ClassifySame
<1>7. RunFits' /\ NothingThere' /\ LookupHolds'
  BY <1>1, <1>6, FS_EmptySet DEF RunFits, NothingThere, LookupHolds
<1>8. CountsFit'
  <2>1. Cardinality({} \ Bookmarks) = 0
    <3>1. {} \ Bookmarks = {}
      OBVIOUS
    <3> QED BY <3>1, FS_EmptySet
  <2> QED BY <1>1, <1>2, <2>1 DEF CountsFit
<1>9. DoneSoFar'
  BY <1>1, <1>6 DEF DoneSoFar
<1> QED BY <1>4, <1>5, <1>7, <1>8, <1>9, RunOnly DEF IInv

\* Only the dead run is forgotten.
LEMMA DieKeeps == IInv /\ Die => IInv'
<1> SUFFICES ASSUME IInv, Die PROVE IInv'
  OBVIOUS
<1>1. run' = NoRun /\ UNCHANGED <<legacy, row, karakeep, vars>>
  BY DEF Die
<1>2. NoTally \in [Classes -> Tally] /\ [c \in Classes |-> 0] \in [Classes -> Nat]
  BY DEF NoTally, Tally
<1>3. run' \in RunStates
  BY <1>1, <1>2 DEF NoRun, RunStates
<1>4. run'.at = "off" /\ run'.apply = FALSE /\ run'.item = None /\ run'.raced = {}
  BY <1>1 DEF NoRun
<1>5. RunFits' /\ NothingThere' /\ LookupHolds' /\ CountsFit' /\ DoneSoFar'
  BY <1>4, FS_EmptySet DEF RunFits, NothingThere, LookupHolds, CountsFit, DoneSoFar
<1> QED BY <1>1, <1>3, <1>5, RunOnly DEF IInv

\* The records come after the Bookmarks.
LEMMA ToRecordsKeeps == IInv /\ ToRecords => IInv'
<1> SUFFICES ASSUME IInv, ToRecords PROVE IInv'
  OBVIOUS
<1>1. /\ run.at = "bookmarks" /\ run.left = {} /\ run \in RunStates
      /\ UNCHANGED <<legacy, row, karakeep, vars>>
  BY RunTyped DEF ToRecords
<1>2. Records \subseteq Articles
  BY DEF Records
<1>3. /\ run' \in RunStates /\ run'.at = "records" /\ run'.left = Records
      /\ run'.item = run.item /\ run'.apply = run.apply /\ run'.raced = run.raced
      /\ run'.tally = run.tally /\ run'.landed = run.landed
  BY <1>1, <1>2 DEF ToRecords, RunStates
<1>4. run.item = None /\ run.raced = {}
  BY <1>1 DEF IInv, RunFits
<1>5. Bookmarks' = Bookmarks /\ Records' = Records
  BY <1>1, ClassifySame
<1>6. RunFits' /\ NothingThere' /\ LookupHolds'
  BY <1>3, <1>4, <1>5, FS_EmptySet DEF RunFits, NothingThere, LookupHolds
<1>7. CountsFit'
  <2>1. run.raced \ run.left = {} /\ run'.raced \ run'.left = {}
    BY <1>3, <1>4
  <2> QED BY <1>3, <2>1 DEF IInv, CountsFit
<1>8. DoneSoFar'
  BY <1>1, <1>3, <1>5 DEF IInv, DoneSoFar, NoFailures
<1> QED BY <1>1, <1>3, <1>6, <1>7, <1>8, RunOnly DEF IInv

\* The report is printed, or the run ends with an error.
LEMMA SampleKeeps == IInv /\ Sample => IInv'
<1> SUFFICES ASSUME IInv, Sample PROVE IInv'
  OBVIOUS
<1>1. /\ run.at = "records" /\ run.left = {} /\ run \in RunStates
      /\ UNCHANGED <<legacy, row, karakeep, vars>>
  BY RunTyped DEF Sample
<1>2. /\ run' \in RunStates /\ run'.at \in {"done", "aborted"} /\ run'.left = run.left
      /\ run'.item = run.item /\ run'.apply = run.apply /\ run'.raced = run.raced
      /\ run'.tally = run.tally /\ run'.landed = run.landed
  BY <1>1 DEF Sample, RunStates
<1>3. run.item = None
  BY <1>1 DEF IInv, RunFits
<1>4. RunFits' /\ NothingThere' /\ LookupHolds' /\ CountsFit'
  BY <1>1, <1>2, <1>3 DEF IInv, RunFits, NothingThere, LookupHolds, CountsFit
<1>5. DoneSoFar'
  BY <1>1, <1>2, ClassifySame, RunOnly DEF IInv, DoneSoFar, NoFailures
<1> QED BY <1>1, <1>2, <1>4, <1>5, RunOnly DEF IInv

\* A counter that grows: what is promised of the counts stays promised.
LEMMA CountedFits ==
    ASSUME IInv, NEW u \in run.left, run' \in RunStates,
           run'.apply = run.apply, run'.left = run.left \ {u}, run'.raced = run.raced,
           \A c \in Classes :
              /\ run'.tally[c].destination >= run.tally[c].destination
              /\ run'.tally[c].failed >= run.tally[c].failed
              /\ run'.landed[c] >= run.landed[c]
              /\ (run'.landed[c] - run.landed[c]) <=
                    (run'.tally[c].destination - run.tally[c].destination)
                    + (run'.tally[c].failed - run.tally[c].failed)
              /\ (run'.tally[c].destination - run.tally[c].destination) <=
                    (run'.landed[c] - run.landed[c]) + (IF u \in run.raced THEN 1 ELSE 0)
    PROVE  CountsFit'
<1> SUFFICES ASSUME run'.apply, NEW c \in Classes
             PROVE  /\ run'.landed[c] <= run'.tally[c].destination + run'.tally[c].failed
                    /\ run'.tally[c].destination
                          <= run'.landed[c] + Cardinality(run'.raced \ run'.left)
  BY DEF CountsFit
<1> DEFINE R == run.raced \ run.left
           S == run'.raced \ run'.left
<1>1. run \in RunStates /\ IsFiniteSet(run.raced)
  BY RunTyped DEF IInv, RunFits
<1>2. IsFiniteSet(R) /\ Cardinality(R) \in Nat
  BY <1>1, FS_Subset, FS_CardinalityType
<1>3. Cardinality(S) \in Nat /\ Cardinality(S) = Cardinality(R) + (IF u \in run.raced THEN 1 ELSE 0)
  <2>1. CASE u \in run.raced
    <3>1. S = R \union {u} /\ u \notin R
      BY <2>1
    <3> HIDE DEF R, S
    <3>2. Cardinality(R \union {u}) = Cardinality(R) + 1
      BY <1>2, <3>1, FS_AddElement
    <3>3. Cardinality(S) = Cardinality(R) + 1
      BY <3>1, <3>2
    <3> QED BY <1>2, <2>1, <3>3
  <2>2. CASE u \notin run.raced
    <3>1. S = R
      BY <2>2
    <3> HIDE DEF R, S
    <3> QED BY <1>2, <2>2, <3>1
  <2> QED BY <2>1, <2>2
<1> HIDE DEF R, S
<1>4. /\ run.tally[c] \in Tally /\ run'.tally[c] \in Tally
      /\ run.landed[c] \in Nat /\ run'.landed[c] \in Nat
  BY <1>1 DEF RunStates
<1>5. /\ run.landed[c] <= run.tally[c].destination + run.tally[c].failed
      /\ run.tally[c].destination <= run.landed[c] + Cardinality(R)
  BY DEF IInv, CountsFit, R
<1>6. CASE u \in run.raced
  BY <1>2, <1>3, <1>4, <1>5, <1>6 DEF Tally, S
<1>7. CASE u \notin run.raced
  BY <1>2, <1>3, <1>4, <1>5, <1>7 DEF Tally, S
<1> QED BY <1>6, <1>7

\* The lookup of a Bookmark: counted at once, or found absent and to be saved.
LEMMA FindBookmarkKeeps ==
    ASSUME IInv, NEW u \in Articles, FindBookmark(u)
    PROVE  IInv'
<1>1. /\ run.at = "bookmarks" /\ run.item = None /\ u \in run.left /\ run \in RunStates
      /\ UNCHANGED <<legacy, row, karakeep, vars>> /\ karakeep[u] \in Nat
      /\ run.left \subseteq Bookmarks /\ run.raced = {} /\ u # None
  BY RunTyped, OwnershipMigrationAssumption DEF FindBookmark, IInv, RunFits
<1>2. Bookmarks' = Bookmarks
  BY <1>1, ClassifySame
<1>3. CASE run' = [run EXCEPT !.item = u] /\ run.apply /\ karakeep[u] = 0
  <2>1. /\ run' \in RunStates /\ run'.at = "bookmarks" /\ run'.left = run.left
        /\ run'.item = u /\ run'.apply = run.apply /\ run'.raced = run.raced
        /\ run'.tally = run.tally /\ run'.landed = run.landed
    BY <1>1, <1>3 DEF RunStates
  <2>2. RunFits' /\ NothingThere' /\ LookupHolds' /\ CountsFit' /\ DoneSoFar'
    BY <1>1, <1>2, <1>3, <2>1
    DEF IInv, RunFits, Running, NothingThere, LookupHolds, CountsFit, DoneSoFar, NoFailures
  <2> QED BY <1>1, <2>1, <2>2, RunOnly DEF IInv
<1>4. ASSUME NEW counter \in {"destination", "duplicate", "failed"},
             run' = Counted(u, As({"saved_urls"}, counter)),
             counter = "destination" => ~run.apply,
             counter = "duplicate" => karakeep[u] > 0
      PROVE  IInv'
  <2>1. CountedAs(run', u, {"saved_urls"}, As({"saved_urls"}, counter))
    BY <1>1, <1>4, CountedSame, CarriedIs
  <2>2. /\ run' \in RunStates /\ run'.at = "bookmarks" /\ run'.left = run.left \ {u}
        /\ run'.item = None /\ run'.apply = run.apply /\ run'.raced = run.raced
        /\ run'.landed = run.landed
        /\ \A c \in Classes :
              /\ run'.tally[c].destination = run.tally[c].destination
                    + (IF c = "saved_urls" /\ counter = "destination" THEN 1 ELSE 0)
              /\ run'.tally[c].failed = run.tally[c].failed
                    + (IF c = "saved_urls" /\ counter = "failed" THEN 1 ELSE 0)
    BY <1>1, <2>1 DEF CountedAs, As
  <2>3. RunFits' /\ NothingThere' /\ LookupHolds'
    BY <1>1, <1>2, <2>2 DEF IInv, RunFits, NothingThere, LookupHolds
  <2>4. \A c \in Classes : /\ run.tally[c] \in Tally /\ run.landed[c] \in Nat
                           /\ run'.tally[c] \in Tally
    BY <1>1, <2>2 DEF RunStates
  <2>5. CountsFit'
    <3>1. CASE ~run.apply
      BY <2>2, <3>1 DEF CountsFit
    <3>2. CASE run.apply
      <4>1. \A c \in Classes : run'.tally[c].destination = run.tally[c].destination
        BY <1>4, <2>2, <2>4, <3>2 DEF Tally
      <4> QED BY <1>1, <2>2, <2>4, <4>1, CountedFits DEF Tally
    <3> QED BY <3>1, <3>2
  <2>6. DoneSoFar'
    <3> SUFFICES ASSUME run.apply, NoFailures' PROVE \A v \in Bookmarks :
                    karakeep[v] > 0 \/ v \in run.left \ {u}
      BY <1>1, <1>2, <2>2 DEF DoneSoFar
    <3>1. counter # "failed" /\ NoFailures
      <4>1. \A c \in Classes : run'.tally[c].failed = 0
        BY DEF NoFailures
      <4>2. "saved_urls" \in Classes
        BY DEF Classes
      <4> QED BY <2>2, <2>4, <4>1, <4>2 DEF NoFailures, Tally
    <3>2. karakeep[u] > 0
      BY <1>4, <3>1
    <3> QED BY <1>1, <3>1, <3>2 DEF IInv, DoneSoFar
  <2> QED BY <1>1, <2>2, <2>3, <2>5, <2>6, RunOnly DEF IInv
<1>5. PICK answer \in Answers(u) :
         run' = CASE answer = "error"  -> Counted(u, As({"saved_urls"}, "failed"))
                  [] answer = "saved"  -> Counted(u, As({"saved_urls"}, "duplicate"))
                  [] answer = "absent" -> IF run.apply THEN [run EXCEPT !.item = u]
                                          ELSE Counted(u, As({"saved_urls"}, "destination"))
  BY DEF FindBookmark
<1>6. answer = "error" \/ (answer = "saved" /\ karakeep[u] > 0)
      \/ (answer = "absent" /\ karakeep[u] = 0)
  BY <1>1, <1>5 DEF Answers
<1>7. CASE answer = "error"
  BY <1>4, <1>5, <1>7
<1>8. CASE answer = "saved" /\ karakeep[u] > 0
  BY <1>4, <1>5, <1>8
<1>9. CASE answer = "absent" /\ karakeep[u] = 0
  BY <1>3, <1>4, <1>5, <1>9
<1> QED BY <1>6, <1>7, <1>8, <1>9

\* A step that counts a Bookmark and changes nothing but Karakeep.
LEMMA SaveBookmarkKeeps ==
    ASSUME IInv, NEW u \in Articles, SaveBookmark(u)
    PROVE  IInv'
<1>1. /\ run.at = "bookmarks" /\ run.item = u /\ run \in RunStates
      /\ u # None /\ u \in run.left /\ run.apply /\ karakeep[u] = 0
      /\ run.left \subseteq Bookmarks /\ run.raced = {}
      /\ karakeep \in [Articles -> Nat] /\ UNCHANGED <<legacy, row, vars>>
  BY RunTyped, OwnershipMigrationAssumption DEF SaveBookmark, IInv, RunFits, NothingThere
<1>2. PICK counter \in {"destination", "failed"}, added \in {0, 1} :
         /\ karakeep' = [karakeep EXCEPT ![u] = @ + added]
         /\ run' = IF added = 1
                   THEN Landed(Counted(u, As({"saved_urls"}, counter)), {"saved_urls"})
                   ELSE Counted(u, As({"saved_urls"}, counter))
         /\ counter = "destination" => added = 1
  <2>1. CASE /\ karakeep' = [karakeep EXCEPT ![u] = @ + 1]
             /\ run' = Landed(Counted(u, As({"saved_urls"}, "destination")), {"saved_urls"})
    BY <2>1
  <2>2. CASE UNCHANGED karakeep /\ run' = Counted(u, As({"saved_urls"}, "failed"))
    <3>1. karakeep' = [karakeep EXCEPT ![u] = @ + 0]
      BY <1>1, <2>2
    <3>2. run' = IF 0 = 1
                 THEN Landed(Counted(u, As({"saved_urls"}, "failed")), {"saved_urls"})
                 ELSE Counted(u, As({"saved_urls"}, "failed"))
      BY <2>2
    <3>3. "failed" = "destination" => 0 = 1
      OBVIOUS
    <3> WITNESS "failed" \in {"destination", "failed"}, 0 \in {0, 1}
    <3> QED BY <3>1, <3>2, <3>3
  <2>3. CASE /\ karakeep' = [karakeep EXCEPT ![u] = @ + 1]
             /\ run' = Landed(Counted(u, As({"saved_urls"}, "failed")), {"saved_urls"})
    BY <2>3
  <2> QED BY <2>1, <2>2, <2>3 DEF SaveBookmark
<1>3. PICK counted : counted = Counted(u, As({"saved_urls"}, counter))
  OBVIOUS
<1>4. CountedAs(counted, u, {"saved_urls"}, As({"saved_urls"}, counter))
  BY <1>1, <1>3, CountedSame, CarriedIs
<1>5. /\ counted \in RunStates /\ counted.at = "bookmarks" /\ counted.left = run.left \ {u}
      /\ counted.item = None /\ counted.apply = run.apply /\ counted.raced = run.raced
      /\ counted.landed = run.landed
      /\ \A c \in Classes :
            /\ counted.tally[c].destination = run.tally[c].destination
                  + (IF c = "saved_urls" /\ counter = "destination" THEN 1 ELSE 0)
            /\ counted.tally[c].failed = run.tally[c].failed
                  + (IF c = "saved_urls" /\ counter = "failed" THEN 1 ELSE 0)
  BY <1>1, <1>4 DEF CountedAs, As
<1>6. /\ run' \in RunStates /\ run'.at = "bookmarks" /\ run'.left = run.left \ {u}
      /\ run'.item = None /\ run'.apply = run.apply /\ run'.raced = run.raced
      /\ run'.tally = counted.tally
      /\ \A c \in Classes : run'.landed[c] = run.landed[c]
                              + (IF c = "saved_urls" /\ added = 1 THEN 1 ELSE 0)
  <2>1. CASE added = 1
    <3>1. run' = Landed(counted, {"saved_urls"}) /\ {"saved_urls"} \in SUBSET Classes
      BY <1>2, <1>3, <2>1, CarriedIs
    <3> QED BY <1>5, <2>1, <3>1, LandedIs
  <2>2. CASE added = 0
    <3>1. run' = counted /\ \A c \in Classes : run.landed[c] \in Nat
      BY <1>1, <1>2, <1>3, <2>2 DEF RunStates
    <3> QED BY <1>5, <2>2, <3>1
  <2> QED BY <2>1, <2>2
<1>7. /\ karakeep' \in [Articles -> Nat] /\ karakeep'[u] = added
      /\ \A v \in Articles \ {u} : karakeep'[v] = karakeep[v]
  BY <1>1, <1>2
<1>8. Bookmarks' = Bookmarks /\ BookmarkOnce'
  BY <1>1, <1>7, ClassifySame DEF IInv, BookmarkOnce
<1>9. ReaderInv' /\ HistoryOnly' /\ MigrationTypeOK'
  <2>1. UNCHANGED <<now, opened, feedback, request, fate, line, langfuse, lossy, overlapped>>
    BY <1>1 DEF vars
  <2>2. TypeOK' /\ MigrationTypeOK'
    BY <1>1, <1>6, <1>7, <2>1 DEF IInv, MigrationTypeOK, TypeOK, RunStates
  <2>3. Dated' /\ Lined' /\ ScoresDated' /\ OneScorePerName'
    BY <2>1 DEF IInv, ReaderInv, Dated, DatedAs, Article, Lined, ScoresDated, OneScorePerName
  <2>4. VotesInOrder'
    BY <2>1 DEF IInv, ReaderInv, VotesInOrder, InOrder, LineInOrder, LastVote, LineVote,
                EmitVote, Article
  <2>5. HistoryOnly'
    BY <1>1, <2>1, ClassifySame DEF IInv, HistoryOnly, Article
  <2> QED BY <2>2, <2>3, <2>4, <2>5 DEF ReaderInv
<1>10. RunFits' /\ NothingThere' /\ LookupHolds'
  BY <1>1, <1>6, <1>8 DEF IInv, RunFits, NothingThere, LookupHolds
<1>11. \A c \in Classes : /\ run.tally[c] \in Tally /\ run.landed[c] \in Nat
                          /\ run'.tally[c] \in Tally
  BY <1>1, <1>6 DEF RunStates
<1>12. CountsFit'
  <2>1. ASSUME NEW c \in Classes
        PROVE  /\ run'.tally[c].destination >= run.tally[c].destination
               /\ run'.tally[c].failed >= run.tally[c].failed
               /\ run'.landed[c] >= run.landed[c]
               /\ (run'.landed[c] - run.landed[c]) <=
                     (run'.tally[c].destination - run.tally[c].destination)
                     + (run'.tally[c].failed - run.tally[c].failed)
               /\ (run'.tally[c].destination - run.tally[c].destination) <=
                     run'.landed[c] - run.landed[c]
    <3>1. /\ run.tally[c].destination \in Nat /\ run.tally[c].failed \in Nat
          /\ run.landed[c] \in Nat
      BY <1>11 DEF Tally
    <3> QED BY <1>2, <1>5, <1>6, <3>1
  <2> QED BY <1>1, <1>6, <1>11, <2>1, CountedFits DEF Tally
<1>13. DoneSoFar'
  <2> SUFFICES ASSUME NoFailures' PROVE \A v \in Bookmarks :
                  karakeep'[v] > 0 \/ v \in run.left \ {u}
    BY <1>1, <1>6, <1>8 DEF DoneSoFar
  <2>1. counter # "failed" /\ NoFailures
    <3>1. \A c \in Classes : run'.tally[c].failed = 0 /\ run.tally[c].failed \in Nat
      BY <1>11 DEF NoFailures, Tally
    <3>2. "saved_urls" \in Classes
      BY DEF Classes
    <3> QED BY <1>5, <1>6, <3>1, <3>2 DEF NoFailures
  <2>2. karakeep'[u] > 0
    BY <1>2, <1>7, <2>1
  <2>3. \A v \in Bookmarks : v \in Articles
    BY DEF Bookmarks
  <2> QED BY <1>1, <1>7, <2>1, <2>2, <2>3 DEF IInv, DoneSoFar
<1> QED BY <1>8, <1>9, <1>10, <1>12, <1>13 DEF IInv

\* The lookup of a record: it fails, or decides what the import will count.
LEMMA FindRecordKeeps ==
    ASSUME IInv, NEW u \in Articles, FindRecord(u)
    PROVE  IInv'
<1>1. /\ run.at = "records" /\ run.item = None /\ u \in run.left /\ run \in RunStates
      /\ UNCHANGED <<legacy, row, karakeep, vars>>
      /\ run.left \subseteq Records /\ u # None
  BY RunTyped, OwnershipMigrationAssumption DEF FindRecord, IInv, RunFits
<1>2. /\ Bookmarks' = Bookmarks /\ Records' = Records
      /\ Outcome(u)' = Outcome(u) /\ Carried(u)' = Carried(u)
      /\ \A v : Settled(v)' <=> Settled(v)
  <2>1. UNCHANGED <<opened, feedback>>
    BY <1>1 DEF vars
  <2> QED BY <1>1, <2>1, ClassifySame DEF Outcome, Settled
<1>3. /\ Carried(u) \in SUBSET Classes /\ Carried(u) # {} /\ Outcome(u) \subseteq Carried(u)
      /\ Outcome(u) \subseteq Indexed
  BY <1>1, CarriedIs DEF Records
<1>4. CASE run.apply /\ run' = [run EXCEPT !.item = u, !.result = Outcome(u)]
  <2>1. /\ run' \in RunStates /\ run'.at = "records" /\ run'.left = run.left
        /\ run'.item = u /\ run'.result = Outcome(u)
        /\ run'.apply = run.apply /\ run'.raced = run.raced
        /\ run'.tally = run.tally /\ run'.landed = run.landed
    BY <1>1, <1>3, <1>4 DEF RunStates
  <2>2. LookupHolds'
    <3>1. \A v : v = u => Outcome(v)' = Outcome(u) /\ Carried(v)' = Carried(u)
      BY <1>2
    <3> QED BY <1>2, <1>3, <2>1 DEF LookupHolds
  <2>3. RunFits' /\ NothingThere' /\ CountsFit' /\ DoneSoFar'
    BY <1>1, <1>2, <1>4, <2>1
    DEF IInv, RunFits, Running, NothingThere, CountsFit, DoneSoFar, NoFailures
  <2> QED BY <1>1, <2>1, <2>2, <2>3, RunOnly DEF IInv
<1>5. CASE run' = Counted(u, As(Carried(u), "failed"))
  <2>1. CountedAs(run', u, Carried(u), As(Carried(u), "failed"))
    BY <1>1, <1>3, <1>5, CountedSame
  <2>2. /\ run' \in RunStates /\ run'.at = "records" /\ run'.left = run.left \ {u}
        /\ run'.item = None /\ run'.apply = run.apply /\ run'.raced = run.raced
        /\ run'.landed = run.landed
        /\ \A c \in Classes :
              /\ run'.tally[c].destination = run.tally[c].destination + 0
              /\ run'.tally[c].failed = run.tally[c].failed
                    + (IF c \in Carried(u) THEN 1 ELSE 0)
    BY <1>1, <2>1 DEF CountedAs, As
  <2>3. RunFits' /\ NothingThere' /\ LookupHolds'
    BY <1>1, <1>2, <2>2 DEF IInv, RunFits, NothingThere, LookupHolds
  <2>4. \A c \in Classes : /\ run.tally[c].destination \in Nat /\ run.tally[c].failed \in Nat
                           /\ run.landed[c] \in Nat
    BY <1>1 DEF RunStates, Tally
  <2>5. CountsFit'
    BY <1>1, <2>2, <2>4, CountedFits
  <2>6. ~NoFailures'
    BY <1>3, <2>2, <2>4 DEF NoFailures
  <2>7. DoneSoFar'
    BY <2>6 DEF DoneSoFar
  <2> QED BY <1>1, <2>2, <2>3, <2>5, <2>7, RunOnly DEF IInv
<1>6. CASE ~run.apply /\ run' = Scored(u, Outcome(u))
  <2> DEFINE outcome == [c \in Carried(u) |-> IF c \in Outcome(u) THEN "destination"
                                              ELSE "duplicate"]
  <2>1. run' = Counted(u, outcome)
    BY <1>6 DEF Scored
  <2>2. outcome \in [Carried(u) -> {"destination", "duplicate", "failed"}]
    OBVIOUS
  <2> HIDE DEF outcome
  <2>3. CountedAs(run', u, Carried(u), outcome)
    BY <1>1, <1>3, <2>1, <2>2, CountedIs
  <2>4. /\ run' \in RunStates /\ run'.at = "records" /\ run'.left = run.left \ {u}
        /\ run'.item = None /\ run'.apply = run.apply /\ run'.raced = run.raced
    BY <1>1, <2>3 DEF CountedAs
  <2>5. RunFits' /\ NothingThere' /\ LookupHolds' /\ CountsFit' /\ DoneSoFar'
    BY <1>1, <1>2, <1>6, <2>4
    DEF IInv, RunFits, NothingThere, LookupHolds, CountsFit, DoneSoFar
  <2> QED BY <1>1, <2>4, <2>5, RunOnly DEF IInv
<1> QED BY <1>4, <1>5, <1>6 DEF FindRecord

\* Import stores what a lookup at that very moment would have promised.
LEMMA WrittenIs ==
    ASSUME IInv, NEW u \in Articles, Write(u)
    PROVE  Written(u) = Outcome(u)
<1>1. /\ TypeOK /\ legacy \in Seq(LegacyRows)
      /\ row \in [Articles -> {"live", "migrated", None}] /\ None # "migrated"
  BY RunTyped, OwnershipMigrationAssumption
<1>2. /\ opened'[u] = IF opened[u] = None THEN EarliestOpen(u) ELSE opened[u]
      /\ feedback[u].vote # None => feedback'[u] = feedback[u]
      /\ feedback[u].vote = None => feedback'[u].vote = CurrentVote(u).vote
  BY <1>1, WriteIs
<1>3. row'[u] = IF row[u] = None THEN "migrated" ELSE row[u]
  BY <1>1 DEF Write, KeptFirst
<1>4. /\ row'[u] # row[u] <=> row[u] = None
      /\ EarliestOpen(u) # None => (opened'[u] # opened[u] <=> opened[u] = None)
      /\ CurrentVote(u).vote # None => (feedback'[u] # feedback[u] <=> feedback[u].vote = None)
  BY <1>1, <1>2, <1>3
<1>5. ASSUME NEW c \in Carried(u) PROVE c \in Written(u) <=> c \in Outcome(u)
  <2>1. /\ c \in {"enrichment", "opens", "votes"}
        /\ c = "opens" => EarliestOpen(u) # None
        /\ c = "votes" => CurrentVote(u).vote # None
    BY DEF Carried, Indexed
  <2>2. CASE c = "enrichment"
    BY <1>4, <2>2 DEF Written, Outcome
  <2>3. CASE c = "opens"
    BY <1>4, <2>1, <2>3 DEF Written, Outcome
  <2>4. CASE c = "votes"
    BY <1>4, <2>1, <2>4 DEF Written, Outcome
  <2> QED BY <2>1, <2>2, <2>3, <2>4
<1>6. Written(u) \subseteq Carried(u) /\ Outcome(u) \subseteq Carried(u)
  BY DEF Written, Outcome
<1> QED BY <1>5, <1>6

\* What the transaction leaves: its record has all that it carries.
LEMMA ImportWrites ==
    ASSUME IInv, NEW u \in Articles, Write(u), UNCHANGED <<legacy, karakeep, reader>>,
           run' \in RunStates
    PROVE  /\ ReaderInv' /\ MigrationTypeOK' /\ BookmarkOnce' /\ HistoryOnly'
           /\ Settled(u)' /\ \A v \in Articles : Settled(v) => Settled(v)'
<1> USE OwnershipMigrationAssumption
<1>1. /\ TypeOK /\ legacy \in Seq(LegacyRows) /\ legacy \in LegacyTables
      /\ row \in [Articles -> {"live", "migrated", None}] /\ None # "migrated"
      /\ karakeep \in [Articles -> Nat]
  BY RunTyped
<1>2. /\ RowsStay
      /\ opened'[u] = IF opened[u] = None THEN EarliestOpen(u) ELSE opened[u]
      /\ feedback[u].vote # None => feedback'[u] = feedback[u]
      /\ feedback[u].vote = None => feedback'[u].vote = CurrentVote(u).vote
      /\ \A a \in Articles \ {u} : opened'[a] = opened[a] /\ feedback'[a] = feedback[a]
  BY <1>1, WriteIs
<1>3. /\ row' \in [Articles -> {"live", "migrated", None}]
      /\ row'[u] # None /\ \A a \in Articles : row[a] # None => row'[a] = row[a]
  BY <1>1 DEF Write, KeptFirst
<1>4. ReaderInv'
  BY <1>1, WriteKeeps DEF IInv
<1>5. MigrationTypeOK' /\ BookmarkOnce'
  BY <1>1, <1>3, <1>4 DEF IInv, ReaderInv, MigrationTypeOK, RunStates, BookmarkOnce
<1>6. \A v : EarliestOpen(v)' = EarliestOpen(v) /\ CurrentVote(v)' = CurrentVote(v)
  BY ClassifySame
<1>7. Settled(u)'
  BY <1>2, <1>3, <1>6 DEF Settled
<1>8. \A v \in Articles : Settled(v) => Settled(v)'
  BY <1>2, <1>3, <1>6 DEF Settled, RowsStay
<1>9. HistoryOnly'
  <2> SUFFICES ASSUME NEW a \in Articles, \A r \in Requests : request'[r].article # a
               PROVE  /\ opened'[a] \in {None, EarliestOpen(a)}
                      /\ feedback'[a].vote \in {None, CurrentVote(a).vote}
    BY <1>6 DEF HistoryOnly, Article
  <2>1. opened[a] \in {None, EarliestOpen(a)} /\ feedback[a].vote \in {None, CurrentVote(a).vote}
    BY DEF IInv, HistoryOnly, Article, reader
  <2> QED BY <1>2, <2>1
<1> QED BY <1>4, <1>5, <1>7, <1>8, <1>9

\* The counts of an import: `wrote` are the classes that it stored.
LEMMA ImportCounts ==
    ASSUME IInv, NEW u \in Articles, run.at = "records", run.item = u,
           NEW outcome \in [Carried(u) -> {"destination", "duplicate", "failed"}],
           NEW counted, counted = Counted(u, outcome),
           NEW wrote \in SUBSET Carried(u),
           \/ run' = Landed(counted, wrote)
           \/ run' = counted /\ wrote = {},
           \A c \in wrote : outcome[c] # "duplicate",
           \A c \in Carried(u) : outcome[c] = "destination" => c \in wrote \/ u \in run.raced,
           Records' = Records
    PROVE  /\ run' \in RunStates /\ run'.at = "records" /\ run'.left = run.left \ {u}
           /\ run'.apply = run.apply
           /\ RunFits' /\ NothingThere' /\ LookupHolds' /\ CountsFit'
           /\ NoFailures' => NoFailures /\ \A c \in Carried(u) : outcome[c] # "failed"
<1>1. /\ run \in RunStates /\ u \in run.left /\ run.left \subseteq Records /\ u # None
      /\ Carried(u) \in SUBSET Classes /\ wrote \in SUBSET Classes
      /\ IsFiniteSet(run.raced)
  BY RunTyped, CarriedIs, OwnershipMigrationAssumption DEF IInv, RunFits
<1>2. CountedAs(counted, u, Carried(u), outcome)
  BY <1>1, CountedIs
<1>3. /\ counted \in RunStates /\ counted.at = "records" /\ counted.left = run.left \ {u}
      /\ counted.item = None /\ counted.apply = run.apply /\ counted.raced = run.raced
      /\ counted.landed = run.landed
      /\ \A c \in Classes :
            /\ counted.tally[c].destination = run.tally[c].destination
                  + (IF c \in Carried(u) /\ outcome[c] = "destination" THEN 1 ELSE 0)
            /\ counted.tally[c].failed = run.tally[c].failed
                  + (IF c \in Carried(u) /\ outcome[c] = "failed" THEN 1 ELSE 0)
  BY <1>2 DEF CountedAs
<1>4. \A c \in Classes : /\ run.tally[c].destination \in Nat /\ run.tally[c].failed \in Nat
                         /\ run.landed[c] \in Nat
  BY <1>1 DEF RunStates, Tally
<1>5. /\ run' \in RunStates /\ run'.at = "records" /\ run'.left = run.left \ {u}
      /\ run'.item = None /\ run'.apply = run.apply /\ run'.raced = run.raced
      /\ run'.tally = counted.tally
      /\ \A c \in Classes : run'.landed[c] = run.landed[c] + (IF c \in wrote THEN 1 ELSE 0)
  <2>1. CASE run' = Landed(counted, wrote)
    BY <1>1, <1>3, <2>1, LandedIs
  <2>2. CASE run' = counted /\ wrote = {}
    BY <1>3, <1>4, <2>2
  <2> QED BY <2>1, <2>2
<1>6. RunFits' /\ NothingThere' /\ LookupHolds'
  BY <1>1, <1>5 DEF IInv, RunFits, NothingThere, LookupHolds
<1>7. CountsFit'
  <2>1. ASSUME NEW c \in Classes
        PROVE  /\ run'.tally[c].destination >= run.tally[c].destination
               /\ run'.tally[c].failed >= run.tally[c].failed
               /\ run'.landed[c] >= run.landed[c]
               /\ (run'.landed[c] - run.landed[c]) <=
                     (run'.tally[c].destination - run.tally[c].destination)
                     + (run'.tally[c].failed - run.tally[c].failed)
               /\ (run'.tally[c].destination - run.tally[c].destination) <=
                     (run'.landed[c] - run.landed[c]) + (IF u \in run.raced THEN 1 ELSE 0)
    <3>1. /\ c \in wrote => c \in Carried(u) /\ outcome[c] \in {"destination", "failed"}
          /\ c \in Carried(u) /\ outcome[c] = "destination" => c \in wrote \/ u \in run.raced
      OBVIOUS
    <3> QED BY <1>3, <1>4, <1>5, <3>1
  <2> QED BY <1>1, <1>5, <2>1, CountedFits
<1>8. ASSUME NoFailures' PROVE NoFailures /\ \A c \in Carried(u) : outcome[c] # "failed"
  <2>1. \A c \in Classes : counted.tally[c].failed = 0
    BY <1>5, <1>8 DEF NoFailures
  <2>2. \A c \in Classes : run.tally[c].failed = 0
    BY <1>3, <1>4, <2>1
  <2>3. ASSUME NEW c \in Carried(u), outcome[c] = "failed" PROVE FALSE
    BY <1>1, <1>3, <1>4, <2>1, <2>3
  <2> QED BY <2>2, <2>3 DEF NoFailures
<1> QED BY <1>5, <1>6, <1>7, <1>8

\* The import: it stores what it counts, unless the server was faster.
LEMMA ImportRecordKeeps ==
    ASSUME IInv, NEW u \in Articles, ImportRecord(u)
    PROVE  IInv'
<1>1. /\ run.at = "records" /\ run.item = u /\ u # None
      /\ UNCHANGED <<legacy, karakeep, reader>>
  BY OwnershipMigrationAssumption DEF ImportRecord
<1>2. /\ u \in run.left /\ run.left \subseteq Records /\ run.apply /\ run \in RunStates
      /\ Outcome(u) \subseteq run.result /\ run.result \subseteq Carried(u)
      /\ u \notin run.raced => run.result = Outcome(u)
  BY <1>1, RunTyped DEF IInv, RunFits, LookupHolds
<1>3. Records' = Records /\ Bookmarks' = Bookmarks /\ Carried(u) # {}
  BY <1>1, <1>2, ClassifySame DEF Records
<1>4. PICK counted, outcome : 
         /\ outcome \in [Carried(u) -> {"destination", "duplicate", "failed"}]
         /\ counted = Counted(u, outcome)
         /\ \/ /\ outcome = [c \in Carried(u) |->
                               IF c \in run.result THEN "destination" ELSE "duplicate"]
               /\ Write(u) /\ run' = Landed(counted, Outcome(u))
            \/ /\ outcome = As(Carried(u), "failed")
               /\ \/ UNCHANGED index /\ run' = counted
                  \/ Write(u) /\ run' = Landed(counted, Outcome(u))
  <2>1. CASE Write(u) /\ run' = Landed(Scored(u, run.result), Written(u))
    <3>1. Written(u) = Outcome(u)
      BY <2>1, WrittenIs
    <3> WITNESS Scored(u, run.result),
                [c \in Carried(u) |-> IF c \in run.result THEN "destination" ELSE "duplicate"]
    <3> QED BY <2>1, <3>1 DEF Scored
  <2>2. CASE UNCHANGED index /\ run' = Counted(u, As(Carried(u), "failed"))
    <3> WITNESS Counted(u, As(Carried(u), "failed")), As(Carried(u), "failed")
    <3> QED BY <2>2 DEF As
  <2>3. CASE Write(u) /\ run' = Landed(Counted(u, As(Carried(u), "failed")), Written(u))
    <3>1. Written(u) = Outcome(u)
      BY <2>3, WrittenIs
    <3> WITNESS Counted(u, As(Carried(u), "failed")), As(Carried(u), "failed")
    <3> QED BY <2>3, <3>1 DEF As
  <2> QED BY <2>1, <2>2, <2>3 DEF ImportRecord
<1>5. Outcome(u) \in SUBSET Carried(u) /\ {} \in SUBSET Carried(u)
  BY CarriedIs
<1>6. CASE /\ outcome = [c \in Carried(u) |->
                           IF c \in run.result THEN "destination" ELSE "duplicate"]
           /\ Write(u) /\ run' = Landed(counted, Outcome(u))
  <2>1. /\ \A c \in Outcome(u) : outcome[c] # "duplicate"
        /\ \A c \in Carried(u) :
              outcome[c] = "destination" => c \in Outcome(u) \/ u \in run.raced
    BY <1>2, <1>5, <1>6
  <2>2. /\ run' \in RunStates /\ run'.at = "records" /\ run'.left = run.left \ {u}
        /\ run'.apply = run.apply
        /\ RunFits' /\ NothingThere' /\ LookupHolds' /\ CountsFit'
        /\ NoFailures' => NoFailures
    BY <1>1, <1>3, <1>4, <1>5, <1>6, <2>1, ImportCounts
  <2>3. /\ ReaderInv' /\ MigrationTypeOK' /\ BookmarkOnce' /\ HistoryOnly'
        /\ Settled(u)' /\ \A v \in Articles : Settled(v) => Settled(v)'
    BY <1>1, <1>6, <2>2, ImportWrites
  <2>4. DoneSoFar'
    <3> SUFFICES ASSUME NoFailures
                 PROVE  /\ \A v \in Bookmarks : karakeep[v] > 0
                        /\ \A v \in Records \ (run.left \ {u}) : Settled(v)'
      BY <1>1, <1>3, <2>2 DEF DoneSoFar
    <3>1. /\ \A v \in Bookmarks : karakeep[v] > 0
          /\ \A v \in Records \ run.left : Settled(v)
      BY <1>1, <1>2 DEF IInv, DoneSoFar
    <3>2. Records \subseteq Articles
      BY DEF Records
    <3> QED BY <2>3, <3>1, <3>2
  <2> QED BY <2>2, <2>3, <2>4 DEF IInv
<1>7. CASE /\ outcome = As(Carried(u), "failed")
           /\ \/ UNCHANGED index /\ run' = counted
              \/ Write(u) /\ run' = Landed(counted, Outcome(u))
  <2>1. \A c \in Carried(u) : outcome[c] = "failed"
    BY <1>7 DEF As
  <2>2. /\ run' \in RunStates /\ RunFits' /\ NothingThere' /\ LookupHolds' /\ CountsFit'
        /\ NoFailures' => \A c \in Carried(u) : outcome[c] # "failed"
    <3>1. \A c \in Carried(u) : outcome[c] # "duplicate" /\ outcome[c] # "destination"
      BY <2>1
    <3>2. CASE run' = counted
      <4>1. PICK wrote \in SUBSET Carried(u) : wrote = {}
        OBVIOUS
      <4> QED BY <1>1, <1>3, <1>4, <3>1, <3>2, <4>1, ImportCounts
    <3>3. CASE run' = Landed(counted, Outcome(u))
      <4>1. PICK wrote \in SUBSET Carried(u) : wrote = Outcome(u)
        BY <1>5
      <4> QED BY <1>1, <1>3, <1>4, <3>1, <3>3, <4>1, ImportCounts
    <3> QED BY <1>7, <3>2, <3>3
  <2>3. DoneSoFar'
    BY <1>3, <2>1, <2>2 DEF DoneSoFar
  <2>4. ReaderInv' /\ MigrationTypeOK' /\ BookmarkOnce' /\ HistoryOnly'
    <3>1. CASE UNCHANGED index
      BY <1>1, <2>2, <3>1, RunOnly DEF index, reader, vars
    <3>2. CASE Write(u)
      BY <1>1, <2>2, <3>2, ImportWrites
    <3> QED BY <1>7, <3>1, <3>2
  <2> QED BY <2>2, <2>3, <2>4 DEF IInv
<1> QED BY <1>4, <1>6, <1>7

-----------------------------------------------------------------------------
(* The server beside a run                                                 *)

\* What a request writes is the row of its Article, when it stores it.
LEMMA SignalsAre ==
    ASSUME IInv, Signals
    PROVE  /\ \A r \in Requests : Article(r)' = Article(r)
           /\ \A a \in Articles :
                 \/ opened'[a] = opened[a] /\ feedback'[a] = feedback[a]
                 \/ \E r \in Requests : /\ request[r].at = "store" /\ Article(r) = a
                                        /\ request'[r].at \in {"emit", "failed"}
<1>1. TypeOK /\ request \in [Requests -> RequestStates]
  BY RunTyped DEF TypeOK, RequestStates
<1>2. CASE Tick \/ Post
  BY <1>2 DEF Tick, Post, Article
<1>3. ASSUME NEW r \in Requests, StoreFails(r) \/ Emit(r)
      PROVE  /\ \A q \in Requests : request'[q].article = request[q].article
             /\ UNCHANGED <<opened, feedback>>
  BY <1>1, <1>3 DEF StoreFails, Emit, RequestStates
<1>4. ASSUME NEW r \in Requests, NEW first, Stored(r, first)
      PROVE  /\ \A q \in Requests : request'[q].article = request[q].article
             /\ request'[r].at \in {"emit", "failed"}
  <2>1. CASE request' = [request EXCEPT ![r].at = "emit", ![r].first = first]
    BY <1>1, <2>1 DEF RequestStates
  <2>2. CASE request' = [request EXCEPT ![r].at = "failed"]
    BY <1>1, <2>2 DEF RequestStates
  <2> QED BY <1>4, <2>1, <2>2 DEF Stored
<1>5. ASSUME NEW r \in Requests, Open(r)
      PROVE  /\ request[r].at = "store" /\ \E first : Stored(r, first)
             /\ UNCHANGED feedback
             /\ \A a \in Articles : a # Article(r) => opened'[a] = opened[a]
  BY <1>1, <1>5 DEF Open, TypeOK
<1>6. ASSUME NEW r \in Requests, Vote(r)
      PROVE  /\ request[r].at = "store" /\ \E first : Stored(r, first)
             /\ UNCHANGED opened
             /\ \A a \in Articles : a # Article(r) => feedback'[a] = feedback[a]
  BY <1>1, <1>6 DEF Vote, TypeOK
<1>7. ASSUME NEW r \in Requests, Open(r) \/ Vote(r)
      PROVE  /\ \A q \in Requests : request'[q].article = request[q].article
             /\ request[r].at = "store" /\ request'[r].at \in {"emit", "failed"}
             /\ \A a \in Articles : a # Article(r) =>
                   opened'[a] = opened[a] /\ feedback'[a] = feedback[a]
  BY <1>4, <1>5, <1>6, <1>7
<1> QED BY <1>2, <1>3, <1>7 DEF Signals, Article

\* The server only adds to the rows, and what it writes under a run's import
\* is in the run's history.
LEMMA ServerKeeps ==
    ASSUME IInv, NEW us \in SUBSET Articles, Raced(us), UNCHANGED <<legacy, karakeep>>,
           ReaderInv', RowsStay, HistoryOnly', row' \in [Articles -> {"live", "migrated", None}],
           \A a \in Articles : row[a] # None => row'[a] # None,
           \A a \in Articles \ us : UNCHANGED <<row[a], opened[a], feedback[a]>>
    PROVE  IInv'
<1>1. /\ karakeep \in [Articles -> Nat] /\ run \in RunStates /\ legacy \in LegacyTables
      /\ None \notin Articles /\ RunFits
  BY RunTyped, OwnershipMigrationAssumption DEF IInv
<1>2. /\ run' \in RunStates /\ run'.at = run.at /\ run'.apply = run.apply
      /\ run'.left = run.left /\ run'.item = run.item /\ run'.result = run.result
      /\ run'.tally = run.tally /\ run'.landed = run.landed
      /\ \/ run'.raced = run.raced /\ ~(run.at = "records" /\ run.item \in us)
         \/ /\ run.at = "records" /\ run.item \in us
            /\ run'.raced = run.raced \union {run.item}
  <2>1. CASE run.at = "records" /\ run.item \in us
    <3>1. run' = [run EXCEPT !.raced = run.raced \union {run.item}] /\ run.item \in Articles
      BY <2>1 DEF Raced
    <3> QED BY <1>1, <2>1, <3>1 DEF RunStates
  <2>2. CASE ~(run.at = "records" /\ run.item \in us)
    BY <1>1, <2>2 DEF Raced
  <2> QED BY <2>1, <2>2
<1>3. MigrationTypeOK' /\ BookmarkOnce' /\ NothingThere'
  BY <1>1, <1>2
  DEF IInv, MigrationTypeOK, ReaderInv, RunStates, BookmarkOnce, NothingThere
<1>4. /\ Bookmarks' = Bookmarks /\ Records' = Records
      /\ \A u : Carried(u)' = Carried(u) /\ EarliestOpen(u)' = EarliestOpen(u)
                /\ CurrentVote(u)' = CurrentVote(u)
  BY ClassifySame
<1>5. RunFits'
  <2>1. IsFiniteSet(run.raced \union {run.item})
    BY <1>1, FS_AddElement DEF RunFits
  <2> QED BY <1>1, <1>2, <1>4, <2>1 DEF RunFits, Running
<1>6. LookupHolds'
  <2> SUFFICES ASSUME NEW u \in Articles, run.at = "records", run.item = u
               PROVE  /\ Outcome(u)' \subseteq run.result /\ run.result \subseteq Carried(u)
                      /\ u \notin run'.raced => run.result = Outcome(u)'
    BY <1>1, <1>2, <1>4 DEF LookupHolds, RunStates
  <2>1. /\ Outcome(u) \subseteq run.result /\ run.result \subseteq Carried(u)
        /\ u \notin run.raced => run.result = Outcome(u)
    BY <1>1 DEF IInv, LookupHolds
  <2>2. Outcome(u)' \subseteq Outcome(u)
    <3>1. ASSUME NEW c \in Carried(u), c \in Outcome(u)' PROVE c \in Outcome(u)
      <4>1. c \in {"enrichment", "opens", "votes"}
        BY DEF Carried, Indexed
      <4>2. CASE c = "enrichment"
        BY <3>1, <4>2 DEF Outcome
      <4>3. CASE c = "opens"
        BY <3>1, <4>3 DEF Outcome, RowsStay
      <4>4. CASE c = "votes"
        BY <3>1, <4>4 DEF Outcome, RowsStay
      <4> QED BY <4>1, <4>2, <4>3, <4>4
    <3>2. Outcome(u)' \subseteq Carried(u)
      BY <1>4 DEF Outcome
    <3> QED BY <3>1, <3>2
  <2>3. u \notin us => Outcome(u)' = Outcome(u)
    BY <1>4 DEF Outcome
  <2> QED BY <1>2, <2>1, <2>2, <2>3
<1>7. CountsFit'
  <2>1. run'.raced \ run'.left = run.raced \ run.left
    <3>1. run.item \in us => run.item \in run.left
      BY <1>1 DEF RunFits
    <3> QED BY <1>2, <3>1
  <2> QED BY <1>2, <2>1 DEF IInv, CountsFit
<1>8. DoneSoFar'
  <2>1. \A u \in Articles : Settled(u) => Settled(u)'
    BY <1>4 DEF Settled, RowsStay
  <2>2. Records \subseteq Articles
    BY DEF Records
  <2> QED BY <1>2, <1>4, <2>1, <2>2 DEF IInv, DoneSoFar, NoFailures
<1> QED BY <1>3, <1>5, <1>6, <1>7, <1>8 DEF IInv

\* The fast path claims a URL that no row has.
LEMMA EnrichKeeps ==
    ASSUME IInv, NEW u \in Articles, Enrich(u)
    PROVE  IInv'
<1>1. /\ row \in [Articles -> {"live", "migrated", None}] /\ run \in RunStates
      /\ row[u] = None /\ row' = [row EXCEPT ![u] = "live"] /\ Raced({u})
      /\ UNCHANGED <<legacy, karakeep, vars>>
      /\ UNCHANGED <<now, opened, feedback, request, fate, line, langfuse, lossy, overlapped>>
  BY RunTyped DEF Enrich, vars
<1>2. ReaderInv'
  <2>1. TypeOK' /\ Dated' /\ Lined' /\ ScoresDated' /\ OneScorePerName'
    BY <1>1 DEF IInv, ReaderInv, TypeOK, Dated, DatedAs, Article, Lined, ScoresDated,
                OneScorePerName
  <2>2. VotesInOrder'
    BY <1>1 DEF IInv, ReaderInv, VotesInOrder, InOrder, LineInOrder, LastVote, LineVote,
                EmitVote, Article
  <2> QED BY <2>1, <2>2 DEF ReaderInv
<1>3. HistoryOnly' /\ RowsStay
  BY <1>1, ClassifySame DEF IInv, HistoryOnly, Article, RowsStay
<1> QED BY <1>1, <1>2, <1>3, ServerKeeps

\* A click gives its request an Article.
LEMMA ClickLinkKeeps ==
    ASSUME IInv, NEW r \in Requests, NEW a \in Articles,
           NEW signal \in Votes \union {"open"}, ClickLink(r, a, signal)
    PROVE  IInv'
<1>1. /\ row \in [Articles -> {"live", "migrated", None}]
      /\ Click(r, a, signal) /\ UNCHANGED <<legacy, row, karakeep, run>>
      /\ request[r].at = "idle" /\ UNCHANGED <<opened, feedback>>
  BY RunTyped DEF ClickLink, Click
<1>2. ReaderInv' /\ RowsStay
  BY <1>1, ClickKeeps DEF IInv, RowsStay
<1>3. HistoryOnly'
  <2>1. Article(r) = None
    BY <1>1 DEF IInv, ReaderInv, Dated, DatedAs
  <2>2. \A q \in Requests \ {r} : request'[q] = request[q]
    BY <1>1, RunTyped DEF Click, TypeOK
  <2>3. \A u \in Articles : (\A q \in Requests : request'[q].article # u)
                               => \A q \in Requests : Article(q) # u
    BY <2>1, <2>2, OwnershipMigrationAssumption DEF Article
  <2> QED BY <1>1, <2>3, ClassifySame DEF IInv, HistoryOnly, Article
<1>4. Raced({})
  BY <1>1 DEF Raced
<1> QED BY <1>1, <1>2, <1>3, <1>4, ServerKeeps

\* The other steps of the server's requests.
LEMMA ServeKeeps == IInv /\ Serve => IInv'
<1> SUFFICES ASSUME IInv, Serve PROVE IInv'
  OBVIOUS
<1> DEFINE us == {a \in Articles : opened'[a] # opened[a] \/ feedback'[a] # feedback[a]}
<1>1. /\ row \in [Articles -> {"live", "migrated", None}]
      /\ Signals /\ Raced(us) /\ UNCHANGED <<legacy, row, karakeep>>
  BY RunTyped DEF Serve
<1>2. ReaderInv' /\ RowsStay
  BY <1>1, SignalsKeep DEF IInv
<1>3. \A a \in Articles \ us : UNCHANGED <<row[a], opened[a], feedback[a]>>
  BY <1>1
<1>4. HistoryOnly'
  <2> SUFFICES ASSUME NEW u \in Articles, \A r \in Requests : Article(r)' # u
               PROVE  /\ opened'[u] \in {None, EarliestOpen(u)}
                      /\ feedback'[u].vote \in {None, CurrentVote(u).vote}
    BY <1>1, ClassifySame DEF HistoryOnly
  <2>1. opened'[u] = opened[u] /\ feedback'[u] = feedback[u]
    BY <1>1, SignalsAre
  <2>2. \A r \in Requests : Article(r) # u
    BY <1>1, SignalsAre
  <2> QED BY <2>1, <2>2 DEF IInv, HistoryOnly
<1> HIDE DEF us
<1>5. us \in SUBSET Articles
  BY DEF us
<1> QED BY <1>1, <1>2, <1>3, <1>4, <1>5, ServerKeeps

-----------------------------------------------------------------------------
(* Every step                                                              *)

\* Nothing has happened: no row, no request, no score, no run.
LEMMA InitIInv == MigrationInit => IInv
<1> SUFFICES ASSUME MigrationInit PROVE IInv
  OBVIOUS
<1> USE ReaderSignalsAssumption, OwnershipMigrationAssumption
<1>1. /\ now = 0 /\ opened = [a \in Articles |-> None]
      /\ feedback = [a \in Articles |-> NoVote] /\ request = [r \in Requests |-> Idle]
      /\ fate = [r \in Requests |-> "new"] /\ line = <<>>
      /\ langfuse = [a \in Articles |-> {}] /\ lossy = FALSE /\ overlapped = {}
  BY DEF MigrationInit, Init, Sink!Init
<1>2. /\ legacy \in LegacyTables /\ row = [u \in Articles |-> None]
      /\ karakeep \in [Articles -> {0, 1}] /\ run = NoRun
  BY DEF MigrationInit
<1>3. TypeOK
  <2>1. 0 \in Times
    BY DEF Times
  <2>2. /\ feedback \in [Articles -> [vote: Votes \union {None}, created: Times,
                                       updated: Times]]
        /\ opened \in [Articles -> Times \union {None}]
    BY <1>1, <2>1 DEF NoVote
  <2>3. request \in [Requests -> RequestStates]
    BY <1>1, <2>1 DEF Idle, RequestStates
  <2>4. /\ fate \in [Requests -> {"new", "accepted", "dropped", "settled"}]
        /\ langfuse \in [Articles -> SUBSET Scores]
    BY <1>1
  <2>5. line \in Seq(Requests)
    BY <1>1
  <2>6. lossy \in BOOLEAN /\ overlapped \subseteq Articles /\ now \in Times
    BY <1>1, <2>1
  <2> QED BY <2>2, <2>3, <2>4, <2>5, <2>6 DEF TypeOK, RequestStates
<1>4. Dated /\ Lined /\ ScoresDated /\ OneScorePerName
  BY <1>1 DEF Dated, DatedAs, Article, Idle, Lined, ScoresDated, OneScorePerName
<1>5. VotesInOrder
  <2>1. 1..Len(line) = {} /\ \A a \in Articles : langfuse[a] = {}
    BY <1>1
  <2>2. \A r \in Requests, a \in Articles : ~EmitVote(r, a)
    BY <1>1 DEF EmitVote, Idle
  <2> QED BY <2>1, <2>2 DEF VotesInOrder, InOrder, LineInOrder
<1>6. NoTally \in [Classes -> Tally] /\ [c \in Classes |-> 0] \in [Classes -> Nat]
  BY DEF NoTally, Tally
<1>7. run \in RunStates
  BY <1>2, <1>6 DEF NoRun, RunStates
<1>8. MigrationTypeOK
  <2>1. karakeep \in [Articles -> Nat] /\ row \in [Articles -> {"live", "migrated", None}]
    BY <1>2
  <2> QED BY <1>2, <1>3, <1>7, <2>1 DEF MigrationTypeOK, RunStates
<1>9. run.at = "off" /\ run.apply = FALSE /\ run.item = None /\ run.raced = {}
  BY <1>2 DEF NoRun
<1>10. RunFits /\ NothingThere /\ LookupHolds /\ CountsFit /\ DoneSoFar
  BY <1>9, FS_EmptySet DEF RunFits, NothingThere, LookupHolds, CountsFit, DoneSoFar
<1>11. BookmarkOnce /\ HistoryOnly
  BY <1>1, <1>2 DEF BookmarkOnce, HistoryOnly, NoVote
<1> QED BY <1>3, <1>4, <1>5, <1>8, <1>10, <1>11 DEF IInv, ReaderInv

\* Every step keeps the invariant.
LEMMA StepIInv == IInv /\ [MigrationNext]_migration => IInv'
<1> SUFFICES ASSUME IInv, [MigrationNext]_migration PROVE IInv'
  OBVIOUS
<1>1. CASE \E apply \in BOOLEAN : Start(apply)
  BY <1>1, StartKeeps
<1>2. ASSUME NEW u \in Articles,
             \/ FindBookmark(u) \/ SaveBookmark(u)
             \/ FindRecord(u) \/ ImportRecord(u) \/ Enrich(u)
      PROVE  IInv'
  BY <1>2, FindBookmarkKeeps, SaveBookmarkKeeps, FindRecordKeeps, ImportRecordKeeps,
     EnrichKeeps
<1>3. CASE ToRecords \/ Sample \/ Die
  BY <1>3, ToRecordsKeeps, SampleKeeps, DieKeeps
<1>4. CASE \E r \in Requests, a \in Articles, signal \in Votes \union {"open"} :
              ClickLink(r, a, signal)
  BY <1>4, ClickLinkKeeps
<1>5. CASE Serve
  BY <1>5, ServeKeeps
<1>6. CASE UNCHANGED migration
  <2>1. UNCHANGED <<legacy, row, karakeep, run, vars>> /\ run' \in RunStates
    BY <1>6, RunTyped DEF migration
  <2>2. RunFits' /\ NothingThere' /\ LookupHolds' /\ CountsFit' /\ DoneSoFar'
    BY <2>1, RunOnly
    DEF IInv, RunFits, Running, NothingThere, LookupHolds, CountsFit, DoneSoFar, NoFailures
  <2> QED BY <2>1, <2>2, RunOnly DEF IInv
<1> QED BY <1>1, <1>2, <1>3, <1>4, <1>5, <1>6 DEF MigrationNext

\* The inductive invariant of the reader's requests, the runs and the server.
THEOREM MigrationInvariant == MigrationSpec => []IInv
<1>1. MigrationInit => IInv
  BY InitIInv
<1>2. IInv /\ [MigrationNext]_migration => IInv'
  BY StepIInv
<1> QED BY <1>1, <1>2, PTL DEF MigrationSpec

\* Repeated, dead and half-failed runs leave one Bookmark of a URL.
THEOREM MigrationBookmarkOnce == MigrationSpec => []BookmarkOnce
<1>1. IInv => BookmarkOnce
  BY DEF IInv
<1> QED BY <1>1, MigrationInvariant, PTL

\* An applied run without failures left everything at its destination.
THEOREM MigrationCleanRunFinishes == MigrationSpec => []CleanRunFinishes
<1>1. ASSUME IInv, Clean
      PROVE  /\ \A u \in Bookmarks : karakeep[u] > 0
             /\ \A u \in Records : Settled(u)
  BY <1>1 DEF IInv, RunFits, DoneSoFar, Clean, NoFailures
<1>2. ASSUME IInv, Clean, NEW u \in Records
      PROVE  /\ row[u] # None
             /\ \A r \in RowsOf(u) :
                  /\ r.opened # None => opened[u] # None
                  /\ r.vote # None => feedback[u].vote # None
             /\ (\A r \in Requests : Article(r) # u) =>
                  /\ \A r \in RowsOf(u) : r.opened # None => opened[u] <= r.opened
                  /\ LegacyVotes(u) # {} =>
                       \E kept \in LegacyVotes(u) :
                          /\ feedback[u].vote = kept.vote
                          /\ \A r \in LegacyVotes(u) : r.voted # None =>
                                kept.voted # None /\ r.voted <= kept.voted
  <2>1. Settled(u) /\ u \in Articles /\ legacy \in Seq(LegacyRows)
    BY <1>1, <1>2, RunTyped DEF Records
  <2>2. \A r \in RowsOf(u) : r.opened # None =>
           EarliestOpen(u) # None /\ EarliestOpen(u) <= r.opened
    BY <2>1, EarliestOpenIs
  <2>3. ASSUME LegacyVotes(u) # {}
        PROVE  \E kept \in LegacyVotes(u) :
                  /\ CurrentVote(u).vote = kept.vote /\ kept.vote # None
                  /\ \A r \in LegacyVotes(u) : r.voted # None =>
                        kept.voted # None /\ r.voted <= kept.voted
    BY <2>1, <2>3, CurrentVoteOfRows
  <2>4. ASSUME NEW r \in RowsOf(u), r.vote # None PROVE feedback[u].vote # None
    <3>1. r \in LegacyVotes(u)
      BY <2>4 DEF LegacyVotes
    <3> QED BY <2>1, <2>3, <3>1 DEF Settled
  <2>5. ASSUME \A r \in Requests : Article(r) # u
        PROVE  /\ EarliestOpen(u) # None => opened[u] = EarliestOpen(u)
               /\ CurrentVote(u).vote # None => feedback[u].vote = CurrentVote(u).vote
    BY <1>2, <2>1, <2>5 DEF IInv, HistoryOnly, Settled
  <2>6. ASSUME \A r \in Requests : Article(r) # u, LegacyVotes(u) # {}
        PROVE  \E kept \in LegacyVotes(u) :
                  /\ feedback[u].vote = kept.vote
                  /\ \A r \in LegacyVotes(u) : r.voted # None =>
                        kept.voted # None /\ r.voted <= kept.voted
    BY <2>3, <2>5, <2>6
  <2> QED BY <2>1, <2>2, <2>4, <2>5, <2>6 DEF Settled
<1>3. IInv => CleanRunFinishes
  BY <1>1, <1>2 DEF CleanRunFinishes
<1> QED BY <1>3, MigrationInvariant, PTL

\* The report counts what the run stored, off by the records it was raced on.
THEOREM MigrationCountsHonest == MigrationSpec => []CountsHonest
<1>1. IInv => CountsHonest
  <2> SUFFICES ASSUME IInv, run.apply, NEW c \in Classes
               PROVE  /\ run.landed[c] <= run.tally[c].destination + run.tally[c].failed
                      /\ run.tally[c].destination <= run.landed[c] + Cardinality(run.raced)
    BY DEF CountsHonest
  <2>1. /\ run.landed[c] <= run.tally[c].destination + run.tally[c].failed
        /\ run.tally[c].destination <= run.landed[c] + Cardinality(run.raced \ run.left)
    BY DEF IInv, CountsFit
  <2>2. run.landed[c] \in Nat /\ run.tally[c].destination \in Nat
    BY RunTyped DEF RunStates, Tally
  <2>3. IsFiniteSet(run.raced)
    BY DEF IInv, RunFits
  <2>4. /\ Cardinality(run.raced \ run.left) <= Cardinality(run.raced)
        /\ Cardinality(run.raced) \in Nat /\ Cardinality(run.raced \ run.left) \in Nat
    BY <2>3, FS_Subset, FS_CardinalityType
  <2> QED BY <2>1, <2>2, <2>4
<1> QED BY <1>1, MigrationInvariant, PTL

\* Langfuse holds one score of a name for an Article, however many requests
\* there were and whatever was imported under them.
THEOREM ReaderOneScorePerName == MigrationSpec => []OneScorePerName
<1>1. IInv => OneScorePerName
  BY DEF IInv, ReaderInv
<1> QED BY <1>1, MigrationInvariant, PTL

\* When all is sent and nothing was lost, the user_vote is the current vote.
THEOREM ReaderUserVoteCurrent == MigrationSpec => []UserVoteCurrent
<1>1. IInv => UserVoteCurrent
  <2> SUFFICES ASSUME IInv, \A r \in Requests : request[r].at \in {"idle", "ok", "failed"},
                      line = <<>>, ~lossy, NEW a \in Articles \ overlapped,
                      NEW s \in langfuse[a], s.name = "user_vote"
               PROVE  s.value = feedback[a].vote
    BY DEF UserVoteCurrent
  <2>1. InOrder(a) /\ \A r \in Requests : ~EmitVote(r, a)
    BY DEF IInv, ReaderInv, VotesInOrder, EmitVote
  <2>2. \A i \in 1..Len(line) : ~LineVote(i, a)
    OBVIOUS
  <2> QED BY <2>1, <2>2 DEF InOrder, LineInOrder
<1> QED BY <1>1, MigrationInvariant, PTL

\* No step of a run replaces what the Article Index holds.
THEOREM MigrationKeepsLiveData == MigrationSpec => LiveDataKept
<1> DEFINE Kept0 ==
      \A u \in Articles :
         /\ row[u] # None => row'[u] = row[u]
         /\ opened[u] # None => opened'[u] = opened[u]
         /\ feedback[u].vote # None /\ feedback'[u] # feedback[u]
              => \E r \in Requests : /\ request[r].at = "store" /\ Article(r) = u
                                     /\ request'[r].at \in {"emit", "failed"}
<1>1. ASSUME IInv, [MigrationNext]_migration PROVE Kept0
  <2>1. /\ TypeOK /\ legacy \in Seq(LegacyRows)
        /\ row \in [Articles -> {"live", "migrated", None}]
    BY <1>1, RunTyped
  <2>2. CASE UNCHANGED <<row, opened, feedback>>
    BY <2>2
  <2>3. ASSUME NEW u \in Articles, Write(u) PROVE Kept0
    <3>1. row' = [row EXCEPT ![u] = KeptFirst(@, "migrated")]
      BY <2>3 DEF Write
    <3>2. \A a \in Articles : row[a] # None => row'[a] = row[a]
      BY <2>1, <3>1 DEF KeptFirst
    <3>3. /\ RowsStay
          /\ feedback[u].vote # None => feedback'[u] = feedback[u]
          /\ \A a \in Articles \ {u} : feedback'[a] = feedback[a]
      BY <2>1, <2>3, WriteIs
    <3> QED BY <3>2, <3>3 DEF RowsStay
  <2>4. ASSUME NEW u \in Articles, ImportRecord(u) PROVE Kept0
    BY <2>2, <2>3, <2>4 DEF ImportRecord, index
  <2>5. ASSUME NEW u \in Articles, Enrich(u) PROVE Kept0
    BY <2>1, <2>5 DEF Enrich, vars
  <2>6. CASE Serve
    <3>1. Signals /\ UNCHANGED row
      BY <2>6 DEF Serve
    <3>2. RowsStay
      BY <1>1, <3>1, SignalsKeep DEF IInv
    <3> QED BY <1>1, <3>1, <3>2, SignalsAre DEF RowsStay
  <2>7. ASSUME NEW u \in Articles, FindBookmark(u) \/ SaveBookmark(u) \/ FindRecord(u)
        PROVE  UNCHANGED <<row, opened, feedback>>
    BY <2>7 DEF FindBookmark, SaveBookmark, FindRecord, vars
  <2>8. CASE \/ \E apply \in BOOLEAN : Start(apply)
             \/ ToRecords \/ Sample \/ Die
             \/ \E r \in Requests, a \in Articles, signal \in Votes \union {"open"} :
                   ClickLink(r, a, signal)
             \/ UNCHANGED migration
    BY <2>2, <2>8 DEF Start, ToRecords, Sample, Die, ClickLink, Click, migration, vars
  <2> QED BY <1>1, <2>2, <2>4, <2>5, <2>6, <2>7, <2>8 DEF MigrationNext
<1>2. IInv /\ [MigrationNext]_migration => [Kept0]_migration
  BY <1>1
<1> QED BY <1>2, MigrationInvariant, PTL DEF MigrationSpec, LiveDataKept
=============================================================================
