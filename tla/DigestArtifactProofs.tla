------------------------ MODULE DigestArtifactProofs ------------------------
(***************************************************************************)
(* Proofs about DigestArtifact, for any sets of Articles, requests and     *)
(* days, any lookback, size and time.                                      *)
(***************************************************************************)
EXTENDS DigestArtifact, FiniteSetTheorems, WellFoundedInduction, TLAPS

Saved(d) == digest[d] # None
HasWindow(r) == request[r].at \in {"candidates", "select", "save"}

\* What a request knows at each place: it has an answer only when it scores or
\* replies, saves only a Digest with items, and sends the scores of the saved
\* Digest or has lost a race for its day.
Knows(r) ==
    /\ request[r].at \notin {"score", "reply"} => request[r].reply = None
    /\ request[r].at = "reply" =>
          \/ request[r].reply # None /\ request[r].reply.items = {}
          \/ Saved(Day(r)) /\ request[r].reply = digest[Day(r)]
    /\ request[r].at \in {"find", "window", "candidates"} => Made(r).pool = {}
    /\ request[r].at = "save" =>
          Made(r).items # {} /\ Cardinality(Made(r).items) <= MaxItems
    /\ request[r].at = "refind" => Saved(Day(r)) /\ Day(r) \in raced
    /\ request[r].at = "score" =>
          /\ Saved(Day(r)) /\ request[r].reply = digest[Day(r)]
          /\ Made(r) = digest[Day(r)] \/ Day(r) \in raced

\* A window of date d ends in the past, reaches back by the lookback at least,
\* and begins no earlier than an earlier date's Digest ends, unless it was read
\* before that one was saved.
WindowKept(made, d) ==
    /\ made.end <= now /\ made.start >= made.end - Lookback
    /\ \A e \in Days : e < d /\ Saved(e) =>
          digest[e].end <= made.start \/ made.end <= savedAt[e]

\* The candidates, and so the items, were enriched in the window.
PoolKept(made) ==
    /\ made.items \subseteq made.pool
    /\ \A a \in made.pool : enriched[a].at # None /\ Within(made, enriched[a].at)

\* The Articles a window reaches back to, and those a saved Digest had among
\* its candidates.
Due(made) == {a \in Articles : /\ Prompt(a)
                               /\ made.end - Lookback <= enriched[a].at
                               /\ enriched[a].at < made.end}
Taken == {a \in Articles : \E e \in Days : Saved(e) /\ a \in digest[e].pool}

\* What is due is or will be among the candidates, or was taken before.
DueKept(r) ==
    \A a \in Due(Made(r)) \ Taken :
        \/ request[r].at = "candidates" /\ Made(r).start <= enriched[a].at
        \/ request[r].at # "candidates" /\ a \in Made(r).pool

\* Articles were enriched in the past, and are visible only after it.
EnrichedPast ==
    \A a \in Articles :
        /\ enriched[a].at # None => enriched[a].at <= now
        /\ enriched[a].visible # None => enriched[a].at # None

RowKept(d) == /\ savedAt[d] # None /\ WindowKept(digest[d], d) /\ PoolKept(digest[d])
              /\ Due(digest[d]) \subseteq Taken
RequestKept(r) == /\ Knows(r) /\ PoolKept(Made(r))
                  /\ HasWindow(r) => WindowKept(Made(r), Day(r)) /\ DueKept(r)

IInv ==
    /\ TypeOK /\ EnrichedPast /\ ScoresAccounted
    /\ \A d \in Days : Saved(d) => RowKept(d)
    /\ \A r \in Requests : RequestKept(r)

-----------------------------------------------------------------------------
(* Data *)

\* A set of numbers from Bounds has a latest one.
LEMMA LatestIs ==
    ASSUME NEW S \in SUBSET Bounds, S # {}
    PROVE  Latest(S) \in S /\ \A t \in S : t <= Latest(S)
<1> DEFINE T == {MaxTime - t : t \in S}
<1> USE DigestArtifactAssumption
<1>1. T \subseteq Nat /\ T # {}
  <2>1. \A t \in S : t \in Int /\ t <= MaxTime /\ MaxTime - t \in Nat
    BY DEF Bounds
  <2> QED BY <2>1
<1>2. PICK m \in T : \A k \in T : ~(<<k, m>> \in OpToRel(<, Nat))
  <2> HIDE DEF T
  <2> QED BY <1>1, WFMin, NatLessThanWellFounded
<1>3. \A k \in T : m <= k
  <2> HIDE DEF T
  <2>1. m \in Nat
    BY <1>1
  <2>2. \A k \in Nat : k < m => <<k, m>> \in OpToRel(<, Nat)
    BY <2>1 DEF OpToRel
  <2>3. \A k \in T : k \in Nat /\ ~(k < m)
    BY <1>1, <1>2, <2>2
  <2> QED BY <2>1, <2>3
<1>4. PICK s \in S : m = MaxTime - s
  OBVIOUS
<1>5. \A t \in S : t <= s
  BY <1>3, <1>4 DEF Bounds
<1> QED BY <1>5 DEF Latest

\* The fields of an artifact.
LEMMA ArtifactTyped ==
    ASSUME NEW made \in Artifacts
    PROVE  /\ made # None
           /\ made.items \subseteq Articles /\ made.pool \subseteq Articles
           /\ made.start \in Bounds /\ made.start \in Int
           /\ made.end \in Times /\ made.end \in Int
BY NoneAssumption, DigestArtifactAssumption DEF Artifacts, Bounds, Times

\* The window of a date: it reaches back by the lookback at least, to the end
\* of a Digest of an earlier date at most, and ends every such Digest before.
LEMMA WindowStartIs ==
    ASSUME TypeOK, NEW d \in Days
    PROVE  /\ WindowStart(d) \in Bounds
           /\ WindowStart(d) >= now - Lookback
           /\ \A e \in Days : e < d /\ Saved(e) => digest[e].end <= WindowStart(d)
           /\ \/ WindowStart(d) = now - Lookback
              \/ \E e \in Days : Saved(e) /\ WindowStart(d) = digest[e].end
<1> DEFINE S == EarlierEnds(d) \union {now - Lookback}
<1>1. \A e \in Days : Saved(e) => digest[e].end \in Bounds
  BY ArtifactTyped, DigestArtifactAssumption DEF TypeOK, Saved, Times, Bounds
<1>2. S \in SUBSET Bounds
  <2>1. now \in Nat /\ now <= MaxTime
    BY DigestArtifactAssumption DEF TypeOK, Times
  <2>2. now - Lookback \in Bounds
    BY <2>1, DigestArtifactAssumption DEF Bounds
  <2> QED BY <1>1, <2>2 DEF EarlierEnds, Saved
<1>3. WindowStart(d) \in S /\ \A t \in S : t <= WindowStart(d)
  BY <1>2, LatestIs DEF WindowStart
<1> QED BY <1>2, <1>3 DEF EarlierEnds, Saved

\* The locals of a request, and what its steps write.
Locals == [at: Places, day: Days \union {None}, made: Artifacts,
           reply: Artifacts \union {None}]

\* The locals of a request after each kind of step.
LEMMA LocalsTyped ==
    /\ NoArtifact \in Artifacts /\ Idle \in Locals
    /\ \A l \in Locals :
          /\ \A at \in Places : [l EXCEPT !.at = at] \in Locals
          /\ \A at \in Places, reply \in Artifacts \union {None} :
                [Idle EXCEPT !.at = at, !.day = l.day, !.reply = reply] \in Locals
          /\ \A d \in Days : [Idle EXCEPT !.at = "find", !.day = d] \in Locals
<1>1. NoArtifact \in Artifacts
  BY DigestArtifactAssumption DEF NoArtifact, Artifacts, Bounds, Times
<1> QED BY <1>1 DEF Idle, Locals, Places

-----------------------------------------------------------------------------

\* The initial states satisfy the invariant.
LEMMA InitIInv == Init => IInv
<1> SUFFICES ASSUME Init PROVE IInv
  OBVIOUS
<1>1. TypeOK
  <2>1. request \in [Requests -> Locals]
    BY LocalsTyped DEF Init
  <2> QED BY <2>1, DigestArtifactAssumption DEF Init, TypeOK, Locals, Stamps, Times, Idle
<1>2. EnrichedPast /\ ScoresAccounted /\ \A d \in Days : ~Saved(d)
  BY DEF Init, EnrichedPast, ScoresAccounted, Saved
<1>3. \A r \in Requests : RequestKept(r)
  BY DEF Init, RequestKept, Knows, PoolKept, HasWindow, Made, Idle, NoArtifact
<1> QED BY <1>1, <1>2, <1>3 DEF IInv

\* The scores stay accounted for while those about to be sent stay so, or are
\* lost with their request.
LEMMA ScoresFrame ==
    ASSUME ScoresAccounted, UNCHANGED <<digest, scored, raced>>, cut \subseteq cut',
           \A r \in Requests, d \in Days : Scoring(r, d) => Scoring(r, d)' \/ d \in cut'
    PROVE  ScoresAccounted'
BY DEF ScoresAccounted

\* A step that changes nothing but one request keeps the invariant when that
\* request still has its part of it.
LEMMA RequestOnly ==
    ASSUME IInv, UNCHANGED <<now, enriched, digest, savedAt, scores>>,
           NEW r \in Requests, request[r].at # "score", NEW local \in Locals,
           request' = [request EXCEPT ![r] = local],
           local.at # "idle" => local.day \in Days,
           RequestKept(r)'
    PROVE  IInv'
<1>1. request \in [Requests -> Locals]
  BY DEF IInv, TypeOK, Locals
<1>2. request' \in [Requests -> Locals] /\ request'[r] = local
      /\ \A q \in Requests \ {r} : request'[q] = request[q]
  BY <1>1
<1>3. TypeOK'
  BY <1>2 DEF IInv, TypeOK, Locals, scores
<1>4. EnrichedPast' /\ ScoresAccounted'
  <2>1. \A q \in Requests, d \in Days : Scoring(q, d) => q # r /\ request'[q] = request[q]
    BY <1>2 DEF Scoring
  <2>2. \A q \in Requests, d \in Days : Scoring(q, d) => Scoring(q, d)'
    BY <2>1 DEF Scoring, Made, Day
  <2> QED BY <2>2, ScoresFrame DEF IInv, EnrichedPast, scores
<1>5. \A d \in Days : Saved(d)' => RowKept(d)'
  BY DEF IInv, Saved, RowKept, WindowKept, PoolKept, Within, Due, Prompt, Taken
<1>6. ASSUME NEW q \in Requests \ {r} PROVE RequestKept(q)'
  <2>1. RequestKept(q) /\ request'[q] = request[q] /\ raced' = raced
    BY <1>2 DEF IInv, scores
  <2> QED BY <2>1 DEF RequestKept, Knows, Saved, WindowKept, PoolKept, Within, Due, Prompt,
                      Taken, DueKept, HasWindow, Made, Day
<1> QED BY <1>3, <1>4, <1>5, <1>6 DEF IInv

\* The steps that leave a request without what it has made itself: it begins,
\* fails, ends, has found the saved Digest, or has none to save.
LEMMA ForgetStep ==
    ASSUME IInv, NEW r \in Requests, request[r].at # "score", NEW local \in Locals,
           UNCHANGED <<now, enriched, digest, savedAt, scores>>,
           request' = [request EXCEPT ![r] = local],
           local.made = NoArtifact,
           local.at \in {"idle", "find", "failed", "reply"},
           local.at # "idle" => local.day \in Days,
           local.at # "reply" => local.reply = None,
           local.at = "reply" =>
              \/ local.reply # None /\ local.reply.items = {}
              \/ Saved(local.day) /\ local.reply = digest[local.day]
    PROVE  IInv'
<1>1. request'[r] = local
  BY DEF IInv, TypeOK
<1>2. RequestKept(r)'
  BY <1>1 DEF RequestKept, Knows, PoolKept, HasWindow, Made, Day, Saved, NoArtifact, scores
<1> QED BY <1>2, RequestOnly

\* A request arrives with nothing made and nothing read.
LEMMA ReceiveStep ==
    ASSUME IInv, NEW r \in Requests, NEW d \in Days, Receive(r, d)
    PROVE  IInv'
<1> DEFINE local == [Idle EXCEPT !.at = "find", !.day = d]
<1>1. local \in Locals /\ local.made = NoArtifact /\ local.at = "find" /\ local.day = d /\ local.reply = None
  BY LocalsTyped DEF Idle
<1>2. request' = [request EXCEPT ![r] = local] /\ UNCHANGED <<now, enriched, digest, savedAt, scores>>
  BY DEF Receive
<1>3. request[r].at # "score"
  BY DEF Receive
<1> QED
  <2> HIDE DEF local
  <2> QED BY <1>1, <1>2, <1>3, ForgetStep

\* What Forget writes.
LEMMA Forgotten ==
    ASSUME IInv, NEW r \in Requests, request[r].at # "idle",
           NEW place \in Places, NEW reply \in Artifacts \union {None},
           Forget(r, place, reply)
    PROVE  \E local \in Locals :
              /\ local.made = NoArtifact /\ local.at = place /\ local.reply = reply
              /\ local.day = Day(r) /\ local.day \in Days
              /\ request' = [request EXCEPT ![r] = local]
<1> DEFINE local == [Idle EXCEPT !.at = place, !.day = Day(r), !.reply = reply]
<1>1. request[r] \in Locals /\ Day(r) \in Days
  BY DEF IInv, TypeOK, Locals, Day
<1>2. local \in Locals
  BY <1>1, LocalsTyped DEF Day
<1>3. request' = [request EXCEPT ![r] = local]
  BY DEF Forget
<1>4. local.made = NoArtifact /\ local.at = place /\ local.reply = reply /\ local.day = Day(r)
  BY DEF Idle
<1> HIDE DEF local
<1> QED BY <1>1, <1>2, <1>3, <1>4

\* A request that fails forgets what it made.
LEMMA BreakStep ==
    ASSUME IInv, NEW r \in Requests, Break(r)
    PROVE  IInv'
<1>1. request[r].at # "idle" /\ "failed" \in Places /\ Forget(r, "failed", None)
      /\ UNCHANGED <<now, enriched, digest, savedAt, scores>>
  BY DEF Break, Places
<1>2. PICK local \in Locals :
              /\ local.made = NoArtifact /\ local.at = "failed" /\ local.reply = None
              /\ local.day = Day(r) /\ local.day \in Days
              /\ request' = [request EXCEPT ![r] = local]
  BY <1>1, Forgotten
<1>3. request[r].at # "score"
  BY DEF Break
<1> QED BY <1>1, <1>2, <1>3, ForgetStep

\* The answer of a request is the saved Digest, or an empty one.
LEMMA AnswerStep ==
    ASSUME IInv, NEW r \in Requests, request[r].at \notin {"idle", "score"},
           NEW reply \in Artifacts, Answer(r, reply),
           UNCHANGED <<now, enriched, digest, savedAt, scores>>,
           reply.items = {} \/ (Saved(Day(r)) /\ reply = digest[Day(r)])
    PROVE  IInv'
<1>1. "reply" \in Places /\ Forget(r, "reply", reply)
  BY DEF Answer, Places
<1>2. PICK local \in Locals :
              /\ local.made = NoArtifact /\ local.at = "reply" /\ local.reply = reply
              /\ local.day = Day(r) /\ local.day \in Days
              /\ request' = [request EXCEPT ![r] = local]
  BY <1>1, Forgotten
<1>3. reply # None
  BY ArtifactTyped
<1> QED BY <1>2, <1>3, ForgetStep

\* An answered request is idle again.
LEMMA FinishStep ==
    ASSUME IInv, NEW r \in Requests, Finish(r)
    PROVE  IInv'
<1>1. Idle \in Locals /\ Idle.made = NoArtifact /\ Idle.at = "idle" /\ Idle.reply = None
  BY LocalsTyped DEF Idle
<1>2. request' = [request EXCEPT ![r] = Idle] /\ UNCHANGED <<now, enriched, digest, savedAt, scores>>
  BY DEF Finish
<1>3. request[r].at # "score"
  BY DEF Finish
<1> QED BY <1>1, <1>2, <1>3, ForgetStep

\* A restart leaves every request without anything.
LEMMA CrashStep ==
    ASSUME IInv, Crash
    PROVE  IInv'
<1>1. TypeOK'
  <2>1. cut' \subseteq Days /\ cut \subseteq cut'
    BY DEF IInv, TypeOK, Crash, Day
  <2> QED BY <2>1, LocalsTyped DEF IInv, TypeOK, Crash, Locals, Idle
<1>2. EnrichedPast' /\ ScoresAccounted'
  <2>1. \A r \in Requests, d \in Days : Scoring(r, d) => d \in cut'
    BY DEF Crash, Scoring
  <2> QED BY <2>1, ScoresFrame DEF IInv, EnrichedPast, Crash
<1>3. \A d \in Days : Saved(d)' => RowKept(d)'
  BY DEF IInv, Crash, Saved, RowKept, WindowKept, PoolKept, Within, Due, Prompt, Taken
<1>4. \A r \in Requests : RequestKept(r)'
  BY DEF Crash, RequestKept, Knows, PoolKept, HasWindow, Made, Idle, NoArtifact
<1> QED BY <1>1, <1>2, <1>3, <1>4 DEF IInv

\* The request looks for a saved Digest.
LEMMA FindSavedStep ==
    ASSUME IInv, NEW r \in Requests, FindSaved(r)
    PROVE  IInv'
<1>1. /\ request[r] \in Locals /\ Day(r) \in Days
      /\ digest[Day(r)] \in Artifacts \union {None}
      /\ RequestKept(r) /\ request[r].at = "find"
      /\ UNCHANGED <<now, enriched, digest, savedAt, scores>>
  BY DEF IInv, TypeOK, Locals, Day, FindSaved
<1>2. CASE digest[Day(r)] # None
  <2>1. Answer(r, digest[Day(r)]) /\ Saved(Day(r))
    BY <1>2 DEF FindSaved, Saved
  <2> QED BY <1>1, <1>2, <2>1, AnswerStep
<1>3. CASE digest[Day(r)] = None
  <2> DEFINE local == [request[r] EXCEPT !.at = "window"]
  <2>1. request' = [request EXCEPT ![r] = local]
    BY <1>3 DEF FindSaved, Goto
  <2>2. local \in Locals /\ local.day \in Days /\ local.at = "window"
        /\ local.made = Made(r) /\ local.reply = request[r].reply
    BY <1>1 DEF Places, Locals, Day, Made
  <2>3. request'[r] = local
    BY <2>1 DEF IInv, TypeOK
  <2> HIDE DEF local
  <2>4. RequestKept(r)'
    BY <1>1, <2>2, <2>3 DEF RequestKept, Knows, PoolKept, HasWindow, Made, Within
  <2> QED BY <1>1, <2>1, <2>2, <2>4, RequestOnly
<1> QED BY <1>2, <1>3

\* The loser of the race goes on with what it made, and the row it finds.
LEMMA RefindStep ==
    ASSUME IInv, NEW r \in Requests, Refind(r)
    PROVE  IInv'
<1> DEFINE local == [request[r] EXCEPT !.at = "score", !.reply = digest[Day(r)]]
<1>1. /\ request[r] \in Locals /\ Day(r) \in Days /\ RequestKept(r) /\ request[r].at = "refind"
      /\ digest[Day(r)] \in Artifacts \union {None}
      /\ UNCHANGED <<now, enriched, digest, savedAt, scores>>
  BY DEF IInv, TypeOK, Locals, Day, Refind
<1>2. request' = [request EXCEPT ![r] = local]
  BY DEF Refind, Created
<1>3. /\ local \in Locals /\ local.at = "score" /\ local.made = Made(r)
      /\ local.day = Day(r) /\ local.reply = digest[Day(r)]
  BY <1>1 DEF Places, Locals, Day, Made
<1>4. request'[r] = local
  BY <1>2 DEF IInv, TypeOK
<1> HIDE DEF local
<1>5. RequestKept(r)'
  BY <1>1, <1>3, <1>4 DEF RequestKept, Knows, PoolKept, HasWindow, Made, Day, Saved, Within, scores
<1> QED BY <1>1, <1>2, <1>3, <1>5, RequestOnly

\* The window is read; what it reaches back to and does not contain was taken
\* by the Digest in which it begins.
LEMMA WindowStep ==
    ASSUME IInv, NEW r \in Requests, Window(r)
    PROVE  IInv'
<1> DEFINE made == [Made(r) EXCEPT !.start = WindowStart(Day(r)), !.end = now]
           local == [request[r] EXCEPT !.at = "candidates", !.made = made]
<1>1. /\ request[r] \in Locals /\ Day(r) \in Days /\ Made(r) \in Artifacts
      /\ RequestKept(r) /\ request[r].at = "window" /\ now \in Times
      /\ UNCHANGED <<now, enriched, digest, savedAt, scores>>
  BY DEF IInv, TypeOK, Locals, Day, Made, Window
<1>2. /\ made \in Artifacts /\ made.start = WindowStart(Day(r)) /\ made.end = now
      /\ made.items = {} /\ made.pool = {}
  <2>1. Made(r).pool = {} /\ Made(r).items = {}
    BY <1>1 DEF RequestKept, Knows, PoolKept
  <2>2. WindowStart(Day(r)) \in Bounds
    BY <1>1, WindowStartIs DEF IInv
  <2> QED BY <1>1, <2>1, <2>2 DEF Artifacts
<1>3. request' = [request EXCEPT ![r] = local]
  <2>1. request[r].made = Made(r)
    BY DEF Made
  <2> QED BY <1>1, <2>1 DEF Window, Locals, Artifacts
<1>4. local \in Locals /\ local.at = "candidates" /\ local.made = made
      /\ local.day = Day(r) /\ local.reply = None
  BY <1>1, <1>2 DEF Places, Locals, Day, RequestKept, Knows
<1>5. request'[r] = local
  BY <1>3 DEF IInv, TypeOK
<1> HIDE DEF local, made
<1>6. WindowKept(made, Day(r))
  <2>1. made.end <= now /\ made.start >= made.end - Lookback
    BY <1>1, <1>2, WindowStartIs DEF IInv, Times
  <2> QED BY <1>1, <1>2, <2>1, WindowStartIs DEF IInv, WindowKept
<1>7. ASSUME NEW a \in Due(made) \ Taken PROVE made.start <= enriched[a].at
  <2>1. CASE made.start = now - Lookback
    BY <1>2, <2>1 DEF Due
  <2>2. ASSUME NEW e \in Days, Saved(e), made.start = digest[e].end
        PROVE  made.start <= enriched[a].at
    <3>1. Due(digest[e]) \subseteq Taken /\ digest[e].end <= now /\ digest[e].end \in Int
      BY <2>2, ArtifactTyped DEF IInv, RowKept, WindowKept, TypeOK, Saved
    <3>2. digest[e].end - Lookback <= now - Lookback
      BY <1>1, <3>1, DigestArtifactAssumption DEF Times
    <3>3. enriched[a].at \in Int
      <4>1. enriched[a].at \in Stamps /\ enriched[a].at # None
        BY DEF IInv, TypeOK, EnrichedPast, Due, Prompt
      <4> QED BY <4>1, DigestArtifactAssumption DEF Stamps, Times
    <3>4. digest[e].end - Lookback <= enriched[a].at
      BY <1>1, <1>2, <3>1, <3>2, <3>3, DigestArtifactAssumption DEF Due, Times
    <3> QED BY <2>2, <3>1, <3>3, <3>4 DEF Due
  <2> QED BY <1>1, <1>2, <2>1, <2>2, WindowStartIs DEF IInv
<1>8. RequestKept(r)'
  BY <1>1, <1>2, <1>4, <1>5, <1>6, <1>7
     DEF RequestKept, Knows, PoolKept, HasWindow, Made, Day, WindowKept, DueKept, Due,
         Prompt, Taken, Saved
<1> QED BY <1>1, <1>3, <1>4, <1>8, RequestOnly

\* The candidates are read: an Article that is due and visible was visible
\* before the window ended.
LEMMA CandidatesStep ==
    ASSUME IInv, NEW r \in Requests, Candidates(r)
    PROVE  IInv'
<1> DEFINE made == [Made(r) EXCEPT !.pool = Pool(r)]
           local == [request[r] EXCEPT !.at = "select", !.made = made]
<1>1. /\ request[r] \in Locals /\ Day(r) \in Days /\ Made(r) \in Artifacts
      /\ RequestKept(r) /\ request[r].at = "candidates"
      /\ UNCHANGED <<now, enriched, digest, savedAt, scores>>
  BY DEF IInv, TypeOK, Locals, Day, Made, Candidates
<1>2. /\ made \in Artifacts /\ made.start = Made(r).start /\ made.end = Made(r).end
      /\ made.items = {} /\ made.pool = Pool(r)
  <2>1. Made(r).items = {}
    BY <1>1 DEF RequestKept, Knows, PoolKept
  <2> QED BY <1>1, <2>1 DEF Artifacts, Pool
<1>3. request' = [request EXCEPT ![r] = local]
  <2>1. request[r].made = Made(r)
    BY DEF Made
  <2> QED BY <1>1, <2>1 DEF Candidates, Locals, Artifacts
<1>4. local \in Locals /\ local.at = "select" /\ local.made = made
      /\ local.day = Day(r) /\ local.reply = None
  BY <1>1, <1>2 DEF Places, Locals, Day, RequestKept, Knows
<1>5. request'[r] = local
  BY <1>3 DEF IInv, TypeOK
<1> HIDE DEF local, made
<1>6. PoolKept(made)
  BY <1>1, <1>2 DEF IInv, EnrichedPast, PoolKept, Pool, Within
<1>7. WindowKept(made, Day(r))
  BY <1>1, <1>2 DEF RequestKept, HasWindow, WindowKept
<1>8. ASSUME NEW a \in Due(made) \ Taken PROVE a \in made.pool
  <2>1. a \in Due(Made(r)) \ Taken
    BY <1>2 DEF Due
  <2>2. Made(r).start <= enriched[a].at
    BY <1>1, <2>1 DEF RequestKept, HasWindow, DueKept
  <2> QED BY <1>2, <2>1, <2>2 DEF Due, Prompt, Pool, Within
<1>9. RequestKept(r)'
  BY <1>1, <1>2, <1>4, <1>5, <1>6, <1>7, <1>8
     DEF RequestKept, Knows, PoolKept, HasWindow, Made, Day, WindowKept, DueKept, Due,
         Prompt, Taken, Saved, Within
<1> QED BY <1>1, <1>3, <1>4, <1>9, RequestOnly

\* The model's selection is a part of the candidates.
LEMMA SelectStep ==
    ASSUME IInv, NEW r \in Requests, Select(r)
    PROVE  IInv'
<1>1. /\ request[r] \in Locals /\ Day(r) \in Days /\ Made(r) \in Artifacts
      /\ RequestKept(r) /\ request[r].at = "select"
      /\ UNCHANGED <<now, enriched, digest, savedAt, scores>>
  BY DEF IInv, TypeOK, Locals, Day, Made, Select
<1>2. PICK items \in SUBSET Made(r).pool :
          /\ Cardinality(items) <= MaxItems
          /\ IF items = {}
             THEN Answer(r, [Made(r) EXCEPT !.items = items])
             ELSE request' = [request EXCEPT ![r].made = [Made(r) EXCEPT !.items = items],
                                             ![r].at = "save"]
  BY DEF Select
<1> DEFINE made == [Made(r) EXCEPT !.items = items]
           local == [request[r] EXCEPT !.made = made, !.at = "save"]
<1>3. /\ made \in Artifacts /\ made.start = Made(r).start /\ made.end = Made(r).end
      /\ made.items = items /\ made.pool = Made(r).pool
  BY <1>1 DEF Artifacts
<1>4. items = {} => Answer(r, made)
  BY <1>2
<1>5. items # {} => request' = [request EXCEPT ![r] = local]
  BY <1>1, <1>2 DEF Locals
<1>6. local \in Locals /\ local.at = "save" /\ local.made = made
      /\ local.day = Day(r) /\ local.reply = None
  BY <1>1, <1>3 DEF Places, Locals, Day, RequestKept, Knows
<1> HIDE DEF local, made
<1>7. CASE items = {}
  <2>1. PICK reply \in Artifacts : reply = made
    BY <1>3
  <2>2. reply.items = {} /\ Answer(r, reply)
    BY <1>3, <1>4, <1>7, <2>1 DEF Answer, Forget
  <2> QED BY <1>1, <2>2, AnswerStep
<1>8. CASE items # {}
  <2>1. request'[r] = local
    BY <1>5, <1>8 DEF IInv, TypeOK
  <2>2. PoolKept(made) /\ WindowKept(made, Day(r))
    BY <1>1, <1>3 DEF RequestKept, HasWindow, WindowKept, PoolKept, Within
  <2>3. \A a \in Due(made) \ Taken : a \in made.pool
    BY <1>1, <1>3 DEF RequestKept, HasWindow, DueKept, Due
  <2>4. RequestKept(r)'
    BY <1>1, <1>2, <1>3, <1>6, <1>8, <2>1, <2>2, <2>3
       DEF RequestKept, Knows, PoolKept, HasWindow, Made, Day, WindowKept, DueKept, Due,
           Prompt, Taken, Saved, Within
  <2> QED BY <1>1, <1>5, <1>6, <1>8, <2>4, RequestOnly
<1> QED BY <1>7, <1>8
-----------------------------------------------------------------------------
(* The steps that change what the requests share. *)

\* A Digest is inserted where there was none: windows read since then begin
\* where it ends, and those under way were read before.
LEMMA InsertKeeps ==
    ASSUME IInv, NEW r \in Requests, request[r].at = "save", Insert(r), Inserts(Day(r)),
           UNCHANGED <<now, enriched>>
    PROVE  /\ digest' \in [Days -> Artifacts \union {None}] /\ savedAt' \in [Days -> Stamps]
           /\ EnrichedPast' /\ Day(r) \in Days /\ ~Saved(Day(r))
           /\ digest'[Day(r)] = Made(r) /\ Made(r) # None
           /\ \A d \in Days \ {Day(r)} : digest'[d] = digest[d]
           /\ \A d \in Days : Saved(d)' => RowKept(d)'
           /\ \A made \in Artifacts, d \in Days : WindowKept(made, d) => WindowKept(made, d)'
           /\ Taken \subseteq Taken'
<1>1. /\ Day(r) \in Days /\ Made(r) \in Artifacts /\ Made(r) # None
      /\ RequestKept(r) /\ now \in Times /\ now # None /\ ~Saved(Day(r))
      /\ digest \in [Days -> Artifacts \union {None}] /\ savedAt \in [Days -> Stamps]
  BY NoneAssumption, ArtifactTyped DEF IInv, TypeOK, Locals, Day, Made, Inserts, Saved
<1>2. /\ digest' = [digest EXCEPT ![Day(r)] = Made(r)]
      /\ savedAt' = [savedAt EXCEPT ![Day(r)] = now]
  BY DEF Insert
<1>3. digest' \in [Days -> Artifacts \union {None}] /\ savedAt' \in [Days -> Stamps]
  BY <1>1, <1>2 DEF Stamps
<1>4. /\ digest'[Day(r)] = Made(r) /\ savedAt'[Day(r)] = now
      /\ \A d \in Days \ {Day(r)} : digest'[d] = digest[d] /\ savedAt'[d] = savedAt[d]
  BY <1>1, <1>2
<1>5. \A d \in Days : Saved(d) => d # Day(r)
  BY <1>1
<1>6. EnrichedPast'
  BY DEF IInv, EnrichedPast
<1>8. Taken \subseteq Taken' /\ Made(r).pool \subseteq Taken'
  <2>1. \A e \in Days : Saved(e) => Saved(e)' /\ digest'[e] = digest[e]
    BY <1>4, <1>5 DEF Saved
  <2>2. digest'[Day(r)] # None /\ Made(r).pool \subseteq Articles
    BY <1>1, <1>4, ArtifactTyped
  <2>3. \A a \in Taken : \E e \in Days : Saved(e)' /\ a \in digest'[e].pool
    BY <2>1 DEF Taken
  <2>4. \A a \in Made(r).pool : \E e \in Days : Saved(e)' /\ a \in digest'[e].pool
    BY <1>1, <1>4, <2>2 DEF Saved
  <2>5. \A a : (a \in Articles /\ \E e \in Days : Saved(e)' /\ a \in digest'[e].pool) => a \in Taken'
    BY DEF Taken
  <2>6. Taken \subseteq Articles
    BY DEF Taken
  <2> QED BY <2>2, <2>3, <2>4, <2>5, <2>6
<1>9. ASSUME NEW made \in Artifacts, NEW d \in Days, WindowKept(made, d) PROVE WindowKept(made, d)'
  <2>1. ASSUME NEW e \in Days, e < d, Saved(e)'
        PROVE  digest'[e].end <= made.start \/ made.end <= savedAt'[e]
    <3>1. CASE e = Day(r)
      BY <1>4, <1>9, <3>1 DEF WindowKept
    <3>2. CASE e # Day(r)
      BY <1>4, <1>9, <2>1, <3>2 DEF WindowKept, Saved
    <3> QED BY <3>1, <3>2
  <2> QED BY <1>9, <2>1 DEF WindowKept
<1>10. ASSUME NEW d \in Days, Saved(d)' PROVE RowKept(d)'
  <2>1. CASE d = Day(r)
    <3>1. WindowKept(Made(r), Day(r)) /\ PoolKept(Made(r)) /\ DueKept(r)
      BY <1>1 DEF RequestKept, HasWindow
    <3>2. WindowKept(digest[d], d)'
      BY <1>1, <1>4, <1>9, <2>1, <3>1 DEF WindowKept
    <3>3. PoolKept(digest[d])'
      BY <1>4, <2>1, <3>1 DEF PoolKept, Within
    <3>4. Due(Made(r)) \subseteq Taken'
      BY <1>1, <1>8, <3>1 DEF DueKept
    <3>5. Due(digest[d])' \subseteq Taken'
      BY <1>4, <2>1, <3>4 DEF Due, Prompt
    <3> QED BY <1>1, <1>4, <2>1, <3>2, <3>3, <3>5 DEF RowKept
  <2>2. CASE d # Day(r)
    <3>1. digest'[d] = digest[d] /\ savedAt'[d] = savedAt[d] /\ RowKept(d) /\ digest[d] \in Artifacts
      BY <1>1, <1>4, <1>10, <2>2 DEF IInv, Saved
    <3>2. WindowKept(digest[d], d)'
      BY <1>9, <3>1 DEF RowKept, WindowKept
    <3>3. PoolKept(digest[d])'
      BY <3>1 DEF RowKept, PoolKept, Within
    <3>4. Due(digest[d])' \subseteq Taken'
      BY <1>8, <3>1 DEF RowKept, Due, Prompt
    <3> QED BY <3>1, <3>2, <3>3, <3>4 DEF RowKept
  <2> QED BY <2>1, <2>2
<1> QED BY <1>1, <1>3, <1>4, <1>6, <1>8, <1>9, <1>10

\* The request goes on to its scores, or fails without having seen the row.
LEMMA InsertStep ==
    ASSUME IInv, NEW r \in Requests, request[r].at = "save", Insert(r), Inserts(Day(r)),
           UNCHANGED <<now, enriched, scored, raced>>, NEW local \in Locals,
           request' = [request EXCEPT ![r] = local],
           local.day = Day(r),
           \/ /\ local.at = "score" /\ local.made = Made(r) /\ local.reply = Made(r)
              /\ UNCHANGED cut
           \/ /\ local.at = "failed" /\ local.made = NoArtifact /\ local.reply = None
              /\ cut' = cut \union {Day(r)}
    PROVE  IInv'
<1>1. /\ Day(r) \in Days /\ RequestKept(r) /\ request \in [Requests -> Locals]
      /\ ~Saved(Day(r)) /\ digest'[Day(r)] = Made(r) /\ Made(r) # None
      /\ \A d \in Days \ {Day(r)} : digest'[d] = digest[d]
  BY InsertKeeps DEF IInv, TypeOK, Locals
<1>2. request' \in [Requests -> Locals] /\ request'[r] = local
      /\ \A q \in Requests \ {r} : request'[q] = request[q]
  BY <1>1
<1>3. TypeOK'
  BY <1>1, <1>2, InsertKeeps DEF IInv, TypeOK, Locals
<1>4. RequestKept(r)'
  <2>1. Made(r).items # {} /\ Cardinality(Made(r).items) <= MaxItems /\ PoolKept(Made(r))
    BY <1>1 DEF RequestKept, Knows
  <2>3. Knows(r)'
    BY <1>1, <1>2, <2>1 DEF Knows, Made, Day, Saved
  <2>4. PoolKept(Made(r))'
    BY <1>2, <2>1 DEF PoolKept, Made, NoArtifact, Within
  <2> QED BY <1>2, <2>3, <2>4 DEF RequestKept, HasWindow
<1>5. ASSUME NEW q \in Requests \ {r} PROVE RequestKept(q)'
  <2>1. RequestKept(q) /\ request'[q] = request[q] /\ Made(q) \in Artifacts
        /\ (request[q].at # "idle" => Day(q) \in Days)
    BY <1>1, <1>2 DEF IInv, TypeOK, Locals, Made, Day
  <2>2. Knows(q)'
    <3>1. \A d \in Days : Saved(d) => digest'[d] = digest[d]
      BY <1>1
    <3> QED BY <2>1, <3>1 DEF RequestKept, Knows, Made, Day, Saved
  <2>3. PoolKept(Made(q))'
    BY <2>1 DEF RequestKept, PoolKept, Within, Made
  <2>4. ASSUME HasWindow(q)' PROVE WindowKept(Made(q), Day(q))' /\ DueKept(q)'
    <3>1. HasWindow(q) /\ Day(q) \in Days /\ WindowKept(Made(q), Day(q)) /\ DueKept(q)
      BY <2>1, <2>4 DEF HasWindow, RequestKept
    <3>2. \A made \in Artifacts, d \in Days : WindowKept(made, d) => WindowKept(made, d)'
      BY InsertKeeps
    <3>3. WindowKept(Made(q), Day(q))'
      BY <2>1, <3>1, <3>2 DEF WindowKept, Made, Day
    <3>4. Taken \subseteq Taken'
      BY InsertKeeps
    <3>5. DueKept(q)'
      BY <2>1, <3>1, <3>4 DEF DueKept, Due, Prompt, Made
    <3> QED BY <3>3, <3>5
  <2> QED BY <2>2, <2>3, <2>4 DEF RequestKept
<1>6. ScoresAccounted'
  <2>1. ScoresAccounted
    BY DEF IInv
  <2>2. ASSUME NEW d \in Days, d = Day(r)
        PROVE  /\ digest'[d] # None /\ scored'[d] = {}
               /\ d \in cut' \/ \E q \in Requests : Scoring(q, d)'
    <3>1. digest'[d] # None /\ scored'[d] = {}
      BY <1>1, <2>1, <2>2 DEF ScoresAccounted, Saved
    <3>2. Scoring(r, d)' \/ d \in cut'
      BY <1>1, <1>2, <2>2 DEF Scoring, Made, Day
    <3> QED BY <3>1, <3>2
  <2>3. ASSUME NEW q \in Requests, NEW d \in Days \ {Day(r)}, Scoring(q, d)
        PROVE  Scoring(q, d)'
    <3>1. q # r
      BY <2>3 DEF Scoring
    <3> QED BY <1>1, <1>2, <2>3, <3>1 DEF Scoring, Made, Day
  <2>4. ASSUME NEW d \in Days, d # Day(r)
        PROVE  IF digest'[d] = None
               THEN scored'[d] = {}
               ELSE /\ scored'[d] \subseteq {digest'[d]} \/ d \in raced'
                    /\ digest'[d] \in scored'[d] \/ d \in cut' \/ \E q \in Requests : Scoring(q, d)'
    BY <1>1, <2>1, <2>3, <2>4 DEF ScoresAccounted
  <2>5. ASSUME NEW d \in Days
        PROVE  IF digest'[d] = None
               THEN scored'[d] = {}
               ELSE /\ scored'[d] \subseteq {digest'[d]} \/ d \in raced'
                    /\ digest'[d] \in scored'[d] \/ d \in cut' \/ \E q \in Requests : Scoring(q, d)'
    BY <2>2, <2>4
  <2> QED BY <2>5 DEF ScoresAccounted
<1> QED BY <1>3, <1>4, <1>5, <1>6, InsertKeeps DEF IInv

\* A race is remembered by what it was for.
LEMMA RaceStep ==
    ASSUME IInv, NEW r \in Requests, request[r].at = "save", ~Inserts(Day(r)), Save(r)
    PROVE  IInv'
<1> DEFINE local == [request[r] EXCEPT !.at = "refind"]
<1>1. /\ request[r] \in Locals /\ Day(r) \in Days /\ RequestKept(r)
      /\ request \in [Requests -> Locals] /\ Saved(Day(r))
      /\ UNCHANGED <<now, enriched, digest, savedAt, scored, cut>>
      /\ request' = [request EXCEPT ![r] = local] /\ raced' = raced \union {Day(r)}
  BY DEF IInv, TypeOK, Locals, Day, Save, Goto, Inserts, Saved
<1>2. /\ local \in Locals /\ local.day = Day(r) /\ local.reply = None
      /\ local.at = "refind" /\ local.made = Made(r)
  BY <1>1 DEF Places, Locals, Day, Made, RequestKept, Knows
<1>3. request' \in [Requests -> Locals] /\ request'[r] = local
      /\ \A q \in Requests \ {r} : request'[q] = request[q]
  BY <1>1, <1>2
<1> HIDE DEF local
<1>4. TypeOK'
  BY <1>1, <1>2, <1>3 DEF IInv, TypeOK, Locals
<1>5. EnrichedPast' /\ ScoresAccounted'
  <2>1. \A q \in Requests, d \in Days : Scoring(q, d) => q # r /\ request'[q] = request[q]
    BY <1>3 DEF Scoring
  <2>2. \A q \in Requests, d \in Days : Scoring(q, d) => Scoring(q, d)'
    BY <1>1, <2>1 DEF Scoring, Made, Day
  <2> QED BY <1>1, <2>2 DEF IInv, EnrichedPast, ScoresAccounted
<1>6. \A d \in Days : Saved(d)' => RowKept(d)'
  BY <1>1 DEF IInv, Saved, RowKept, WindowKept, PoolKept, Within, Due, Prompt, Taken
<1>7. RequestKept(r)'
  BY <1>1, <1>2, <1>3 DEF RequestKept, Knows, PoolKept, HasWindow, Made, Day, Saved, Within
<1>8. ASSUME NEW q \in Requests \ {r} PROVE RequestKept(q)'
  <2>1. RequestKept(q) /\ request'[q] = request[q]
    BY <1>3 DEF IInv
  <2> QED BY <1>1, <2>1 DEF RequestKept, Knows, Saved, WindowKept, PoolKept, Within, Due, Prompt,
                            Taken, DueKept, HasWindow, Made, Day
<1> QED BY <1>4, <1>5, <1>6, <1>7, <1>8 DEF IInv

\* The Digest of the window is inserted, or its day is taken.
LEMMA SaveStep ==
    ASSUME IInv, NEW r \in Requests, Save(r)
    PROVE  IInv'
<1>1. /\ request[r] \in Locals /\ Made(r) \in Artifacts /\ Day(r) \in Days
      /\ request[r].at = "save" /\ UNCHANGED <<now, enriched, scored, cut>>
  BY DEF IInv, TypeOK, Locals, Day, Made, Save
<1>2. CASE Inserts(Day(r))
  <2> DEFINE local == [request[r] EXCEPT !.at = "score", !.reply = Made(r)]
  <2>1. Insert(r) /\ request' = [request EXCEPT ![r] = local] /\ UNCHANGED raced
    BY <1>2 DEF Save, Created
  <2>2. /\ local \in Locals /\ local.day = Day(r) /\ local.reply = Made(r)
        /\ local.at = "score" /\ local.made = Made(r)
    BY <1>1 DEF Places, Locals, Day, Made
  <2> HIDE DEF local
  <2> QED BY <1>1, <1>2, <2>1, <2>2, InsertStep
<1> QED BY <1>1, <1>2, RaceStep

\* The Digest is inserted and its request fails.
LEMMA SaveUnseenStep ==
    ASSUME IInv, NEW r \in Requests, SaveUnseen(r)
    PROVE  IInv'
<1>1. /\ request[r].at = "save" /\ Inserts(Day(r)) /\ Insert(r)
      /\ Forget(r, "failed", None) /\ UNCHANGED <<now, enriched, scored, raced>>
      /\ "failed" \in Places /\ cut' = cut \union {Day(r)}
  BY DEF SaveUnseen, Places
<1>2. PICK local \in Locals :
              /\ local.made = NoArtifact /\ local.at = "failed" /\ local.reply = None
              /\ local.day = Day(r) /\ local.day \in Days
              /\ request' = [request EXCEPT ![r] = local]
  BY <1>1, Forgotten
<1> QED BY <1>1, <1>2, InsertStep

\* The scores are those of the row, or of a request that lost the race; the
\* answer is the row.
LEMMA ScoreSelectedStep ==
    ASSUME IInv, NEW r \in Requests, ScoreSelected(r)
    PROVE  IInv'
<1>1. /\ request[r] \in Locals /\ Day(r) \in Days /\ Made(r) \in Artifacts
      /\ Saved(Day(r)) /\ request[r].at = "score" /\ request[r].reply = digest[Day(r)]
      /\ Made(r) = digest[Day(r)] \/ Day(r) \in raced
      /\ digest[Day(r)] \in Artifacts
      /\ request \in [Requests -> Locals] /\ scored \in [Days -> SUBSET Artifacts]
  BY DEF IInv, TypeOK, Locals, Day, Made, RequestKept, Knows, ScoreSelected, Saved
<1>2. /\ Forget(r, "reply", digest[Day(r)]) /\ "reply" \in Places
      /\ UNCHANGED <<now, enriched, digest, savedAt, raced, cut>>
      /\ scored' = [scored EXCEPT ![Day(r)] = @ \union {Made(r)}]
  BY <1>1 DEF ScoreSelected, Answer, Places
<1>3. PICK local \in Locals :
              /\ local.made = NoArtifact /\ local.at = "reply" /\ local.reply = digest[Day(r)]
              /\ local.day = Day(r) /\ local.day \in Days
              /\ request' = [request EXCEPT ![r] = local]
  <2>1. PICK reply \in Artifacts : reply = digest[Day(r)]
    BY <1>1
  <2>2. Forget(r, "reply", reply)
    BY <1>2, <2>1 DEF Forget
  <2> QED BY <1>1, <1>2, <2>1, <2>2, Forgotten
<1>4. request' \in [Requests -> Locals] /\ request'[r] = local
      /\ \A q \in Requests \ {r} : request'[q] = request[q]
  BY <1>1, <1>3
<1>5. /\ scored' \in [Days -> SUBSET Artifacts] /\ scored'[Day(r)] = scored[Day(r)] \union {Made(r)}
      /\ \A d \in Days \ {Day(r)} : scored'[d] = scored[d]
  BY <1>1, <1>2
<1>6. TypeOK'
  BY <1>2, <1>3, <1>4, <1>5 DEF IInv, TypeOK, Locals
<1>7. ScoresAccounted' /\ EnrichedPast'
  <2>1. ASSUME NEW q \in Requests, NEW d \in Days, Scoring(q, d)
        PROVE  Scoring(q, d)' \/ digest'[d] \in scored'[d]
    <3>1. CASE q = r
      BY <1>2, <1>5, <2>1, <3>1 DEF Scoring
    <3>2. CASE q # r
      BY <1>2, <1>4, <2>1, <3>2 DEF Scoring, Made, Day
    <3> QED BY <3>1, <3>2
  <2>2. ScoresAccounted /\ digest' = digest /\ raced' = raced /\ cut' = cut
    BY <1>2 DEF IInv
  <2>3. \A d \in Days : scored[d] \subseteq scored'[d]
    BY <1>5
  <2>4. \A d \in Days : scored'[d] \subseteq scored[d] \union {digest[d]} \/ d \in raced
    BY <1>1, <1>5
  <2>5. \A d \in Days : digest[d] = None => scored'[d] = scored[d]
    BY <1>1, <1>5 DEF Saved
  <2>6. ScoresAccounted'
    BY <2>1, <2>2, <2>3, <2>4, <2>5 DEF ScoresAccounted
  <2> QED BY <1>2, <2>6 DEF IInv, EnrichedPast
<1>8. \A d \in Days : Saved(d)' => RowKept(d)'
  BY <1>2 DEF IInv, Saved, RowKept, WindowKept, PoolKept, Within, Due, Prompt, Taken
<1>9. RequestKept(r)'
  BY <1>1, <1>2, <1>3, <1>4 DEF RequestKept, Knows, PoolKept, HasWindow, Made, Day, Saved, NoArtifact
<1>10. ASSUME NEW q \in Requests \ {r} PROVE RequestKept(q)'
  <2>1. RequestKept(q) /\ request'[q] = request[q]
    BY <1>4 DEF IInv
  <2> QED BY <1>2, <2>1 DEF RequestKept, Knows, Saved, WindowKept, PoolKept, Within, Due, Prompt,
                            Taken, DueKept, HasWindow, Made, Day
<1> QED BY <1>6, <1>7, <1>8, <1>9, <1>10 DEF IInv

\* The stamps of Articles, and the ends of windows, are times.
LEMMA StampsTyped ==
    ASSUME IInv
    PROVE  /\ now \in Int
           /\ \A a \in Articles :
                 /\ enriched[a].at # None => enriched[a].at \in Int
                 /\ enriched[a].visible # None => enriched[a].visible \in Int
           /\ \A d \in Days : Saved(d) => digest[d] \in Artifacts /\ digest[d].end \in Int
           /\ \A r \in Requests : Made(r) \in Artifacts /\ Made(r).end \in Int
<1>1. now \in Int /\ \A t \in Stamps : t # None => t \in Int
  BY DigestArtifactAssumption DEF IInv, TypeOK, Stamps, Times
<1>2. \A a \in Articles : enriched[a].at \in Stamps /\ enriched[a].visible \in Stamps
  BY DEF IInv, TypeOK
<1>3. /\ \A d \in Days : Saved(d) => digest[d] \in Artifacts
      /\ \A r \in Requests : Made(r) \in Artifacts
  BY DEF IInv, TypeOK, Saved, Made
<1> QED BY <1>1, <1>2, <1>3, ArtifactTyped

\* Time passes, and Articles are enriched: what a window contains, and what
\* is due in it, are settled when it is read.
LEMMA ClockStep ==
    ASSUME IInv, UNCHANGED <<digest, savedAt, request, scores>>,
           now' \in Times, now <= now',
           enriched' \in [Articles -> [at: Stamps, visible: Stamps]],
           EnrichedPast',
           \A a \in Articles : enriched[a].at # None => enriched'[a].at = enriched[a].at,
           \A a \in Articles : Prompt(a)' => Prompt(a) \/ now <= enriched'[a].at
    PROVE  IInv'
<1>1. TypeOK' /\ ScoresAccounted'
  <2>1. \A r \in Requests, d \in Days : Scoring(r, d) => Scoring(r, d)'
    BY DEF Scoring, Made, Day
  <2> QED BY <2>1, ScoresFrame DEF IInv, TypeOK, scores
<1>2. now' \in Int /\ \A a \in Articles : enriched'[a].at # None => enriched'[a].at \in Int
  BY DigestArtifactAssumption DEF Stamps, Times
<1>3. ASSUME NEW made \in Artifacts, NEW d, WindowKept(made, d) PROVE WindowKept(made, d)'
  <2>1. made.end <= now'
    BY <1>2, <1>3, StampsTyped, ArtifactTyped DEF WindowKept
  <2> QED BY <1>3, <2>1 DEF WindowKept, Saved
<1>4. ASSUME NEW made \in Artifacts, PoolKept(made) PROVE PoolKept(made)'
  <2>1. \A a \in made.pool : enriched'[a].at = enriched[a].at
    BY <1>4, ArtifactTyped DEF PoolKept
  <2> QED BY <1>4, <2>1 DEF PoolKept, Within
<1>5. ASSUME NEW made \in Artifacts, made.end <= now, NEW a \in Due(made)'
      PROVE  a \in Due(made) /\ enriched'[a].at = enriched[a].at
  <2>1. a \in Articles /\ Prompt(a)' /\ enriched'[a].at < made.end /\ made.end - Lookback <= enriched'[a].at
    BY DEF Due
  <2>2. enriched'[a].at # None /\ enriched'[a].at \in Int
    BY <1>2, <2>1 DEF EnrichedPast, Prompt
  <2>3. Prompt(a)
    BY <1>5, <2>1, <2>2, StampsTyped, ArtifactTyped
  <2>4. enriched'[a].at = enriched[a].at
    BY <2>1, <2>3 DEF IInv, EnrichedPast, Prompt
  <2> QED BY <2>1, <2>3, <2>4 DEF Due
<1>6. Taken' = Taken
  BY DEF Taken, Saved
<1>7. ASSUME NEW d \in Days, Saved(d)' PROVE RowKept(d)'
  <2>1. RowKept(d) /\ digest[d] \in Artifacts /\ digest'[d] = digest[d] /\ savedAt'[d] = savedAt[d]
    BY <1>7, StampsTyped DEF IInv, Saved
  <2>2. WindowKept(digest[d], d)'
    BY <1>3, <2>1 DEF RowKept, WindowKept
  <2>3. PoolKept(digest[d])'
    BY <1>4, <2>1 DEF RowKept, PoolKept, Within
  <2>4. Due(digest[d])' \subseteq Taken'
    <3>1. digest[d].end <= now
      BY <2>1 DEF RowKept, WindowKept
    <3>2. \A a \in Due(digest[d])' : a \in Due(digest[d])
      BY <1>5, <2>1, <3>1 DEF Due, Prompt
    <3> QED BY <1>6, <2>1, <3>2 DEF RowKept
  <2> QED BY <2>1, <2>2, <2>3, <2>4 DEF RowKept
<1>8. ASSUME NEW r \in Requests PROVE RequestKept(r)'
  <2>1. RequestKept(r) /\ request'[r] = request[r] /\ Made(r) \in Artifacts
    BY StampsTyped DEF IInv
  <2>2. Knows(r)'
    BY <2>1 DEF RequestKept, Knows, Made, Day, Saved, scores
  <2>3. PoolKept(Made(r))'
    BY <1>4, <2>1 DEF RequestKept, PoolKept, Within, Made
  <2>4. ASSUME HasWindow(r)' PROVE WindowKept(Made(r), Day(r))' /\ DueKept(r)'
    <3>1. WindowKept(Made(r), Day(r)) /\ DueKept(r)
      BY <2>1, <2>4 DEF HasWindow, RequestKept
    <3>2. WindowKept(Made(r), Day(r))'
      BY <1>3, <2>1, <3>1 DEF WindowKept, Made, Day
    <3>3. \A a \in Due(Made(r))' : a \in Due(Made(r)) /\ enriched'[a].at = enriched[a].at
      BY <1>5, <2>1, <3>1 DEF Due, Prompt, Made, WindowKept
    <3>4. DueKept(r)'
      BY <1>6, <2>1, <3>1, <3>3 DEF DueKept, Made
    <3> QED BY <3>2, <3>4
  <2> QED BY <2>2, <2>3, <2>4 DEF RequestKept
<1> QED BY <1>1, <1>7, <1>8 DEF IInv

\* Time passes: what was stamped lies in the past all the more.
LEMMA TickStep ==
    ASSUME IInv, Tick
    PROVE  IInv'
<1>1. now' \in Times /\ now <= now' /\ enriched' = enriched
  BY DigestArtifactAssumption DEF IInv, TypeOK, Tick, Times
<1>2. EnrichedPast'
  BY <1>1, StampsTyped, DigestArtifactAssumption DEF IInv, EnrichedPast, Times
<1> QED BY <1>1, <1>2, ClockStep DEF IInv, TypeOK, Tick, Prompt

\* An UPDATE that has started is not visible.
LEMMA StartEnrichedStep ==
    ASSUME IInv, NEW a \in Articles, StartEnriched(a)
    PROVE  IInv'
<1>1. /\ enriched' \in [Articles -> [at: Stamps, visible: Stamps]]
      /\ enriched'[a].at = now /\ enriched'[a].visible = enriched[a].visible
      /\ \A b \in Articles \ {a} : enriched'[b] = enriched[b]
      /\ enriched[a].at = None /\ now' = now /\ now \in Times
  BY DEF IInv, TypeOK, StartEnriched, Stamps
<1>2. enriched[a].visible = None
  BY <1>1 DEF IInv, EnrichedPast
<1>3. EnrichedPast'
  BY <1>1, <1>2, StampsTyped, NoneAssumption DEF IInv, EnrichedPast
<1>4. \A b \in Articles : Prompt(b)' => Prompt(b)
  BY <1>1, <1>2 DEF Prompt
<1> QED BY <1>1, <1>3, <1>4, StampsTyped, ClockStep DEF StartEnriched

\* One that commits is prompt only when it started at this instant.
LEMMA CommitEnrichedStep ==
    ASSUME IInv, NEW a \in Articles, CommitEnriched(a)
    PROVE  IInv'
<1>1. /\ enriched' \in [Articles -> [at: Stamps, visible: Stamps]]
      /\ enriched'[a].at = enriched[a].at /\ enriched'[a].visible = now
      /\ \A b \in Articles \ {a} : enriched'[b] = enriched[b]
      /\ enriched[a].at # None /\ now' = now /\ now \in Times
  BY DEF IInv, TypeOK, CommitEnriched, Stamps
<1>2. EnrichedPast'
  BY <1>1 DEF IInv, EnrichedPast
<1>3. \A b \in Articles : Prompt(b)' => Prompt(b) \/ now <= enriched'[b].at
  BY <1>1, StampsTyped DEF Prompt
<1>4. \A b \in Articles : enriched[b].at # None => enriched'[b].at = enriched[b].at
  BY <1>1
<1> QED BY <1>1, <1>2, <1>3, <1>4, StampsTyped, ClockStep DEF CommitEnriched
-----------------------------------------------------------------------------
(* Theorems *)

\* Every step keeps the invariant.
LEMMA NextIInv == IInv /\ [Next]_vars => IInv'
<1> SUFFICES ASSUME IInv, [Next]_vars PROVE IInv'
  OBVIOUS
<1>1. ASSUME NEW r \in Requests, RequestStep(r) PROVE IInv'
  BY <1>1, BreakStep, FindSavedStep, WindowStep, CandidatesStep, SelectStep, SaveStep,
     SaveUnseenStep, RefindStep, ScoreSelectedStep, FinishStep DEF RequestStep
<1>2. CASE UNCHANGED vars
  <2>1. UNCHANGED <<digest, savedAt, request, scores, now, enriched>>
    BY <1>2 DEF vars
  <2>2. now' \in Times /\ now <= now'
    BY <2>1, StampsTyped DEF IInv, TypeOK
  <2> QED BY <2>1, <2>2, ClockStep DEF IInv, TypeOK, EnrichedPast, Prompt
<1> QED BY <1>1, <1>2, TickStep, StartEnrichedStep, CommitEnrichedStep, ReceiveStep, CrashStep
        DEF Next

\* The invariant implies the three safety properties.
LEMMA IInvSafe == IInv => ScoresAccounted /\ NoRepeat /\ NothingSkipped
<1> SUFFICES ASSUME IInv PROVE NoRepeat /\ NothingSkipped
  BY DEF IInv
<1>1. NoRepeat
  <2> SUFFICES ASSUME NEW d \in Days, NEW e \in Days, d < e, Saved(d), Saved(e),
                      NEW a, a \in digest[d].items, a \in digest[e].items
               PROVE  digest[e].end <= savedAt[d]
    BY DEF NoRepeat, Saved
  <2>1. RowKept(d) /\ RowKept(e) /\ digest[d] \in Artifacts /\ digest[e] \in Artifacts
    BY StampsTyped DEF IInv
  <2>2. a \in Articles /\ enriched[a].at # None /\ enriched[a].at < digest[d].end
        /\ digest[e].start <= enriched[a].at
    BY <2>1, ArtifactTyped DEF RowKept, PoolKept, Within
  <2>3. ~(digest[d].end <= digest[e].start)
    BY <2>1, <2>2, StampsTyped, ArtifactTyped
  <2> QED BY <2>1, <2>3 DEF RowKept, WindowKept
<1>2. NothingSkipped
  BY DEF IInv, RowKept, Due, Taken, NothingSkipped, Saved
<1> QED BY <1>1, <1>2

\* The invariant holds in every reachable state of the Digest artifact.
THEOREM DigestInvariant == Spec => []IInv
<1>1. Init => IInv
  BY InitIInv
<1>2. IInv /\ [Next]_vars => IInv'
  BY NextIInv
<1> QED BY <1>1, <1>2, PTL DEF Spec

\* Scores are sent only once a Digest is saved; without a race for the day they
\* are its own; and its own are sent unless its request was cut off.
THEOREM DigestScoresAccounted == Spec => []ScoresAccounted
BY DigestInvariant, IInvSafe, PTL

\* An Article is in two Digests only when the later date's window was read
\* before the earlier date's Digest was saved.
THEOREM DigestNoRepeat == Spec => []NoRepeat
BY DigestInvariant, IInvSafe, PTL

\* An Article enriched and visible at once within the lookback was a candidate.
THEOREM DigestNothingSkipped == Spec => []NothingSkipped
BY DigestInvariant, IInvSafe, PTL
-----------------------------------------------------------------------------
(* The refinement: every step is a step of the store its callers see, or    *)
(* none.                                                                    *)

\* An artifact's items tell a row from none.
LEMMA ItemsTell ==
    /\ Items(None) = None
    /\ \A artifact \in Artifacts : Items(artifact) = artifact.items /\ Items(artifact) # None
<1>1. \A artifact \in Artifacts : artifact # None /\ artifact.items # None
  BY ArtifactTyped, NoneAssumption
<1> QED BY <1>1 DEF Items

\* A request that moves is seen to move.
LEMMA RequestSeen ==
    ASSUME IInv, NEW r \in Requests, NEW local \in Locals,
           request' = [request EXCEPT ![r] = local]
    PROVE  /\ RequestsSeen' = [RequestsSeen EXCEPT ![r] = View(local)]
           /\ RequestsSeen[r] = View(request[r])
<1>1. request' \in [Requests -> Locals] /\ request'[r] = local
      /\ \A q \in Requests \ {r} : request'[q] = request[q]
  BY DEF IInv, TypeOK, Locals
<1>2. RequestsSeen' = [q \in Requests |-> View(request'[q])]
  BY DEF RequestsSeen, View, Items
<1>3. \A q \in Requests : View(request'[q]) = IF q = r THEN View(local) ELSE View(request[q])
  BY <1>1
<1> QED BY <1>2, <1>3 DEF RequestsSeen

\* What is seen of a request under way.
LEMMA WorkingSeen ==
    ASSUME IInv, NEW r \in Requests, request[r].at \notin {"idle", "reply", "failed"}
    PROVE  View(request[r]) = [at |-> "working", day |-> Day(r), reply |-> None]
BY DEF View, Day

\* A request fails.
LEMMA FailRefines ==
    ASSUME IInv, NEW r \in Requests, request[r].at \notin {"idle", "reply", "failed"},
           Forget(r, "failed", None), UNCHANGED digest
    PROVE  Promise!Fail(r)
<1>1. "failed" \in Places /\ request[r].at # "idle"
  BY DEF Places
<1>2. PICK local \in Locals :
              /\ local.made = NoArtifact /\ local.at = "failed" /\ local.reply = None
              /\ local.day = Day(r) /\ local.day \in Days
              /\ request' = [request EXCEPT ![r] = local]
  BY <1>1, Forgotten
<1>3. View(local) = [at |-> "failed", day |-> Day(r), reply |-> None]
  BY <1>2, ItemsTell DEF View
<1>4. /\ RequestsSeen' = [RequestsSeen EXCEPT ![r] = View(local)]
      /\ RequestsSeen[r] = [at |-> "working", day |-> Day(r), reply |-> None]
  BY <1>2, RequestSeen, WorkingSeen
<1>5. RequestsSeen[r].at = "working" /\ RequestsSeen' = [RequestsSeen EXCEPT ![r].at = "failed"]
  <2>1. [RequestsSeen[r] EXCEPT !.at = "failed"] = View(local) /\ RequestsSeen[r].at = "working"
    BY <1>3, <1>4
  <2> QED BY <1>4, <2>1
<1>6. DigestsSeen' = DigestsSeen
  BY DEF DigestsSeen, Items
<1> QED BY <1>5, <1>6 DEF Promise!Fail

\* A request is answered with what is saved, or with nothing.
LEMMA AnswerRefines ==
    ASSUME IInv, NEW r \in Requests, request[r].at \notin {"idle", "reply", "failed"},
           NEW reply \in Artifacts, Answer(r, reply), UNCHANGED digest,
           reply.items = {} \/ (Saved(Day(r)) /\ reply = digest[Day(r)])
    PROVE  Promise!Answer(r)
<1>1. "reply" \in Places /\ request[r].at # "idle" /\ Forget(r, "reply", reply)
  BY DEF Places, Answer
<1>2. PICK local \in Locals :
              /\ local.made = NoArtifact /\ local.at = "reply" /\ local.reply = reply
              /\ local.day = Day(r) /\ local.day \in Days
              /\ request' = [request EXCEPT ![r] = local]
  BY <1>1, Forgotten
<1>3. View(local) = [at |-> "reply", day |-> Day(r), reply |-> reply.items]
  BY <1>2, ItemsTell DEF View
<1>4. /\ RequestsSeen' = [RequestsSeen EXCEPT ![r] = View(local)]
      /\ RequestsSeen[r] = [at |-> "working", day |-> Day(r), reply |-> None]
  BY <1>2, RequestSeen, WorkingSeen
<1>5. /\ RequestsSeen[r].at = "working"
      /\ RequestsSeen' = [RequestsSeen EXCEPT ![r].at = "reply", ![r].reply = reply.items]
  <2>1. /\ [RequestsSeen[r] EXCEPT !.at = "reply", !.reply = reply.items] = View(local)
        /\ RequestsSeen[r].at = "working"
    <3>1. \A day, items : [[at |-> "working", day |-> day, reply |-> None]
                               EXCEPT !.at = "reply", !.reply = items]
                           = [at |-> "reply", day |-> day, reply |-> items]
      <4>1. \A day : [[at |-> "working", day |-> day, reply |-> None] EXCEPT !.at = "reply"]
                     = [at |-> "reply", day |-> day, reply |-> None]
        OBVIOUS
      <4>2. \A day, items : [[at |-> "reply", day |-> day, reply |-> None] EXCEPT !.reply = items]
                            = [at |-> "reply", day |-> day, reply |-> items]
        OBVIOUS
      <4> QED BY <4>1, <4>2
    <3>2. [RequestsSeen[r] EXCEPT !.at = "reply", !.reply = reply.items]
            = [[at |-> "working", day |-> Day(r), reply |-> None]
                  EXCEPT !.at = "reply", !.reply = reply.items]
      BY <1>4
    <3>3. @ = View(local)
      BY <1>3, <3>1
    <3> QED BY <1>4, <3>2, <3>3
  <2>2. r \in DOMAIN RequestsSeen
    BY DEF RequestsSeen
  <2> QED BY <1>4, <2>1, <2>2
<1>6. DigestsSeen' = DigestsSeen
  BY DEF DigestsSeen, Items
<1>7. reply.items \in Promise!Answers(Promise!Day(r))
  <2>1. Promise!Day(r) = Day(r) /\ Day(r) \in Days
    BY <1>2, <1>4 DEF Promise!Day
  <2>2. reply = digest[Day(r)] => DigestsSeen[Day(r)] = reply.items /\ reply.items # None
    BY <2>1, ItemsTell DEF DigestsSeen
  <2> QED BY <2>1, <2>2 DEF Promise!Answers
<1> QED BY <1>5, <1>6, <1>7 DEF Promise!Answer

\* A request that goes on is not seen to move.
LEMMA WorkingOn ==
    ASSUME IInv, NEW r \in Requests, UNCHANGED digest,
           \A q \in Requests \ {r} : request'[q] = request[q],
           request[r].at \notin {"idle", "reply", "failed"},
           request'[r].at \notin {"idle", "reply", "failed"},
           request'[r].day = request[r].day
    PROVE  UNCHANGED Promise!store
<1>1. \A q \in Requests : View(request'[q]) = View(request[q])
  BY DEF View
<1>2. RequestsSeen' = [q \in Requests |-> View(request'[q])]
  BY DEF RequestsSeen, View, Items
<1>3. RequestsSeen' = RequestsSeen
  BY <1>1, <1>2 DEF RequestsSeen
<1>4. DigestsSeen' = DigestsSeen
  BY DEF DigestsSeen, Items
<1> QED BY <1>3, <1>4 DEF Promise!store

\* A Digest is saved where there was none, and only one with items.
LEMMA SaveRefines ==
    ASSUME IInv, NEW r \in Requests, request[r].at = "save", Insert(r), Inserts(Day(r)),
           NEW local \in Locals, request' = [request EXCEPT ![r] = local],
           local.day = Day(r), local.at \in {"score", "failed"}
    PROVE  Promise!Save(r)
<1>1. /\ Day(r) \in Days /\ Made(r) \in Artifacts /\ digest[Day(r)] = None
      /\ Made(r).items # {} /\ Cardinality(Made(r).items) <= MaxItems
      /\ digest' = [digest EXCEPT ![Day(r)] = Made(r)]
      /\ digest \in [Days -> Artifacts \union {None}]
  BY DEF IInv, TypeOK, RequestKept, Knows, Insert, Inserts, Day, Made
<1>2. /\ RequestsSeen' = [RequestsSeen EXCEPT ![r] = View(local)]
      /\ RequestsSeen[r] = [at |-> "working", day |-> Day(r), reply |-> None]
  BY RequestSeen, WorkingSeen
<1>3. Promise!Day(r) = Day(r) /\ RequestsSeen[r].at = "working"
  BY <1>2 DEF Promise!Day
<1>4. PICK next \in {"working", "failed"} : View(local) = [at |-> next, day |-> Day(r), reply |-> None]
  BY ItemsTell DEF View
<1>5. RequestsSeen' = [RequestsSeen EXCEPT ![r].at = next]
  <2>1. [RequestsSeen[r] EXCEPT !.at = next] = View(local)
    BY <1>2, <1>4
  <2> QED BY <1>2, <2>1
<1>6. DigestsSeen[Day(r)] = None
  BY <1>1, ItemsTell DEF DigestsSeen
<1>7. DigestsSeen' = [DigestsSeen EXCEPT ![Day(r)] = Made(r).items]
  <2>1. DigestsSeen' = [d \in Days |-> Items(digest'[d])]
    BY DEF DigestsSeen, Items
  <2>2. \A d \in Days : Items(digest'[d]) = IF d = Day(r) THEN Made(r).items ELSE Items(digest[d])
    BY <1>1, ItemsTell
  <2> QED BY <2>1, <2>2 DEF DigestsSeen
<1>8. Made(r).items \in {S \in SUBSET Articles : Cardinality(S) <= MaxItems} \ {{}}
  BY <1>1, ArtifactTyped
<1> QED BY <1>3, <1>4, <1>5, <1>6, <1>7, <1>8 DEF Promise!Save

\* Each step of a request.
LEMMA RequestRefines ==
    ASSUME IInv, NEW r \in Requests, RequestStep(r)
    PROVE  Promise!Next \/ UNCHANGED Promise!store
<1>1. /\ request[r] \in Locals /\ Made(r) \in Artifacts /\ RequestKept(r)
      /\ request \in [Requests -> Locals]
      /\ (request[r].at # "idle" => Day(r) \in Days)
      /\ digest \in [Days -> Artifacts \union {None}]
  BY DEF IInv, TypeOK, Locals, Day, Made
<1>2. Promise!RequestStep(r) => Promise!Next
  BY DEF Promise!Next
<1>3. CASE Break(r)
  <2>1. Promise!Fail(r)
    BY <1>3, FailRefines DEF Break, Places
  <2> QED BY <1>2, <2>1 DEF Promise!RequestStep
<1>4. CASE FindSaved(r) /\ Saved(Day(r))
  <2>1. PICK reply \in Artifacts : reply = digest[Day(r)]
    BY <1>1, <1>4 DEF FindSaved, Saved
  <2>2. Answer(r, reply) /\ UNCHANGED digest /\ request[r].at = "find"
    BY <1>4, <2>1 DEF FindSaved, Saved, Answer, Forget
  <2>3. Promise!Answer(r)
    BY <1>4, <2>1, <2>2, AnswerRefines
  <2> QED BY <1>2, <2>3 DEF Promise!RequestStep
<1>5. CASE FindSaved(r) /\ ~Saved(Day(r))
  BY <1>1, <1>5, WorkingOn DEF FindSaved, Saved, Goto, Locals
<1>6. CASE Window(r)
  BY <1>1, <1>6, WorkingOn DEF Window, Locals
<1>7. CASE Candidates(r)
  BY <1>1, <1>7, WorkingOn DEF Candidates, Locals
<1>8. CASE Select(r)
  <2>1. PICK items \in SUBSET Made(r).pool :
            IF items = {}
            THEN Answer(r, [Made(r) EXCEPT !.items = items])
            ELSE request' = [request EXCEPT ![r].made = [Made(r) EXCEPT !.items = items],
                                            ![r].at = "save"]
    BY <1>8 DEF Select
  <2>2. CASE items = {}
    <3>1. PICK reply \in Artifacts : reply = [Made(r) EXCEPT !.items = items]
      BY <1>1 DEF Artifacts
    <3>2. reply.items = {}
      BY <1>1, <2>2, <3>1 DEF Artifacts
    <3>3. Answer(r, reply) /\ UNCHANGED digest /\ request[r].at = "select"
      BY <1>8, <2>1, <2>2, <3>1 DEF Select, Answer, Forget
    <3>4. Promise!Answer(r)
      BY <3>2, <3>3, AnswerRefines
    <3> QED BY <1>2, <3>4 DEF Promise!RequestStep
  <2>3. CASE items # {}
    BY <1>1, <1>8, <2>1, <2>3, WorkingOn DEF Select, Locals
  <2> QED BY <2>2, <2>3
<1>9. CASE Save(r) /\ Inserts(Day(r))
  <2> DEFINE local == [request[r] EXCEPT !.at = "score", !.reply = Made(r)]
  <2>1. Insert(r) /\ request[r].at = "save" /\ request' = [request EXCEPT ![r] = local]
    BY <1>9 DEF Save, Created
  <2>2. local \in Locals /\ local.day = Day(r) /\ local.at = "score"
    BY <1>1, <2>1 DEF Places, Locals, Day
  <2> HIDE DEF local
  <2>3. Promise!Save(r)
    BY <1>9, <2>1, <2>2, SaveRefines
  <2> QED BY <1>2, <2>3 DEF Promise!RequestStep
<1>10. CASE Save(r) /\ ~Inserts(Day(r))
  BY <1>1, <1>10, WorkingOn DEF Save, Goto, Locals
<1>11. CASE SaveUnseen(r)
  <2>1. /\ request[r].at = "save" /\ Insert(r) /\ Inserts(Day(r))
        /\ Forget(r, "failed", None) /\ "failed" \in Places
    BY <1>11 DEF SaveUnseen, Places
  <2>2. PICK local \in Locals :
              /\ local.made = NoArtifact /\ local.at = "failed" /\ local.reply = None
              /\ local.day = Day(r) /\ local.day \in Days
              /\ request' = [request EXCEPT ![r] = local]
    BY <2>1, Forgotten
  <2>3. Promise!Save(r)
    BY <2>1, <2>2, SaveRefines
  <2> QED BY <1>2, <2>3 DEF Promise!RequestStep
<1>12. CASE ScoreSelected(r)
  <2>1. request[r].at = "score" /\ Saved(Day(r)) /\ Day(r) \in Days
    BY <1>1, <1>12 DEF ScoreSelected, RequestKept, Knows
  <2>2. PICK reply \in Artifacts : reply = digest[Day(r)]
    BY <1>1, <2>1 DEF Saved
  <2>3. Answer(r, reply) /\ UNCHANGED digest
    BY <1>1, <1>12, <2>2 DEF ScoreSelected, RequestKept, Knows, Answer, Forget
  <2>4. Promise!Answer(r)
    BY <2>1, <2>2, <2>3, AnswerRefines
  <2> QED BY <1>2, <2>4 DEF Promise!RequestStep
<1>13. CASE Finish(r)
  <2>1. View(Idle) = Promise!Idle
    BY ItemsTell DEF View, Idle, Promise!Idle
  <2>2. /\ RequestsSeen' = [RequestsSeen EXCEPT ![r] = View(Idle)]
        /\ RequestsSeen[r] = View(request[r])
    BY <1>13, LocalsTyped, RequestSeen DEF Finish
  <2>3. RequestsSeen[r].at \in {"reply", "failed"}
    BY <1>13, <2>2 DEF Finish, View
  <2>4. DigestsSeen' = DigestsSeen
    BY <1>13 DEF Finish, DigestsSeen, Items
  <2>5. Promise!Finish(r)
    BY <2>1, <2>2, <2>3, <2>4 DEF Promise!Finish
  <2> QED BY <1>2, <2>5 DEF Promise!RequestStep
<1>14. CASE Refind(r)
  BY <1>1, <1>14, WorkingOn DEF Refind, Created, Locals
<1> QED BY <1>3, <1>4, <1>5, <1>6, <1>7, <1>8, <1>9, <1>10, <1>11, <1>12, <1>13, <1>14 DEF RequestStep

\* A request begins; the process restarts.
LEMMA ReceiveRefines ==
    ASSUME IInv, NEW r \in Requests, NEW d \in Days, Receive(r, d)
    PROVE  Promise!Receive(r, d)
<1> DEFINE local == [Idle EXCEPT !.at = "find", !.day = d]
<1>1. local \in Locals /\ request' = [request EXCEPT ![r] = local] /\ request[r].at = "idle"
  BY LocalsTyped DEF Receive, Idle
<1>2. View(local) = [Promise!Idle EXCEPT !.at = "working", !.day = d]
  <2>1. View(local) = [at |-> "working", day |-> d, reply |-> None]
    BY ItemsTell DEF View, Idle
  <2>2. \A at : [[at |-> "idle", day |-> None, reply |-> None] EXCEPT !.at = at]
               = [at |-> at, day |-> None, reply |-> None]
    OBVIOUS
  <2>3. \A at : [[at |-> at, day |-> None, reply |-> None] EXCEPT !.day = d]
               = [at |-> at, day |-> d, reply |-> None]
    OBVIOUS
  <2> QED BY <2>1, <2>2, <2>3 DEF Promise!Idle
<1> HIDE DEF local
<1>3. RequestsSeen' = [RequestsSeen EXCEPT ![r] = View(local)] /\ RequestsSeen[r].at = "idle"
  <2>1. View(request[r]).at = "idle"
    BY <1>1 DEF View
  <2> QED BY <1>1, <2>1, RequestSeen
<1>4. DigestsSeen' = DigestsSeen
  BY DEF Receive, DigestsSeen, Items
<1> QED BY <1>2, <1>3, <1>4 DEF Promise!Receive

\* A restart of the process is one of the store.
LEMMA CrashRefines == Crash => Promise!Crash
<1> SUFFICES ASSUME Crash PROVE Promise!Crash
  OBVIOUS
<1>1. View(Idle) = Promise!Idle
  BY ItemsTell DEF View, Idle, Promise!Idle
<1>2. \A r \in Requests : request'[r] = Idle
  BY DEF Crash
<1>3. RequestsSeen' = [r \in Requests |-> View(request'[r])]
  BY DEF RequestsSeen, View, Items
<1>4. RequestsSeen' = [r \in Requests |-> Promise!Idle]
  BY <1>1, <1>2, <1>3
<1>5. DigestsSeen' = DigestsSeen
  BY DEF Crash, DigestsSeen, Items
<1> QED BY <1>4, <1>5 DEF Promise!Crash

\* The endpoint implements the store: for a date one Digest is saved, it never
\* changes, and it or an empty one is the answer.
THEOREM DigestImplementsStore == Spec => ImplementsStore
<1>1. Init => Promise!Init
  <2> SUFFICES ASSUME Init PROVE Promise!Init
    OBVIOUS
  <2>1. View(Idle) = Promise!Idle
    BY ItemsTell DEF View, Idle, Promise!Idle
  <2>2. RequestsSeen = [r \in Requests |-> Promise!Idle]
    BY <2>1 DEF Init, RequestsSeen
  <2>3. DigestsSeen = [d \in Days |-> None]
    BY ItemsTell DEF Init, DigestsSeen
  <2> QED BY <2>2, <2>3 DEF Promise!Init
<1>2. IInv /\ [Next]_vars => [Promise!Next]_Promise!store
  <2> SUFFICES ASSUME IInv, [Next]_vars
               PROVE  Promise!Next \/ UNCHANGED Promise!store
    OBVIOUS
  <2>1. ASSUME UNCHANGED <<digest, request>> PROVE UNCHANGED Promise!store
    BY <2>1 DEF Promise!store, DigestsSeen, RequestsSeen, View, Items
  <2>2. CASE UNCHANGED vars
    BY <2>1, <2>2 DEF vars
  <2>3. CASE Tick
    BY <2>1, <2>3 DEF Tick
  <2>4. ASSUME NEW a \in Articles, StartEnriched(a) \/ CommitEnriched(a)
        PROVE  UNCHANGED Promise!store
    BY <2>1, <2>4 DEF StartEnriched, CommitEnriched
  <2>5. ASSUME NEW r \in Requests, NEW d \in Days, Receive(r, d) PROVE Promise!Next
    BY <2>5, ReceiveRefines DEF Promise!Next
  <2>6. CASE Crash
    BY <2>6, CrashRefines DEF Promise!Next
  <2> QED BY <2>2, <2>3, <2>4, <2>5, <2>6, RequestRefines DEF Next
<1> QED BY <1>1, <1>2, DigestInvariant, PTL DEF Spec, ImplementsStore, Promise!Spec

=============================================================================
