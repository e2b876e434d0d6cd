--------------------------- MODULE ServiceProofs ----------------------------
(***************************************************************************)
(* Proofs about three parts of the service that meet in no state: the      *)
(* preference profile with the workflow that syncs it, for any texts,      *)
(* executions and requests; the score sink, for any events, Shutdowns and  *)
(* queue; and the prompts cache, for any fetchers, versions, TTL and       *)
(* timeout.                                                                *)
(***************************************************************************)
EXTENDS PreferencesSync, ScoreSink, PromptCache, WellFoundedInduction, TLAPS

-----------------------------------------------------------------------------
(* The Preferences sync workflow *)

\* What a request holds is typed by where it is; only an answer says changed.
Held ==
    \A r \in Requests :
        /\ request[r].at = "insert" => request[r].text \in Texts
        /\ request[r].at = "commit" =>
              /\ request[r].row \in 1..Len(rows)
              /\ rows[request[r].row].content = request[r].text
        /\ request[r].at \in {"signals", "ok"} =>
              \E i \in Agregado!Committed : rows[i].content = request[r].text
        /\ request[r].changed => request[r].at = "ok"

\* An execution awaits a request only at its two HTTP nodes.
Awaits ==
    \A x \in Executions :
        /\ exec[x].request # None <=> exec[x].at \in {"storing", "regenerating"}
        /\ exec[x].at = "store" => exec[x].text \in Texts
        /\ exec[x].at = "write" => exec[x].text \in Texts

Quiet == \A r \in Requests : request[r].at = "idle"

\* A request that is alone inserts the last row.
Last(q) == request[q].at = "commit" => request[q].row = Len(rows)

\* What an undisturbed execution knows while it awaits its PUT ...
Storing(q) ==
    /\ request[q].at \in {"insert", "commit", "ok", "invalid", "failed"}
    /\ request[q].at \in {"insert", "commit", "ok"} => request[q].text = Normal[doc]
    /\ request[q].at = "ok" => Agregado!Newest = Normal[doc]

\* ... and its regeneration.
Regenerating(q) ==
    /\ request[q].at # "idle" /\ request[q].at # "invalid"
    /\ request[q].at \in {"current", "signals", "model", "insert", "commit"} =>
          Agregado!Newest = Normal[doc]
    /\ request[q].at \in {"signals", "ok"} => request[q].text = Agregado!Newest
    /\ request[q].at = "ok" /\ ~request[q].changed => Agregado!Newest = Normal[doc]

\* What an undisturbed execution knows at each node.
Undisturbed(x) ==
    /\ \A y \in Executions : y # x => exec[y].at \in Ended
    /\ exec[x].at \in {"storing", "regenerating"} =>
          /\ \A r \in Requests : r # exec[x].request => request[r].at = "idle"
          /\ Last(exec[x].request)
    /\ exec[x].at \in {"export", "store", "regenerate", "write", "notify", "synced"} => Quiet
    /\ exec[x].at = "store" => exec[x].text = doc
    /\ exec[x].at = "storing" => Storing(exec[x].request)
    /\ exec[x].at = "regenerating" => Regenerating(exec[x].request)
    /\ exec[x].at = "write" => exec[x].text = Agregado!Newest
    /\ exec[x].at \in {"regenerate", "notify", "synced"} => Normal[doc] = Agregado!Newest

Alone == \A x \in alone : alone = {x} /\ Undisturbed(x)

SyncInv == PreferencesAssumption /\ TypeOK /\ Held /\ Awaits /\ Alone


-----------------------------------------------------------------------------
(* The newest row *)

Rows == [content: Texts, source: Agregado!Sources, committed: BOOLEAN]

CommittedIn(rs) == {i \in DOMAIN rs : rs[i].committed}
NewestOf(rs) ==
    IF CommittedIn(rs) = {} THEN None
    ELSE rs[CHOOSE i \in CommittedIn(rs) : \A j \in CommittedIn(rs) : j <= i].content

\* Committed and Newest, before and after a step, are these of the rows.
LEMMA NewestOfRows ==
    /\ Agregado!Committed = CommittedIn(rows) /\ Agregado!Newest = NewestOf(rows)
    /\ Agregado!Committed' = CommittedIn(rows') /\ Agregado!Newest' = NewestOf(rows')
  BY DEF Agregado!Committed, Agregado!Newest, CommittedIn, NewestOf

\* A set that holds 0 and, with a number, its successor holds every number.
LEMMA Counting ==
    ASSUME NEW S, 0 \in S, \A n \in Nat : n \in S => n + 1 \in S
    PROVE  Nat \subseteq S
<1> DEFINE T == Nat \ S
<1>1. SUFFICES ASSUME T # {} PROVE FALSE
  OBVIOUS
<1>2. PICK m \in T : \A n \in T : ~ (<<n, m>> \in OpToRel(<, Nat))
  BY <1>1, NatLessThanWellFounded, WFMin
<1>3. m \in Nat /\ m # 0 /\ m - 1 \in Nat
  OBVIOUS
<1>4. <<m - 1, m>> \in OpToRel(<, Nat)
  BY <1>3 DEF OpToRel
<1>5. m - 1 \in S
  BY <1>2, <1>3, <1>4
<1>6. (m - 1) + 1 = m
  BY <1>3
<1> QED BY <1>3, <1>5, <1>6

\* Some id of a set of ids is the greatest.
LEMMA GreatestExists ==
    ASSUME NEW n \in Nat, NEW S \in SUBSET (1..n), S # {}
    PROVE  \E i \in S : \A j \in S : j <= i
<1> DEFINE Has(m) == \A R \in SUBSET (1..m) : R # {} => \E i \in R : \A j \in R : j <= i
<1>1. Has(0)
  <2>1. 1..0 = {}
    OBVIOUS
  <2> QED BY <2>1
<1>2. ASSUME NEW m \in Nat, Has(m) PROVE Has(m + 1)
  <2> SUFFICES ASSUME NEW R \in SUBSET (1..m + 1), R # {}
               PROVE  \E i \in R : \A j \in R : j <= i
    OBVIOUS
  <2>1. CASE m + 1 \in R
    BY <2>1
  <2>2. CASE m + 1 \notin R
    <3>1. R \in SUBSET (1..m)
      BY <2>2
    <3> QED BY <1>2, <3>1
  <2> QED BY <2>1, <2>2
<1>3. Has(n)
  <2> HIDE DEF Has
  <2> DEFINE All == {m \in Nat : Has(m)}
  <2>1. 0 \in All
    BY <1>1
  <2>2. \A m \in Nat : m \in All => m + 1 \in All
    BY <1>2
  <2> HIDE DEF All
  <2>3. n \in All
    BY <2>1, <2>2, Counting
  <2> QED BY <2>3 DEF All
<1> QED BY <1>3

\* The newest text is that of the committed row with the greatest id.
LEMMA NewestIs ==
    ASSUME NEW rs \in Seq(Rows), NEW i \in CommittedIn(rs), \A j \in CommittedIn(rs) : j <= i
    PROVE  NewestOf(rs) = rs[i].content
<1> DEFINE P(k) == \A j \in CommittedIn(rs) : j <= k
           c == CHOOSE k \in CommittedIn(rs) : P(k)
<1>1. CommittedIn(rs) \subseteq Nat
  BY DEF CommittedIn
<1>2. c \in CommittedIn(rs) /\ P(c)
  <2>1. P(i)
    OBVIOUS
  <2> HIDE DEF P
  <2> QED BY <2>1
<1>3. c <= i /\ i <= c /\ c \in Nat /\ i \in Nat
  BY <1>1, <1>2
<1>4. c = i
  BY <1>3
<1>5. NewestOf(rs) = rs[c].content
  BY DEF NewestOf
<1> QED BY <1>4, <1>5

\* Without a committed row there is no newest text; with one, a row has it.
LEMMA NewestHas ==
    ASSUME NEW rs \in Seq(Rows)
    PROVE  /\ CommittedIn(rs) = {} => NewestOf(rs) = None
           /\ CommittedIn(rs) # {} =>
                 \E i \in CommittedIn(rs) :
                     /\ \A j \in CommittedIn(rs) : j <= i
                     /\ NewestOf(rs) = rs[i].content
                     /\ NewestOf(rs) \in Texts
<1>1. CommittedIn(rs) = {} => NewestOf(rs) = None
  BY DEF NewestOf
<1>2. ASSUME CommittedIn(rs) # {}
      PROVE  \E i \in CommittedIn(rs) :
                     /\ \A j \in CommittedIn(rs) : j <= i
                     /\ NewestOf(rs) = rs[i].content
                     /\ NewestOf(rs) \in Texts
  <2>1. CommittedIn(rs) \in SUBSET (1..Len(rs)) /\ Len(rs) \in Nat
    BY DEF CommittedIn
  <2>2. PICK i \in CommittedIn(rs) : \A j \in CommittedIn(rs) : j <= i
    BY <1>2, <2>1, GreatestExists
  <2>3. NewestOf(rs) = rs[i].content
    BY <2>2, NewestIs
  <2>4. rs[i] \in Rows
    BY <2>1, <2>2
  <2>5. rs[i].content \in Texts
    BY <2>4 DEF Rows
  <2> QED BY <2>2, <2>3, <2>5
<1> QED BY <1>1, <1>2

\* The rows after the commit of row k.
WithCommit(rs, k) == [rs EXCEPT ![k].committed = TRUE]

\* What the commit of a row leaves.
LEMMA RowCommits ==
    ASSUME NEW rs \in Seq(Rows), NEW k \in 1..Len(rs)
    PROVE  /\ WithCommit(rs, k) \in Seq(Rows) /\ Len(WithCommit(rs, k)) = Len(rs)
           /\ DOMAIN WithCommit(rs, k) = 1..Len(rs)
           /\ WithCommit(rs, k)[k].committed
           /\ \A i \in 1..Len(rs) :
                 /\ WithCommit(rs, k)[i].content = rs[i].content
                 /\ rs[i].committed => WithCommit(rs, k)[i].committed
<1> DEFINE new == WithCommit(rs, k)
<1>1. /\ Len(rs) \in Nat /\ DOMAIN rs = 1..Len(rs) /\ rs[k] \in Rows
      /\ \A i \in 1..Len(rs) : rs[i] \in Rows
  OBVIOUS
<1>2. /\ new[k] = [rs[k] EXCEPT !.committed = TRUE] /\ DOMAIN new = 1..Len(rs)
      /\ \A i \in 1..Len(rs) : i # k => new[i] = rs[i]
      /\ new = [i \in 1..Len(rs) |-> new[i]]
  BY <1>1 DEF WithCommit
<1> HIDE DEF new
<1>3. new[k] \in Rows /\ new[k].committed /\ new[k].content = rs[k].content
  BY <1>1, <1>2 DEF Rows
<1>4. new \in [1..Len(rs) -> Rows]
  <2>1. new = [i \in 1..Len(rs) |-> new[i]]
    BY <1>2
  <2>2. \A i \in 1..Len(rs) : new[i] \in Rows
    BY <1>1, <1>2, <1>3
  <2> QED BY <2>1, <2>2
<1>5. new \in Seq(Rows) /\ Len(new) = Len(rs)
  BY <1>1, <1>4
<1> QED BY <1>2, <1>3, <1>5 DEF new

\* An uncommitted row changes nothing; the last row, once committed, is newest.
LEMMA NewestAfter ==
    ASSUME NEW rs \in Seq(Rows)
    PROVE  /\ \A row \in Rows : ~row.committed => NewestOf(Append(rs, row)) = NewestOf(rs)
           /\ rs # <<>> => NewestOf(WithCommit(rs, Len(rs))) = rs[Len(rs)].content
<1>1. ASSUME NEW row \in Rows, ~row.committed
      PROVE  NewestOf(Append(rs, row)) = NewestOf(rs)
  <2> DEFINE new == Append(rs, row)
  <2>1. /\ new \in Seq(Rows) /\ Len(new) = Len(rs) + 1 /\ new[Len(rs) + 1] = row
        /\ \A i \in 1..Len(rs) : new[i] = rs[i]
        /\ Len(rs) \in Nat /\ DOMAIN new = 1..Len(rs) + 1 /\ DOMAIN rs = 1..Len(rs)
    OBVIOUS
  <2> HIDE DEF new
  <2>2. CommittedIn(new) = CommittedIn(rs)
    BY <1>1, <2>1 DEF CommittedIn
  <2>3. CASE CommittedIn(rs) = {}
    BY <2>1, <2>2, <2>3, NewestHas DEF new
  <2>4. CASE CommittedIn(rs) # {}
    <3>1. PICK i \in CommittedIn(rs) :
             (\A j \in CommittedIn(rs) : j <= i) /\ NewestOf(rs) = rs[i].content
      BY <2>4, NewestHas
    <3>2. NewestOf(new) = new[i].content
      BY <2>1, <2>2, <3>1, NewestIs
    <3>3. new[i] = rs[i]
      BY <2>1, <3>1 DEF CommittedIn
    <3> QED BY <3>1, <3>2, <3>3 DEF new
  <2> QED BY <2>3, <2>4
<1>2. ASSUME rs # <<>>
      PROVE  NewestOf(WithCommit(rs, Len(rs))) = rs[Len(rs)].content
  <2> DEFINE n == Len(rs)
             new == WithCommit(rs, n)
  <2>1. n \in Nat /\ n \in 1..n
    BY <1>2
  <2>2. /\ new \in Seq(Rows) /\ DOMAIN new = 1..n
        /\ new[n].committed /\ new[n].content = rs[n].content
    BY <2>1, RowCommits
  <2> HIDE DEF new
  <2>3. n \in CommittedIn(new) /\ \A j \in CommittedIn(new) : j <= n
    BY <2>1, <2>2 DEF CommittedIn
  <2> QED BY <2>2, <2>3, NewestIs DEF new
<1> QED BY <1>1, <1>2


-----------------------------------------------------------------------------
(* The requests *)

Locals == [at: Agregado!Places, source: Agregado!Sources, text: Texts \union {None},
           row: 0..MaxRows, changed: BOOLEAN]

\* What Held says of one request.
HeldBy(rs, q) ==
    /\ q.at = "insert" => q.text \in Texts
    /\ q.at = "commit" => q.row \in 1..Len(rs) /\ rs[q.row].content = q.text
    /\ q.at \in {"signals", "ok"} => \E i \in CommittedIn(rs) : rs[i].content = q.text
    /\ q.changed => q.at = "ok"

Profile == Agregado!TypeOK /\ Held

\* The type and Held in terms of these.
LEMMA ProfileIs ==
    /\ Profile <=> /\ rows \in Seq(Rows) /\ Len(rows) <= MaxRows
                   /\ evidence \in BOOLEAN /\ request \in [Requests -> Locals]
                   /\ \A r \in Requests : HeldBy(rows, request[r])
    /\ Profile' <=> /\ rows' \in Seq(Rows) /\ Len(rows') <= MaxRows
                    /\ evidence' \in BOOLEAN /\ request' \in [Requests -> Locals]
                    /\ \A r \in Requests : HeldBy(rows', request'[r])
<1>1. /\ Agregado!TypeOK <=>
            /\ rows \in Seq(Rows) /\ Len(rows) <= MaxRows /\ evidence \in BOOLEAN
            /\ request \in [Requests -> Locals]
            /\ \A r \in Requests : request[r].at = "commit" => request[r].row \in DOMAIN rows
      /\ Agregado!TypeOK' <=>
            /\ rows' \in Seq(Rows) /\ Len(rows') <= MaxRows /\ evidence' \in BOOLEAN
            /\ request' \in [Requests -> Locals]
            /\ \A r \in Requests : request'[r].at = "commit" => request'[r].row \in DOMAIN rows'
  BY DEF Agregado!TypeOK, Rows, Locals
<1>2. /\ rows \in Seq(Rows) => DOMAIN rows = 1..Len(rows)
      /\ rows' \in Seq(Rows) => DOMAIN rows' = 1..Len(rows')
  OBVIOUS
<1>3. /\ Held <=> \A r \in Requests : HeldBy(rows, request[r])
      /\ Held' <=> \A r \in Requests : HeldBy(rows', request'[r])
  BY NewestOfRows DEF Held, HeldBy
<1>4. /\ \A r \in Requests : HeldBy(rows, request[r]) /\ request[r].at = "commit" =>
            request[r].row \in 1..Len(rows)
      /\ \A r \in Requests : HeldBy(rows', request'[r]) /\ request'[r].at = "commit" =>
            request'[r].row \in 1..Len(rows')
  BY DEF HeldBy
<1> QED BY <1>1, <1>2, <1>3, <1>4 DEF Profile

\* A row of a and its text are a row and its text in b.
Grows(a, b) ==
    /\ Len(a) <= Len(b)
    /\ \A i \in 1..Len(a) : /\ b[i].content = a[i].content
                            /\ a[i].committed => b[i].committed

\* What holds of a request's locals is not lost when the rows grow.
LEMMA HeldGrows ==
    ASSUME NEW a \in Seq(Rows), NEW b \in Seq(Rows), Grows(a, b), NEW q, HeldBy(a, q)
    PROVE  HeldBy(b, q)
<1>1. Len(a) \in Nat /\ Len(b) \in Nat /\ DOMAIN a = 1..Len(a) /\ DOMAIN b = 1..Len(b)
  OBVIOUS
<1>2. \A i \in CommittedIn(a) : i \in CommittedIn(b) /\ b[i].content = a[i].content
  BY <1>1 DEF Grows, CommittedIn
<1> QED BY <1>1, <1>2 DEF HeldBy, Grows

\* Only request r's locals change.
Only(r) ==
    /\ request' = [s \in Requests |-> request'[s]]
    /\ \A s \in Requests : s # r => request'[s] = request[s]

\* A step of one request: its locals and the rows.
LEMMA OneRequest ==
    ASSUME Profile, NEW r \in Requests, Only(r), request'[r] \in Locals,
           rows' \in Seq(Rows), Len(rows') <= MaxRows, Grows(rows, rows'),
           HeldBy(rows', request'[r]), evidence' \in BOOLEAN
    PROVE  Profile'
<1>1. /\ rows \in Seq(Rows) /\ request \in [Requests -> Locals]
      /\ \A s \in Requests : HeldBy(rows, request[s])
  BY ProfileIs
<1>2. \A s \in Requests : HeldBy(rows', request[s])
  BY <1>1, HeldGrows
<1>3. \A s \in Requests : request'[s] \in Locals /\ HeldBy(rows', request'[s])
  BY <1>1, <1>2 DEF Only
<1>4. request' \in [Requests -> Locals]
  BY <1>3 DEF Only
<1> QED BY <1>3, <1>4, ProfileIs

\* The same for a step that leaves the rows alone.
LEMMA OneRequestAlone ==
    ASSUME Profile, NEW r \in Requests, Only(r), request'[r] \in Locals,
           HeldBy(rows, request'[r]), UNCHANGED <<rows, evidence>>
    PROVE  Profile'
<1>1. rows \in Seq(Rows) /\ Len(rows) <= MaxRows /\ evidence \in BOOLEAN
  BY ProfileIs
<1>2. Len(rows) \in Nat
  BY <1>1
<1>3. Grows(rows, rows)
  BY <1>2 DEF Grows
<1> QED BY <1>1, <1>3, OneRequest

\* A request's locals, field by field.
Loc(a, s, t, n, c) == [at |-> a, source |-> s, text |-> t, row |-> n, changed |-> c]

\* The parts of the locals.
LEMMA LocParts ==
    ASSUME NEW q \in Locals
    PROVE  /\ q.at \in Agregado!Places /\ q.source \in Agregado!Sources
           /\ q.text \in Texts \union {None} /\ q.row \in 0..MaxRows
           /\ q.changed \in BOOLEAN
<1>1. q.changed \in BOOLEAN
  BY DEF Locals
<1> QED BY <1>1 DEF Locals

\* A request comes to rest or to an error.
Rests(r) ==
    /\ Only(r)
    /\ \E a \in {"idle", "invalid", "noprofile", "failed"} :
          request'[r] = Loc(a, "manual", None, 0, FALSE)

\* An answer without a profile, or the end of a request, holds nothing.
LEMMA RestStep ==
    ASSUME PreferencesAssumption, Profile, NEW r \in Requests, Rests(r),
           UNCHANGED <<rows, evidence>>
    PROVE  Profile'
<1>1. PICK a \in {"idle", "invalid", "noprofile", "failed"} :
         request'[r] = Loc(a, "manual", None, 0, FALSE)
  BY DEF Rests
<1>2. 0 \in 0..MaxRows
  BY DEF PreferencesAssumption
<1>3. request'[r] \in Locals
  <2>1. a \in Agregado!Places /\ "manual" \in Agregado!Sources
    BY DEF Agregado!Places, Agregado!Sources
  <2> QED BY <1>1, <1>2, <2>1 DEF Loc, Locals
<1>4. HeldBy(rows, request'[r])
  BY <1>1 DEF Loc, HeldBy
<1> QED BY <1>3, <1>4, OneRequestAlone DEF Rests


\* Answer and Finish leave a request at rest.
LEMMA AnswersRest ==
    ASSUME Profile, NEW r \in Requests
    PROVE  /\ \A a \in {"noprofile", "failed", "invalid"} : Agregado!Answer(r, a) =>
                Only(r) /\ request'[r] = Loc(a, "manual", None, 0, FALSE)
           /\ request' = [request EXCEPT ![r] = Agregado!Idle] =>
                Only(r) /\ request'[r] = Loc("idle", "manual", None, 0, FALSE)
<1>1. request \in [Requests -> Locals]
  BY ProfileIs
<1>2. ASSUME NEW a \in {"noprofile", "failed", "invalid"}, Agregado!Answer(r, a)
      PROVE  Only(r) /\ request'[r] = Loc(a, "manual", None, 0, FALSE)
  <2>1. request' = [request EXCEPT ![r] = [Agregado!Idle EXCEPT !.at = a]]
    BY <1>2 DEF Agregado!Answer
  <2>2. Only(r) /\ request'[r] = [Agregado!Idle EXCEPT !.at = a]
    BY <1>1, <2>1 DEF Only
  <2>3. request'[r] = Loc(a, "manual", None, 0, FALSE)
    BY <2>2 DEF Loc, Agregado!Idle
  <2> QED BY <2>2, <2>3
<1>3. ASSUME request' = [request EXCEPT ![r] = Agregado!Idle]
      PROVE  Only(r) /\ request'[r] = Loc("idle", "manual", None, 0, FALSE)
  <2>1. Only(r) /\ request'[r] = Agregado!Idle
    BY <1>1, <1>3 DEF Only
  <2> QED BY <2>1 DEF Loc, Agregado!Idle
<1> QED BY <1>2, <1>3

\* PUT: the validated text, or an error.
LEMMA PutStep ==
    ASSUME PreferencesAssumption, Profile, NEW r \in Requests, NEW t \in Texts,
           Agregado!Put(r, t)
    PROVE  /\ Profile' /\ Only(r)
           /\ \/ request'[r] = Loc("insert", "manual", Normal[t], 0, FALSE)
              \/ request'[r] = Loc("invalid", "manual", None, 0, FALSE)
<1>1. request \in [Requests -> Locals] /\ UNCHANGED <<rows, evidence>>
  BY ProfileIs DEF Agregado!Put
<1>2. CASE Agregado!Valid(t)
  <2>1. request' = [request EXCEPT ![r] =
                      [Agregado!Idle EXCEPT !.at = "insert", !.text = Normal[t]]]
    BY <1>2 DEF Agregado!Put
  <2>2. Only(r) /\ request'[r] = [Agregado!Idle EXCEPT !.at = "insert", !.text = Normal[t]]
    BY <1>1, <2>1 DEF Only
  <2>3. request'[r] = Loc("insert", "manual", Normal[t], 0, FALSE)
    BY <2>2 DEF Loc, Agregado!Idle
  <2>4. /\ Normal[t] \in Texts /\ 0 \in 0..MaxRows /\ "insert" \in Agregado!Places
        /\ "manual" \in Agregado!Sources
    BY DEF PreferencesAssumption, Agregado!Places, Agregado!Sources
  <2>5. request'[r] \in Locals
    BY <2>3, <2>4 DEF Loc, Locals
  <2>6. HeldBy(rows, request'[r])
    BY <2>3, <2>4 DEF Loc, HeldBy
  <2> QED BY <1>1, <2>2, <2>3, <2>5, <2>6, OneRequestAlone
<1>3. CASE ~Agregado!Valid(t)
  <2>1. Agregado!Answer(r, "invalid")
    BY <1>3 DEF Agregado!Put, Agregado!Answer
  <2>2. Only(r) /\ request'[r] = Loc("invalid", "manual", None, 0, FALSE)
    BY <2>1, AnswersRest
  <2> QED BY <1>1, <2>2, RestStep DEF Rests
<1> QED BY <1>2, <1>3

\* POST .../regenerate.
LEMMA RegenerateStep ==
    ASSUME PreferencesAssumption, Profile, NEW r \in Requests, Agregado!Regenerate(r)
    PROVE  /\ Profile' /\ Only(r)
           /\ request'[r] = Loc("current", "regenerated", None, 0, FALSE)
<1>1. request \in [Requests -> Locals] /\ UNCHANGED <<rows, evidence>>
  BY ProfileIs DEF Agregado!Regenerate
<1>2. Only(r) /\ request'[r] = [Agregado!Idle EXCEPT !.at = "current", !.source = "regenerated"]
  BY <1>1 DEF Only, Agregado!Regenerate
<1>3. request'[r] = Loc("current", "regenerated", None, 0, FALSE)
  BY <1>2 DEF Loc, Agregado!Idle
<1>4. /\ 0 \in 0..MaxRows /\ "current" \in Agregado!Places
      /\ "regenerated" \in Agregado!Sources
  BY DEF PreferencesAssumption, Agregado!Places, Agregado!Sources
<1>5. request'[r] \in Locals
  BY <1>3, <1>4 DEF Loc, Locals
<1>6. HeldBy(rows, request'[r])
  BY <1>3 DEF Loc, HeldBy
<1> QED BY <1>1, <1>2, <1>3, <1>5, <1>6, OneRequestAlone

\* What the steps of a request that leave the rows alone make of its locals q.
Reads(q, e) ==
    \/ q.at = "current" /\ e = Loc("noprofile", "manual", None, 0, FALSE)
    \/ /\ q.at = "current" /\ Agregado!Newest # None
       /\ e = Loc("signals", q.source, Agregado!Newest, q.row, q.changed)
    \/ /\ q.at = "signals"
       /\ e.at \in {"model", "ok"} /\ e = Loc(e.at, q.source, q.text, q.row, q.changed)
    \/ /\ q.at = "model"
       /\ \E t \in Texts : e = Loc("insert", q.source, Normal[t], q.row, q.changed)
    \/ e = Loc("failed", "manual", None, 0, FALSE)
    \/ /\ q.at = "insert" /\ q.text = Agregado!Newest
       /\ e = Loc("ok", q.source, q.text, q.row, q.changed)

\* The steps of a request that leave the rows alone and do not end it.
Reading(r) ==
    \/ Agregado!ReadCurrent(r) \/ Agregado!ReadSignals(r) \/ Agregado!Rewrite(r)
    \/ Agregado!Break(r) \/ (Agregado!Insert(r) /\ request[r].text = Agregado!Newest)

\* They do that.
LEMMA ReadsStep ==
    ASSUME Profile, NEW r \in Requests, Reading(r)
    PROVE  /\ Only(r) /\ UNCHANGED <<rows, evidence>>
           /\ Reads(request[r], request'[r])
           /\ request[r].at \in {"current", "signals", "model", "insert", "commit"}
<1>1. request \in [Requests -> Locals] /\ request[r] \in Locals
  BY ProfileIs
<1>2. ASSUME NEW a, Agregado!Goto(r, a)
      PROVE  /\ Only(r)
             /\ request'[r] = Loc(a, request[r].source, request[r].text,
                                  request[r].row, request[r].changed)
  <2>1. Only(r) /\ request'[r] = [request[r] EXCEPT !.at = a]
    BY <1>1, <1>2 DEF Only, Agregado!Goto
  <2> QED BY <1>1, <2>1 DEF Loc, Locals
<1>3. CASE Agregado!ReadCurrent(r)
  <2>1. CASE Agregado!Newest = None
    BY <1>3, <2>1, AnswersRest DEF Agregado!ReadCurrent, Reads
  <2>2. CASE Agregado!Newest # None
    <3>1. Only(r) /\ request'[r] = [request[r] EXCEPT !.at = "signals", !.text = Agregado!Newest]
      BY <1>1, <1>3, <2>2 DEF Only, Agregado!ReadCurrent
    <3>2. request'[r] = Loc("signals", request[r].source, Agregado!Newest,
                            request[r].row, request[r].changed)
      BY <1>1, <3>1 DEF Loc, Locals
    <3> QED BY <1>3, <2>2, <3>1, <3>2 DEF Agregado!ReadCurrent, Reads
  <2> QED BY <2>1, <2>2
<1>4. CASE Agregado!ReadSignals(r)
  <2>1. PICK a \in {"model", "ok"} : Agregado!Goto(r, a)
    BY <1>4 DEF Agregado!ReadSignals
  <2>2. Only(r) /\ request'[r] = Loc(a, request[r].source, request[r].text,
                                     request[r].row, request[r].changed)
    BY <1>2, <2>1
  <2>3. request'[r].at = a
    BY <2>2 DEF Loc
  <2> QED BY <1>4, <2>2, <2>3 DEF Agregado!ReadSignals, Reads
<1>5. CASE Agregado!Rewrite(r)
  <2>1. PICK t \in Texts :
           IF Agregado!Valid(t)
           THEN request' = [request EXCEPT ![r].at = "insert", ![r].text = Normal[t]]
           ELSE Agregado!Answer(r, "failed")
    BY <1>5 DEF Agregado!Rewrite
  <2>2. CASE Agregado!Valid(t)
    <3>1. Only(r) /\ request'[r] = [request[r] EXCEPT !.at = "insert", !.text = Normal[t]]
      BY <1>1, <2>1, <2>2 DEF Only
    <3>2. request'[r] = Loc("insert", request[r].source, Normal[t],
                            request[r].row, request[r].changed)
      BY <1>1, <3>1 DEF Loc, Locals
    <3> QED BY <1>5, <3>1, <3>2 DEF Agregado!Rewrite, Reads
  <2>3. CASE ~Agregado!Valid(t)
    BY <1>5, <2>1, <2>3, AnswersRest DEF Agregado!Rewrite, Reads
  <2> QED BY <2>2, <2>3
<1>6. CASE Agregado!Break(r)
  BY <1>6, AnswersRest DEF Agregado!Break, Agregado!Broken, Reads
<1>7. CASE Agregado!Insert(r) /\ request[r].text = Agregado!Newest
  BY <1>2, <1>7 DEF Agregado!Insert, Reads
<1> QED BY <1>3, <1>4, <1>5, <1>6, <1>7 DEF Reading

\* The newest text, where there is one, is that of a committed row.
LEMMA NewestCommitted ==
    ASSUME PreferencesAssumption, Profile
    PROVE  Agregado!Newest # None =>
              /\ Agregado!Newest \in Texts
              /\ \E i \in CommittedIn(rows) : rows[i].content = Agregado!Newest
<1>1. rows \in Seq(Rows)
  BY ProfileIs
<1> QED BY <1>1, NewestHas, NewestOfRows

\* A request that reads keeps what is known of it.
LEMMA ReadsProfile ==
    ASSUME PreferencesAssumption, Profile, NEW r \in Requests, Reading(r)
    PROVE  Profile'
<1> DEFINE q == request[r]
           e == request'[r]
<1>1. Only(r) /\ UNCHANGED <<rows, evidence>> /\ Reads(q, e)
  BY ReadsStep
<1>2. q \in Locals /\ HeldBy(rows, q)
  BY ProfileIs
<1>3. /\ q.at \in Agregado!Places /\ q.source \in Agregado!Sources
      /\ q.text \in Texts \union {None} /\ q.row \in 0..MaxRows
  BY <1>2, LocParts
<1>4. q.changed \in BOOLEAN
  BY <1>2, LocParts
<1>5. \A a \in Agregado!Places, t \in Texts \union {None} :
         Loc(a, q.source, t, q.row, q.changed) \in Locals
  BY <1>3, <1>4 DEF Loc, Locals
<1>6. {"signals", "model", "insert", "ok"} \subseteq Agregado!Places
  BY DEF Agregado!Places
<1> HIDE DEF q, e
<1>7. CASE \E a \in {"noprofile", "failed"} : e = Loc(a, "manual", None, 0, FALSE)
  BY <1>1, <1>7, RestStep DEF Rests, e
<1>8. CASE /\ q.at = "current" /\ Agregado!Newest # None
           /\ e = Loc("signals", q.source, Agregado!Newest, q.row, q.changed)
  <2>1. /\ Agregado!Newest \in Texts
        /\ \E i \in CommittedIn(rows) : rows[i].content = Agregado!Newest
    BY <1>8, NewestCommitted
  <2>2. e \in Locals
    BY <1>5, <1>6, <1>8, <2>1
  <2>3. HeldBy(rows, e)
    BY <1>2, <1>8, <2>1 DEF Loc, HeldBy
  <2> QED BY <1>1, <2>2, <2>3, OneRequestAlone DEF e
<1>9. CASE /\ q.at = "signals"
           /\ e.at \in {"model", "ok"} /\ e = Loc(e.at, q.source, q.text, q.row, q.changed)
  <2>1. e \in Locals
    BY <1>3, <1>5, <1>6, <1>9
  <2>2. HeldBy(rows, Loc(e.at, q.source, q.text, q.row, q.changed))
    BY <1>2, <1>9 DEF Loc, HeldBy
  <2>3. HeldBy(rows, e)
    BY <1>9, <2>2
  <2> QED BY <1>1, <2>1, <2>3, OneRequestAlone DEF e
<1>10. CASE /\ q.at = "model"
            /\ \E t \in Texts : e = Loc("insert", q.source, Normal[t], q.row, q.changed)
  <2>1. PICK t \in Texts : e = Loc("insert", q.source, Normal[t], q.row, q.changed)
    BY <1>10
  <2>2. Normal[t] \in Texts
    BY DEF PreferencesAssumption
  <2>3. e \in Locals
    BY <1>5, <1>6, <2>1, <2>2
  <2>4. HeldBy(rows, e)
    BY <1>2, <1>10, <2>1, <2>2 DEF Loc, HeldBy
  <2> QED BY <1>1, <2>3, <2>4, OneRequestAlone DEF e
<1>11. CASE /\ q.at = "insert" /\ q.text = Agregado!Newest
            /\ e = Loc("ok", q.source, q.text, q.row, q.changed)
  <2>1. q.text # None
    BY <1>2, <1>11 DEF HeldBy, PreferencesAssumption
  <2>2. \E i \in CommittedIn(rows) : rows[i].content = q.text
    BY <1>11, <2>1, NewestCommitted
  <2>3. e \in Locals
    BY <1>3, <1>5, <1>6, <1>11
  <2>4. HeldBy(rows, e)
    BY <1>2, <1>11, <2>2 DEF Loc, HeldBy
  <2> QED BY <1>1, <2>3, <2>4, OneRequestAlone DEF e
<1> QED BY <1>1, <1>7, <1>8, <1>9, <1>10, <1>11 DEF Reads

\* The INSERT of a new text: an uncommitted row at the end.
LEMMA InsertStep ==
    ASSUME PreferencesAssumption, Profile, NEW r \in Requests, Agregado!Insert(r),
           request[r].text # Agregado!Newest
    PROVE  /\ Profile' /\ Only(r) /\ UNCHANGED evidence
           /\ request[r].at = "insert"
           /\ request'[r] = Loc("commit", request[r].source, request[r].text,
                                Len(rows) + 1, request[r].changed)
           /\ Len(rows') = Len(rows) + 1
           /\ NewestOf(rows') = NewestOf(rows)
<1> DEFINE q == request[r]
           row == [content |-> q.text, source |-> q.source, committed |-> FALSE]
           n == Len(rows) + 1
<1>1. /\ rows \in Seq(Rows) /\ Len(rows) <= MaxRows /\ evidence \in BOOLEAN
      /\ request \in [Requests -> Locals] /\ q \in Locals /\ HeldBy(rows, q)
  BY ProfileIs
<1>2. /\ q.at = "insert" /\ Len(rows) < MaxRows /\ rows' = Append(rows, row)
      /\ request' = [request EXCEPT ![r].at = "commit", ![r].row = Len(rows) + 1]
      /\ UNCHANGED evidence
  BY DEF Agregado!Insert
<1>3. Only(r) /\ request'[r] = [q EXCEPT !.at = "commit", !.row = n]
  BY <1>1, <1>2 DEF Only
<1>4. request'[r] = Loc("commit", q.source, q.text, n, q.changed)
  BY <1>1, <1>3 DEF Loc, Locals
<1>5. /\ q.text \in Texts /\ q.source \in Agregado!Sources /\ ~q.changed
  BY <1>1, <1>2, LocParts DEF HeldBy
<1>6. row \in Rows /\ ~row.committed /\ row.content = q.text
  BY <1>5 DEF Rows
<1> HIDE DEF row
<1>7. /\ rows' \in Seq(Rows) /\ Len(rows') = n /\ rows'[n] = row /\ n \in 1..n
      /\ \A i \in 1..Len(rows) : rows'[i] = rows[i]
      /\ Len(rows) \in Nat /\ n \in 0..MaxRows /\ Len(rows') <= MaxRows
  BY <1>1, <1>2, <1>6 DEF PreferencesAssumption
<1>8. NewestOf(rows') = NewestOf(rows)
  BY <1>1, <1>2, <1>6, NewestAfter
<1> HIDE DEF n, q
<1>9. Grows(rows, rows')
  BY <1>7 DEF Grows, n
<1>10. request'[r] \in Locals
  <2>1. q.changed \in BOOLEAN
    BY <1>1, LocParts
  <2>2. "commit" \in Agregado!Places
    BY DEF Agregado!Places
  <2> QED BY <1>4, <1>5, <1>7, <2>1, <2>2 DEF Loc, Locals
<1>11. HeldBy(rows', request'[r])
  BY <1>4, <1>5, <1>6, <1>7 DEF Loc, HeldBy
<1>12. Profile'
  BY <1>1, <1>2, <1>3, <1>7, <1>9, <1>10, <1>11, OneRequest
<1> QED BY <1>2, <1>3, <1>4, <1>7, <1>8, <1>12 DEF q, n

\* The commit of the row, reported or not.
LEMMA CommitStep ==
    ASSUME PreferencesAssumption, Profile, NEW r \in Requests, Agregado!Commit(r)
    PROVE  /\ Profile' /\ Only(r) /\ UNCHANGED evidence
           /\ request[r].at = "commit"
           /\ rows' = WithCommit(rows, request[r].row)
           /\ \/ request'[r] = Loc("ok", request[r].source, request[r].text,
                                   request[r].row, TRUE)
              \/ request'[r] = Loc("failed", "manual", None, 0, FALSE)
<1> DEFINE q == request[r]
<1>1. /\ rows \in Seq(Rows) /\ Len(rows) <= MaxRows /\ evidence \in BOOLEAN
      /\ request \in [Requests -> Locals] /\ q \in Locals /\ HeldBy(rows, q)
  BY ProfileIs
<1>2. /\ q.at = "commit" /\ rows' = WithCommit(rows, q.row) /\ UNCHANGED evidence
  BY DEF Agregado!Commit, WithCommit
<1>3. q.row \in 1..Len(rows) /\ rows[q.row].content = q.text
  BY <1>1, <1>2 DEF HeldBy
<1>4. /\ rows' \in Seq(Rows) /\ Len(rows') = Len(rows) /\ DOMAIN rows' = 1..Len(rows)
      /\ rows'[q.row].committed
      /\ \A i \in 1..Len(rows) : /\ rows'[i].content = rows[i].content
                                 /\ rows[i].committed => rows'[i].committed
  BY <1>1, <1>2, <1>3, RowCommits
<1>5. Grows(rows, rows')
  <2>1. Len(rows) \in Nat
    BY <1>1
  <2> QED BY <1>4, <2>1 DEF Grows
<1>6. /\ q.source \in Agregado!Sources /\ q.text \in Texts \union {None}
      /\ q.row \in 0..MaxRows
  BY <1>1, LocParts
<1>7. CASE request' = [request EXCEPT ![r].at = "ok", ![r].changed = TRUE]
  <2>1. Only(r) /\ request'[r] = [q EXCEPT !.at = "ok", !.changed = TRUE]
    BY <1>1, <1>7 DEF Only
  <2>2. request'[r] = Loc("ok", q.source, q.text, q.row, TRUE)
    BY <1>1, <2>1 DEF Loc, Locals
  <2>3. q.row \in CommittedIn(rows') /\ rows'[q.row].content = q.text
    BY <1>3, <1>4 DEF CommittedIn
  <2> HIDE DEF q
  <2>4. request'[r] \in Locals
    <3>1. "ok" \in Agregado!Places
      BY DEF Agregado!Places
    <3> QED BY <1>6, <2>2, <3>1 DEF Loc, Locals
  <2>5. HeldBy(rows', request'[r])
    BY <2>2, <2>3 DEF Loc, HeldBy
  <2>6. Profile'
    BY <1>1, <1>2, <1>4, <1>5, <2>1, <2>4, <2>5, OneRequest
  <2> QED BY <1>2, <2>1, <2>2, <2>6 DEF q
<1>8. CASE Agregado!Answer(r, "failed")
  <2>1. Only(r) /\ request'[r] = Loc("failed", "manual", None, 0, FALSE)
    BY <1>8, AnswersRest
  <2>2. request'[r] \in Locals
    <3>1. "failed" \in Agregado!Places /\ "manual" \in Agregado!Sources /\ 0 \in 0..MaxRows
      BY DEF Agregado!Places, Agregado!Sources, PreferencesAssumption
    <3> QED BY <2>1, <3>1 DEF Loc, Locals
  <2>3. HeldBy(rows', request'[r])
    BY <2>1 DEF Loc, HeldBy
  <2>4. Profile'
    BY <1>1, <1>2, <1>4, <1>5, <2>1, <2>2, <2>3, OneRequest
  <2> QED BY <1>2, <2>1, <2>4
<1> QED BY <1>7, <1>8 DEF Agregado!Commit

\* The end of a request, and a restart of Agregado.
LEMMA EndStep ==
    ASSUME PreferencesAssumption, Profile
    PROVE  /\ \A r \in Requests : Agregado!Finish(r) =>
                /\ Profile' /\ Only(r) /\ UNCHANGED <<rows, evidence>>
                /\ request[r].at \in {"ok", "invalid", "noprofile", "failed"}
                /\ request'[r] = Loc("idle", "manual", None, 0, FALSE)
           /\ Agregado!Crash =>
                /\ Profile' /\ UNCHANGED <<rows, evidence>>
                /\ \A r \in Requests : request'[r] = Loc("idle", "manual", None, 0, FALSE)
<1>1. ASSUME NEW r \in Requests, Agregado!Finish(r)
      PROVE  /\ Profile' /\ Only(r) /\ UNCHANGED <<rows, evidence>>
             /\ request[r].at \in {"ok", "invalid", "noprofile", "failed"}
             /\ request'[r] = Loc("idle", "manual", None, 0, FALSE)
  <2>1. Only(r) /\ request'[r] = Loc("idle", "manual", None, 0, FALSE)
    BY <1>1, AnswersRest DEF Agregado!Finish
  <2> QED BY <1>1, <2>1, RestStep DEF Rests, Agregado!Finish
<1>2. ASSUME Agregado!Crash
      PROVE  /\ Profile' /\ UNCHANGED <<rows, evidence>>
             /\ \A r \in Requests : request'[r] = Loc("idle", "manual", None, 0, FALSE)
  <2>1. request' = [r \in Requests |-> Agregado!Idle] /\ UNCHANGED <<rows, evidence>>
    BY <1>2 DEF Agregado!Crash
  <2>2. Agregado!Idle = Loc("idle", "manual", None, 0, FALSE)
    BY DEF Agregado!Idle, Loc
  <2>3. Agregado!Idle \in Locals
    <3>1. "idle" \in Agregado!Places /\ "manual" \in Agregado!Sources /\ 0 \in 0..MaxRows
      BY DEF Agregado!Places, Agregado!Sources, PreferencesAssumption
    <3> QED BY <2>2, <3>1 DEF Loc, Locals
  <2>4. HeldBy(rows, Agregado!Idle)
    BY <2>2 DEF Loc, HeldBy
  <2>5. request' \in [Requests -> Locals] /\ \A r \in Requests : HeldBy(rows', request'[r])
    BY <2>1, <2>3, <2>4
  <2> QED BY <2>1, <2>2, <2>5, ProfileIs
<1> QED BY <1>1, <1>2

\* Every step of a request is one of these.
LEMMA RequestSteps ==
    ASSUME NEW r \in Requests, Agregado!RequestStep(r)
    PROVE  \/ Reading(r)
           \/ Agregado!Insert(r) /\ request[r].text # Agregado!Newest
           \/ Agregado!Commit(r) \/ Agregado!Finish(r)
  BY DEF Agregado!RequestStep, Reading

-----------------------------------------------------------------------------
(* The executions *)

Execs == [at: Nodes, request: Requests \union {None}, text: Texts \union {None}]

\* The invariant by its parts, before and after a step.
LEMMA Parts ==
    /\ SyncInv <=> /\ PreferencesAssumption /\ Profile /\ doc \in Texts
                /\ exec \in [Executions -> Execs] /\ alone \subseteq Executions
                /\ Awaits /\ Alone
    /\ SyncInv' <=> /\ PreferencesAssumption /\ Profile' /\ doc' \in Texts
                 /\ exec' \in [Executions -> Execs] /\ alone' \subseteq Executions
                 /\ Awaits' /\ Alone'
  BY DEF SyncInv, TypeOK, Profile, Execs, PreferencesAssumption

\* Nothing has run: no request, no row, no execution.
LEMMA SyncInitial == PreferencesAssumption /\ Init => SyncInv
<1> SUFFICES ASSUME PreferencesAssumption, Init PROVE SyncInv
  OBVIOUS
<1>1. /\ rows = <<>> /\ evidence = FALSE /\ request = [r \in Requests |-> Agregado!Idle]
      /\ doc \in Texts /\ exec = [x \in Executions |-> At("idle", None)] /\ alone = {}
  BY DEF Init, Agregado!Init
<1>2. Profile
  <2>1. Agregado!Idle = Loc("idle", "manual", None, 0, FALSE)
    BY DEF Agregado!Idle, Loc
  <2>2. Agregado!Idle \in Locals
    <3>1. "idle" \in Agregado!Places /\ "manual" \in Agregado!Sources /\ 0 \in 0..MaxRows
      BY DEF Agregado!Places, Agregado!Sources, PreferencesAssumption
    <3> QED BY <2>1, <3>1 DEF Loc, Locals
  <2>3. HeldBy(rows, Agregado!Idle)
    BY <2>1 DEF Loc, HeldBy
  <2>4. rows \in Seq(Rows) /\ Len(rows) <= MaxRows
    BY <1>1 DEF PreferencesAssumption
  <2>5. evidence \in BOOLEAN
    BY <1>1
  <2> QED BY <1>1, <2>2, <2>3, <2>4, <2>5, ProfileIs
<1>3. exec \in [Executions -> Execs] /\ Awaits
  BY <1>1 DEF Execs, Nodes, Ended, At, Awaits
<1>4. Alone
  BY <1>1 DEF Alone
<1> QED BY <1>1, <1>2, <1>3, <1>4, Parts

\* Execution x moves to a node, with a text or awaiting a request.
Moves(x, node, q, t) ==
    /\ exec' \in [Executions -> Execs]
    /\ exec'[x].at = node /\ exec'[x].request = q /\ exec'[x].text = t
    /\ \A y \in Executions : y # x => exec'[y] = exec[y]

\* GoTo, Await and the two assignments of a text do that.
LEMMA ExecMoves ==
    ASSUME exec \in [Executions -> Execs], NEW x \in Executions, NEW node \in Nodes
    PROVE  /\ GoTo(x, node) => Moves(x, node, None, None)
           /\ \A t \in Texts : exec' = [exec EXCEPT ![x] = At(node, t)] =>
                                   Moves(x, node, None, t)
           /\ \A r \in Requests : Await(x, r, node) => Moves(x, node, r, None)
<1>1. \A t \in Texts \union {None} : At(node, t) \in Execs
  BY DEF At, Execs
<1>2. \A r \in Requests : /\ [At(node, None) EXCEPT !.request = r] \in Execs
                          /\ [At(node, None) EXCEPT !.request = r].at = node
                          /\ [At(node, None) EXCEPT !.request = r].request = r
                          /\ [At(node, None) EXCEPT !.request = r].text = None
  BY DEF At, Execs
<1>3. ASSUME NEW e \in Execs, exec' = [exec EXCEPT ![x] = e]
      PROVE  /\ exec' \in [Executions -> Execs] /\ exec'[x] = e
             /\ \A y \in Executions : y # x => exec'[y] = exec[y]
  BY <1>3
<1>4. ASSUME NEW t \in Texts \union {None}, exec' = [exec EXCEPT ![x] = At(node, t)]
      PROVE  Moves(x, node, None, t)
  <2>1. /\ exec' \in [Executions -> Execs] /\ exec'[x] = At(node, t)
        /\ \A y \in Executions : y # x => exec'[y] = exec[y]
    BY <1>1, <1>3, <1>4
  <2> QED BY <2>1 DEF Moves, At
<1>5. ASSUME NEW r \in Requests, Await(x, r, node)
      PROVE  Moves(x, node, r, None)
  <2>1. exec' = [exec EXCEPT ![x] = [At(node, None) EXCEPT !.request = r]]
    BY <1>5 DEF Await
  <2>2. /\ exec' \in [Executions -> Execs]
        /\ exec'[x] = [At(node, None) EXCEPT !.request = r]
        /\ \A y \in Executions : y # x => exec'[y] = exec[y]
    BY <1>2, <1>3, <2>1
  <2> QED BY <1>2, <2>2 DEF Moves
<1> QED BY <1>4, <1>5 DEF GoTo

\* A move keeps what is known of who awaits what.
LEMMA MovesAwaits ==
    ASSUME PreferencesAssumption, Awaits, NEW x \in Executions, NEW node, NEW q, NEW t,
           Moves(x, node, q, t),
           q # None <=> node \in {"storing", "regenerating"},
           node \in {"store", "write"} => t \in Texts
    PROVE  Awaits'
  BY DEF Awaits, Moves

\* In an undisturbed run only that execution runs.
LEMMA OnlyRunner ==
    ASSUME Alone, NEW z \in alone, NEW x \in Executions, exec[x].at \notin Ended
    PROVE  x = z
  BY DEF Alone, Undisturbed

\* A move of an undisturbed execution to a node where it awaits nothing.
LEMMA UndisturbedMoves ==
    ASSUME SyncInv, NEW z \in alone, NEW node, NEW t, Moves(z, node, None, t),
           node \notin {"storing", "regenerating"},
           node \in {"export", "store", "regenerate", "write", "notify", "synced"} => Quiet',
           node = "store" => t = doc',
           node = "write" => t = Agregado!Newest',
           node \in {"regenerate", "notify", "synced"} => Normal[doc'] = Agregado!Newest'
    PROVE  Undisturbed(z)'
<1>1. \A y \in Executions : y # z => exec'[y].at \in Ended
  BY Parts DEF Alone, Undisturbed, Moves
<1> QED BY <1>1 DEF Undisturbed, Moves

\* Quiet and Newest are not changed by a step that leaves Agregado alone.
LEMMA Unchanged ==
    ASSUME UNCHANGED agregado, Profile
    PROVE  /\ Profile' /\ Agregado!Newest' = Agregado!Newest /\ (Quiet => Quiet')
           /\ UNCHANGED <<rows, evidence, request>>
<1>1. UNCHANGED <<rows, evidence, request>>
  BY DEF agregado
<1> QED BY <1>1, ProfileIs, NewestOfRows DEF Quiet

\* A step of one execution within Alone, given what it does to an undisturbed
\* one.
LEMMA StepAlone ==
    ASSUME SyncInv, NEW x \in Executions, exec[x].at \notin Ended, UNCHANGED alone,
           x \in alone => Undisturbed(x)'
    PROVE  Alone'
<1>1. \A z \in alone : x = z /\ alone = {z}
  BY OnlyRunner, Parts DEF Alone
<1> QED BY <1>1 DEF Alone

\* A restart of an execution: alone when nothing else runs.
LEMMA StartStep == ASSUME SyncInv, NEW x \in Executions, Start(x) PROVE SyncInv'
<1>0. /\ PreferencesAssumption /\ Profile /\ doc \in Texts
      /\ exec \in [Executions -> Execs] /\ alone \subseteq Executions
      /\ Awaits /\ Alone
  BY Parts
<1>1. UNCHANGED <<agregado, doc>> /\ exec[x].at \in Ended
  BY DEF Start
<1>2. Moves(x, "export", None, None)
  BY <1>0, ExecMoves DEF Start, Nodes
<1>3. Awaits'
  BY <1>0, <1>2, MovesAwaits
<1>4. Alone'
  <2>1. CASE Running = {} /\ \A r \in Requests : request[r].at = "idle"
    <3>1. alone' = {x} /\ Quiet'
      BY <1>0, <1>1, <2>1, Unchanged DEF Start, Quiet
    <3>2. \A y \in Executions : y # x => exec'[y].at \in Ended
      BY <1>2, <2>1 DEF Running, Moves
    <3>3. Undisturbed(x)'
      BY <1>2, <3>1, <3>2 DEF Undisturbed, Moves
    <3> QED BY <3>1, <3>3 DEF Alone
  <2>2. CASE ~(Running = {} /\ \A r \in Requests : request[r].at = "idle")
    BY <2>2 DEF Start, Alone
  <2> QED BY <2>1, <2>2
<1>5. alone' \subseteq Executions
  BY DEF Start
<1> QED BY <1>0, <1>1, <1>2, <1>3, <1>4, <1>5, Unchanged, Parts DEF Moves

\* Export Doc: the text to store is the Doc's.
LEMMA ExportStep == ASSUME SyncInv, NEW x \in Executions, Export(x) PROVE SyncInv'
<1>0. /\ PreferencesAssumption /\ Profile /\ doc \in Texts
      /\ exec \in [Executions -> Execs] /\ alone \subseteq Executions
      /\ Awaits /\ Alone
  BY Parts
<1>1. UNCHANGED <<agregado, doc, alone>> /\ exec[x].at = "export" /\ exec[x].at \notin Ended
  BY DEF Export, Ended
<1>2. /\ Profile' /\ Agregado!Newest' = Agregado!Newest /\ (Quiet => Quiet')
  BY <1>0, <1>1, Unchanged
<1>3. Moves(x, "store", None, doc) \/ Moves(x, "failed", None, None)
  BY <1>0, ExecMoves DEF Export, Nodes, Ended
<1>4. Awaits'
  BY <1>0, <1>3, MovesAwaits
<1>5. ASSUME x \in alone PROVE Undisturbed(x)'
  <2>1. Quiet
    BY <1>0, <1>1, <1>5 DEF Alone, Undisturbed
  <2> QED BY <1>1, <1>2, <1>3, <1>5, <2>1, UndisturbedMoves
<1> QED BY <1>0, <1>1, <1>2, <1>3, <1>4, <1>5, StepAlone, Parts DEF Moves

\* Store profile: a PUT of the exported text.
LEMMA StoreStep == ASSUME SyncInv, NEW x \in Executions, Store(x) PROVE SyncInv'
<1>0. /\ PreferencesAssumption /\ Profile /\ doc \in Texts
      /\ exec \in [Executions -> Execs] /\ alone \subseteq Executions
      /\ Awaits /\ Alone
  BY Parts
<1>1. UNCHANGED <<doc, alone>> /\ exec[x].at = "store" /\ exec[x].at \notin Ended
  BY DEF Store, Ended
<1>2. exec[x].text \in Texts
  BY <1>0, <1>1 DEF Awaits
<1>3. CASE GoTo(x, "failed") /\ UNCHANGED agregado
  <2>1. Moves(x, "failed", None, None)
    BY <1>0, <1>3, ExecMoves DEF Nodes, Ended
  <2>2. Profile'
    BY <1>0, <1>3, Unchanged
  <2>3. Awaits'
    BY <1>0, <2>1, MovesAwaits
  <2>4. x \in alone => Undisturbed(x)'
    BY <2>1, UndisturbedMoves
  <2> QED BY <1>0, <1>1, <2>1, <2>2, <2>3, <2>4, StepAlone, Parts DEF Moves
<1>4. CASE \E r \in Requests : Agregado!Put(r, exec[x].text) /\ Await(x, r, "storing")
  <2>1. PICK r \in Requests : Agregado!Put(r, exec[x].text) /\ Await(x, r, "storing")
    BY <1>4
  <2>2. Moves(x, "storing", r, None) /\ r # None
    BY <1>0, <2>1, ExecMoves DEF Nodes, PreferencesAssumption
  <2>3. /\ Profile' /\ Only(r)
        /\ \/ request'[r] = Loc("insert", "manual", Normal[exec[x].text], 0, FALSE)
           \/ request'[r] = Loc("invalid", "manual", None, 0, FALSE)
    BY <1>0, <1>2, <2>1, PutStep
  <2>4. Awaits'
    BY <1>0, <2>2, MovesAwaits
  <2>5. ASSUME x \in alone PROVE Undisturbed(x)'
    <3>1. /\ Quiet /\ exec[x].text = doc
          /\ \A y \in Executions : y # x => exec[y].at \in Ended
      BY <1>0, <1>1, <2>5 DEF Alone, Undisturbed
    <3>2. \A s \in Requests : s # r => request'[s].at = "idle"
      BY <2>3, <3>1 DEF Only, Quiet
    <3>3. Storing(r)' /\ Last(r)'
      BY <1>1, <2>3, <3>1 DEF Storing, Last, Loc
    <3>4. /\ exec'[x].at = "storing" /\ exec'[x].request = r
          /\ \A y \in Executions : y # x => exec'[y].at \in Ended
      BY <2>2, <3>1 DEF Moves
    <3> QED BY <3>2, <3>3, <3>4 DEF Undisturbed, Storing, Last
  <2> QED BY <1>0, <1>1, <2>2, <2>3, <2>4, <2>5, StepAlone, Parts DEF Moves
<1> QED BY <1>3, <1>4 DEF Store

\* When the request an undisturbed execution awaits has ended, none is left.
LEMMA QuietAfter ==
    ASSUME NEW q \in Requests, Only(q), request'[q] = Loc("idle", "manual", None, 0, FALSE),
           \A r \in Requests : r # q => request[r].at = "idle"
    PROVE  Quiet'
  BY DEF Only, Quiet, Loc

\* The answer to the PUT.
LEMMA StoredStep == ASSUME SyncInv, NEW x \in Executions, Stored(x) PROVE SyncInv'
<1>0. /\ PreferencesAssumption /\ Profile /\ doc \in Texts
      /\ exec \in [Executions -> Execs] /\ alone \subseteq Executions
      /\ Awaits /\ Alone
  BY Parts
<1> DEFINE q == exec[x].request
           node == AfterPut(request[q].at)
<1>1. /\ UNCHANGED <<doc, alone>> /\ exec[x].at = "storing" /\ exec[x].at \notin Ended
      /\ Agregado!Finish(q) /\ GoTo(x, node)
  BY DEF Stored, Ended
<1>2. q \in Requests
  BY <1>0, <1>1 DEF Awaits, Execs
<1>3. node \in {"regenerate", "failed"} /\ (node = "regenerate" => request[q].at = "ok")
  BY DEF AfterPut
<1> HIDE DEF node
<1>4. /\ Profile' /\ Only(q) /\ UNCHANGED <<rows, evidence>>
      /\ request'[q] = Loc("idle", "manual", None, 0, FALSE)
  BY <1>0, <1>1, <1>2, EndStep
<1>5. Moves(x, node, None, None)
  BY <1>0, <1>1, <1>3, ExecMoves DEF Nodes, Ended
<1>6. Awaits'
  BY <1>0, <1>3, <1>5, MovesAwaits
<1>7. ASSUME x \in alone PROVE Undisturbed(x)'
  <2>1. /\ \A r \in Requests : r # q => request[r].at = "idle"
        /\ Storing(q)
    BY <1>0, <1>1, <1>7 DEF Alone, Undisturbed
  <2>2. Quiet'
    BY <1>2, <1>4, <2>1, QuietAfter
  <2>3. node = "regenerate" => Normal[doc'] = Agregado!Newest'
    BY <1>1, <1>3, <1>4, <2>1, NewestOfRows DEF Storing
  <2> QED BY <1>3, <1>5, <1>7, <2>2, <2>3, UndisturbedMoves
<1> QED BY <1>0, <1>1, <1>4, <1>5, <1>6, <1>7, StepAlone, Parts DEF Moves

\* Regenerate.
LEMMA AskRegenerateStep == ASSUME SyncInv, NEW x \in Executions, AskRegenerate(x) PROVE SyncInv'
<1>0. /\ PreferencesAssumption /\ Profile /\ doc \in Texts
      /\ exec \in [Executions -> Execs] /\ alone \subseteq Executions
      /\ Awaits /\ Alone
  BY Parts
<1>1. UNCHANGED <<doc, alone>> /\ exec[x].at = "regenerate" /\ exec[x].at \notin Ended
  BY DEF AskRegenerate, Ended
<1>2. CASE GoTo(x, "failed") /\ UNCHANGED agregado
  <2>1. Moves(x, "failed", None, None)
    BY <1>0, <1>2, ExecMoves DEF Nodes, Ended
  <2>2. Profile'
    BY <1>0, <1>2, Unchanged
  <2>3. Awaits'
    BY <1>0, <2>1, MovesAwaits
  <2>4. x \in alone => Undisturbed(x)'
    BY <2>1, UndisturbedMoves
  <2> QED BY <1>0, <1>1, <2>1, <2>2, <2>3, <2>4, StepAlone, Parts DEF Moves
<1>3. CASE \E r \in Requests : Agregado!Regenerate(r) /\ Await(x, r, "regenerating")
  <2>1. PICK r \in Requests : Agregado!Regenerate(r) /\ Await(x, r, "regenerating")
    BY <1>3
  <2>2. Moves(x, "regenerating", r, None) /\ r # None
    BY <1>0, <2>1, ExecMoves DEF Nodes, PreferencesAssumption
  <2>3. /\ Profile' /\ Only(r) /\ UNCHANGED rows
        /\ request'[r] = Loc("current", "regenerated", None, 0, FALSE)
    BY <1>0, <2>1, RegenerateStep DEF Agregado!Regenerate
  <2>4. Awaits'
    BY <1>0, <2>2, MovesAwaits
  <2>5. ASSUME x \in alone PROVE Undisturbed(x)'
    <3>1. /\ Quiet /\ Normal[doc] = Agregado!Newest
          /\ \A y \in Executions : y # x => exec[y].at \in Ended
      BY <1>0, <1>1, <2>5 DEF Alone, Undisturbed
    <3>2. \A s \in Requests : s # r => request'[s].at = "idle"
      BY <2>3, <3>1 DEF Only, Quiet
    <3>3. Agregado!Newest' = Normal[doc]
      BY <2>3, <3>1, NewestOfRows
    <3>4. Regenerating(r)' /\ Last(r)'
      BY <1>1, <2>3, <3>3 DEF Regenerating, Last, Loc
    <3>5. /\ exec'[x].at = "regenerating" /\ exec'[x].request = r
          /\ \A y \in Executions : y # x => exec'[y].at \in Ended
      BY <2>2, <3>1 DEF Moves
    <3> QED BY <3>2, <3>4, <3>5 DEF Undisturbed, Regenerating, Last
  <2> QED BY <1>0, <1>1, <2>2, <2>3, <2>4, <2>5, StepAlone, Parts DEF Moves
<1> QED BY <1>2, <1>3 DEF AskRegenerate

\* The answer to the regeneration: the newest profile, written back if it is new.
LEMMA RegeneratedStep == ASSUME SyncInv, NEW x \in Executions, Regenerated(x) PROVE SyncInv'
<1>0. /\ PreferencesAssumption /\ Profile /\ doc \in Texts
      /\ exec \in [Executions -> Execs] /\ alone \subseteq Executions
      /\ Awaits /\ Alone
  BY Parts
<1> DEFINE q == exec[x].request
<1>1. /\ UNCHANGED <<doc, alone>> /\ exec[x].at = "regenerating" /\ exec[x].at \notin Ended
      /\ Agregado!Finish(q)
  BY DEF Regenerated, Ended
<1>2. q \in Requests
  BY <1>0, <1>1 DEF Awaits, Execs
<1>3. /\ Profile' /\ Only(q) /\ UNCHANGED <<rows, evidence>>
      /\ request'[q] = Loc("idle", "manual", None, 0, FALSE)
  BY <1>0, <1>1, <1>2, EndStep
<1>4. Agregado!Newest' = Agregado!Newest
  BY <1>3, NewestOfRows
<1>5. x \in alone => Quiet' /\ Regenerating(q)
  <2> SUFFICES ASSUME x \in alone PROVE Quiet' /\ Regenerating(q)
    OBVIOUS
  <2>1. /\ \A r \in Requests : r # q => request[r].at = "idle"
        /\ Regenerating(q)
    BY <1>0, <1>1 DEF Alone, Undisturbed
  <2> QED BY <1>2, <1>3, <2>1, QuietAfter
<1> DEFINE After == Awaits' /\ exec' \in [Executions -> Execs] /\ (x \in alone => Undisturbed(x)')
<1>6. ASSUME request[q].at = "ok", request[q].changed PROVE After
  <2>1. request[q].text \in Texts
    <3>1. HeldBy(rows, request[q]) /\ rows \in Seq(Rows)
      BY <1>0, <1>2, ProfileIs
    <3>2. PICK i \in CommittedIn(rows) : rows[i].content = request[q].text
      BY <1>6, <3>1 DEF HeldBy
    <3>3. rows[i] \in Rows
      BY <3>1 DEF CommittedIn
    <3> QED BY <3>2, <3>3 DEF Rows
  <2>2. Moves(x, "write", None, request[q].text)
    BY <1>0, <1>6, <2>1, ExecMoves DEF Regenerated, Nodes
  <2>3. Awaits'
    BY <1>0, <2>1, <2>2, MovesAwaits
  <2>4. ASSUME x \in alone PROVE Undisturbed(x)'
    <3>1. request[q].text = Agregado!Newest'
      BY <1>4, <1>5, <1>6, <2>4 DEF Regenerating
    <3> QED BY <1>5, <2>2, <2>4, <3>1, UndisturbedMoves
  <2> QED BY <2>2, <2>3, <2>4 DEF Moves
<1>7. ASSUME request[q].at = "ok", ~request[q].changed PROVE After
  <2>1. Moves(x, "synced", None, None)
    BY <1>0, <1>7, ExecMoves DEF Regenerated, Nodes, Ended
  <2>2. Awaits'
    BY <1>0, <2>1, MovesAwaits
  <2>3. ASSUME x \in alone PROVE Undisturbed(x)'
    <3>1. Normal[doc'] = Agregado!Newest'
      BY <1>1, <1>4, <1>5, <1>7, <2>3 DEF Regenerating
    <3> QED BY <1>5, <2>1, <2>3, <3>1, UndisturbedMoves
  <2> QED BY <2>1, <2>2, <2>3 DEF Moves
<1>8. ASSUME request[q].at # "ok" PROVE After
  <2>1. Moves(x, "failed", None, None)
    BY <1>0, <1>8, ExecMoves DEF Regenerated, Nodes, Ended
  <2>2. Awaits'
    BY <1>0, <2>1, MovesAwaits
  <2>3. x \in alone => Undisturbed(x)'
    BY <2>1, UndisturbedMoves
  <2> QED BY <2>1, <2>2, <2>3 DEF Moves
<1>9. After
  BY <1>6, <1>7, <1>8
<1>10. Alone'
  BY <1>1, <1>9, StepAlone
<1> QED BY <1>0, <1>1, <1>3, <1>9, <1>10, Parts

\* Write Doc: the newest profile, whatever is reported.
LEMMA WriteDocStep == ASSUME SyncInv, NEW x \in Executions, WriteDoc(x) PROVE SyncInv'
<1>0. /\ PreferencesAssumption /\ Profile /\ doc \in Texts
      /\ exec \in [Executions -> Execs] /\ alone \subseteq Executions
      /\ Awaits /\ Alone
  BY Parts
<1>1. UNCHANGED <<agregado, alone>> /\ exec[x].at = "write" /\ exec[x].at \notin Ended
  BY DEF WriteDoc, Ended
<1>2. Profile' /\ Agregado!Newest' = Agregado!Newest /\ (Quiet => Quiet')
  BY <1>0, <1>1, Unchanged
<1>3. \/ Moves(x, "notify", None, None) /\ doc' \in Texts /\ Normal[doc'] = exec[x].text
      \/ Moves(x, "failed", None, None) /\ doc' \in Texts
  <2>1. \/ GoTo(x, "notify") /\ doc' \in Texts /\ Normal[doc'] = exec[x].text
        \/ GoTo(x, "failed") /\ doc' \in Texts
    BY <1>0 DEF WriteDoc
  <2> QED BY <1>0, <2>1, ExecMoves DEF Nodes, Ended
<1>4. Awaits'
  BY <1>0, <1>3, MovesAwaits
<1>5. ASSUME x \in alone PROVE Undisturbed(x)'
  <2>1. Quiet' /\ exec[x].text = Agregado!Newest'
    BY <1>0, <1>1, <1>2, <1>5 DEF Alone, Undisturbed
  <2>2. CASE Moves(x, "notify", None, None) /\ Normal[doc'] = exec[x].text
    BY <1>5, <2>1, <2>2, UndisturbedMoves
  <2>3. CASE Moves(x, "failed", None, None)
    BY <1>5, <2>3, UndisturbedMoves
  <2> QED BY <1>3, <2>2, <2>3
<1> QED BY <1>0, <1>1, <1>2, <1>3, <1>4, <1>5, StepAlone, Parts DEF Moves

\* Notify change, and an HTTP timeout.
LEMMA NotifyStep ==
    ASSUME SyncInv, NEW x \in Executions, Notify(x) \/ TimeOut(x)
    PROVE  SyncInv'
<1>0. /\ PreferencesAssumption /\ Profile /\ doc \in Texts
      /\ exec \in [Executions -> Execs] /\ alone \subseteq Executions
      /\ Awaits /\ Alone
  BY Parts
<1>1. UNCHANGED <<agregado, doc, alone>> /\ exec[x].at \notin Ended
  BY DEF Notify, TimeOut, Ended
<1>2. Profile' /\ Agregado!Newest' = Agregado!Newest /\ (Quiet => Quiet')
  BY <1>0, <1>1, Unchanged
<1>3. \/ exec[x].at = "notify" /\ Moves(x, "synced", None, None)
      \/ Moves(x, "failed", None, None)
  BY <1>0, ExecMoves DEF Notify, TimeOut, Nodes, Ended
<1>4. Awaits'
  BY <1>0, <1>3, MovesAwaits
<1>5. ASSUME x \in alone PROVE Undisturbed(x)'
  <2>1. CASE exec[x].at = "notify" /\ Moves(x, "synced", None, None)
    <3>1. Quiet' /\ Normal[doc'] = Agregado!Newest'
      BY <1>0, <1>1, <1>2, <1>5, <2>1 DEF Alone, Undisturbed
    <3> QED BY <1>5, <2>1, <3>1, UndisturbedMoves
  <2>2. CASE Moves(x, "failed", None, None)
    BY <1>5, <2>2, UndisturbedMoves
  <2> QED BY <1>3, <2>1, <2>2
<1> QED BY <1>0, <1>1, <1>2, <1>3, <1>4, <1>5, StepAlone, Parts DEF Moves

-----------------------------------------------------------------------------
(* Agregado and the reader beside them *)

\* A step of the request an undisturbed execution awaits, other than its end.
LEMMA ServeAwaited ==
    ASSUME PreferencesAssumption, Profile, NEW q \in Requests, UNCHANGED doc, Last(q),
           \/ Reading(q)
           \/ Agregado!Insert(q) /\ request[q].text # Agregado!Newest
           \/ Agregado!Commit(q)
    PROVE  /\ Last(q)' /\ Only(q)
           /\ Storing(q) => Storing(q)'
           /\ Regenerating(q) => Regenerating(q)'
<1>1. CASE Reading(q)
  <2>1. /\ Only(q) /\ UNCHANGED rows /\ Reads(request[q], request'[q])
        /\ Agregado!Newest' = Agregado!Newest
        /\ request[q].at \in {"current", "signals", "model", "insert", "commit"}
    BY <1>1, ReadsStep, NewestOfRows
  <2>2. \/ request[q].at = "current" /\ request'[q].at = "noprofile"
        \/ /\ request[q].at = "current" /\ request'[q].at = "signals"
           /\ request'[q].text = Agregado!Newest
        \/ /\ request[q].at = "signals" /\ request'[q].at \in {"model", "ok"}
           /\ request'[q].text = request[q].text
        \/ request[q].at = "model" /\ request'[q].at = "insert"
        \/ request'[q].at = "failed"
        \/ /\ request[q].at = "insert" /\ request'[q].at = "ok"
           /\ request[q].text = Agregado!Newest /\ request'[q].text = request[q].text
    <3> DEFINE e == request'[q]
    <3>1. CASE request[q].at = "current" /\ e = Loc("noprofile", "manual", None, 0, FALSE)
      BY <3>1 DEF Loc
    <3>2. CASE /\ request[q].at = "current"
               /\ e = Loc("signals", request[q].source, Agregado!Newest, request[q].row,
                          request[q].changed)
      BY <3>2 DEF Loc
    <3>3. CASE /\ request[q].at = "signals" /\ e.at \in {"model", "ok"}
               /\ e = Loc(e.at, request[q].source, request[q].text, request[q].row,
                          request[q].changed)
      <4>1. Loc(e.at, request[q].source, request[q].text, request[q].row,
                request[q].changed).text = request[q].text
        BY DEF Loc
      <4> QED BY <3>3, <4>1
    <3>4. CASE /\ request[q].at = "model"
               /\ \E t \in Texts : e = Loc("insert", request[q].source, Normal[t],
                                           request[q].row, request[q].changed)
      BY <3>4 DEF Loc
    <3>5. CASE e = Loc("failed", "manual", None, 0, FALSE)
      BY <3>5 DEF Loc
    <3>6. CASE /\ request[q].at = "insert" /\ request[q].text = Agregado!Newest
               /\ e = Loc("ok", request[q].source, request[q].text, request[q].row,
                          request[q].changed)
      BY <3>6 DEF Loc
    <3> QED BY <2>1, <3>1, <3>2, <3>3, <3>4, <3>5, <3>6 DEF Reads
  <2>3. Last(q)'
    BY <2>2 DEF Last
  <2>4. Storing(q) => Storing(q)'
    BY <2>1, <2>2 DEF Storing
  <2>5. Regenerating(q) => Regenerating(q)'
    BY <2>1, <2>2 DEF Regenerating
  <2> QED BY <2>1, <2>3, <2>4, <2>5
<1>2. CASE Agregado!Insert(q) /\ request[q].text # Agregado!Newest
  <2>1. /\ Only(q) /\ request[q].at = "insert" /\ request'[q].at = "commit"
        /\ request'[q].text = request[q].text /\ request'[q].row = Len(rows')
        /\ Agregado!Newest' = Agregado!Newest
    <3>1. /\ Only(q) /\ request[q].at = "insert" /\ Len(rows') = Len(rows) + 1
          /\ request'[q] = Loc("commit", request[q].source, request[q].text,
                               Len(rows) + 1, request[q].changed)
          /\ Agregado!Newest' = Agregado!Newest
      BY <1>2, InsertStep, NewestOfRows
    <3>2. /\ request'[q].at = "commit" /\ request'[q].text = request[q].text
          /\ request'[q].row = Len(rows) + 1
      BY <3>1 DEF Loc
    <3> QED BY <3>1, <3>2
  <2> QED BY <2>1 DEF Last, Storing, Regenerating
<1>3. CASE Agregado!Commit(q)
  <2>1. /\ Only(q) /\ request[q].at = "commit" /\ rows' = WithCommit(rows, request[q].row)
        /\ \/ request'[q] = Loc("ok", request[q].source, request[q].text,
                                request[q].row, TRUE)
           \/ request'[q] = Loc("failed", "manual", None, 0, FALSE)
    BY <1>3, CommitStep
  <2>2. rows \in Seq(Rows) /\ HeldBy(rows, request[q]) /\ request[q].row = Len(rows)
    BY <2>1, ProfileIs DEF Last
  <2>3. rows # <<>> /\ rows[Len(rows)].content = request[q].text
    BY <2>1, <2>2 DEF HeldBy
  <2>4. Agregado!Newest' = request[q].text
    BY <2>1, <2>2, <2>3, NewestAfter, NewestOfRows
  <2>5. \/ /\ request'[q].at = "ok" /\ request'[q].text = request[q].text
           /\ request'[q].changed
        \/ request'[q].at = "failed"
    BY <2>1 DEF Loc
  <2> QED BY <2>1, <2>4, <2>5 DEF Last, Storing, Regenerating
<1> QED BY <1>1, <1>2, <1>3

\* A step of a request keeps what is known of it.
LEMMA RequestProfile ==
    ASSUME PreferencesAssumption, Profile, NEW r \in Requests, Agregado!RequestStep(r)
    PROVE  Profile' /\ Only(r) /\ request[r].at # "idle"
  BY RequestSteps, ReadsStep, ReadsProfile, InsertStep, CommitStep, EndStep

\* Agregado serves a request; an undisturbed execution's is the only one.
LEMMA ServeStep == ASSUME SyncInv, NEW r \in Requests, Serve(r) PROVE SyncInv'
<1>0. /\ PreferencesAssumption /\ Profile /\ doc \in Texts
      /\ exec \in [Executions -> Execs] /\ alone \subseteq Executions
      /\ Awaits /\ Alone
  BY Parts
<1>1. UNCHANGED <<doc, exec, alone>> /\ Agregado!RequestStep(r)
  BY DEF Serve
<1>2. Profile' /\ Only(r) /\ request[r].at # "idle"
  BY <1>0, <1>1, RequestProfile
<1>3. Awaits'
  BY <1>0, <1>1 DEF Awaits
<1>4. ASSUME NEW z \in alone PROVE alone' = {z} /\ Undisturbed(z)'
  <2>1. alone = {z} /\ Undisturbed(z)
    BY <1>0 DEF Alone
  <2>2. ~Quiet
    BY <1>2 DEF Quiet
  <2>3. \A y \in Executions : y # z => exec'[y].at \in Ended
    BY <1>1, <2>1 DEF Undisturbed
  <2>4. CASE exec[z].at \notin {"storing", "regenerating"}
    <3>1. exec[z].at \notin {"export", "store", "regenerate", "write", "notify", "synced"}
      BY <2>1, <2>2 DEF Undisturbed
    <3> QED BY <1>1, <2>1, <2>3, <2>4, <3>1 DEF Undisturbed
  <2>5. CASE exec[z].at \in {"storing", "regenerating"}
    <3> DEFINE q == exec[z].request
    <3>1. /\ \A s \in Requests : s # q => request[s].at = "idle"
          /\ Last(q)
          /\ exec[z].at = "storing" => Storing(q)
          /\ exec[z].at = "regenerating" => Regenerating(q)
      BY <2>1, <2>5 DEF Undisturbed
    <3>2. r = q /\ q \in Requests
      BY <1>2, <3>1
    <3>3. ~Agregado!Finish(q)
      <4>1. Awaited(q)
        BY <1>0 DEF Awaited
      <4> QED BY <3>2, <4>1 DEF Serve, Agregado!Finish
    <3>4. \/ Reading(q)
          \/ Agregado!Insert(q) /\ request[q].text # Agregado!Newest
          \/ Agregado!Commit(q)
      BY <1>1, <3>2, <3>3, RequestSteps
    <3>5. /\ Last(q)'
          /\ exec[z].at = "storing" => Storing(q)'
          /\ exec[z].at = "regenerating" => Regenerating(q)'
      BY <1>0, <1>1, <3>1, <3>2, <3>4, ServeAwaited
    <3>6. \A s \in Requests : s # q => request'[s].at = "idle"
      BY <1>2, <3>1, <3>2 DEF Only
    <3>7. exec'[z] = exec[z]
      BY <1>1
    <3> QED BY <1>1, <2>1, <2>3, <2>5, <3>5, <3>6, <3>7
            DEF Undisturbed, Last, Storing, Regenerating
  <2> QED BY <1>1, <2>1, <2>4, <2>5
<1>5. Alone'
  BY <1>1, <1>4 DEF Alone
<1> QED BY <1>0, <1>1, <1>2, <1>3, <1>5, Parts

\* Agregado restarts: its requests are gone and who awaited one has failed.
LEMMA CrashStep == ASSUME SyncInv, Crash PROVE SyncInv'
<1>0. /\ PreferencesAssumption /\ Profile /\ doc \in Texts
      /\ exec \in [Executions -> Execs] /\ alone \subseteq Executions
      /\ Awaits /\ Alone
  BY Parts
<1>1. /\ UNCHANGED <<doc, alone>> /\ Agregado!Crash
      /\ exec' = [x \in Executions |-> IF exec[x].request # None
                                       THEN At("failed", None) ELSE exec[x]]
  BY DEF Crash
<1>2. /\ Profile' /\ Quiet' /\ Agregado!Newest' = Agregado!Newest
  BY <1>0, <1>1, EndStep, NewestOfRows DEF Quiet, Loc
<1>3. At("failed", None) \in Execs
  BY DEF At, Execs, Nodes, Ended
<1>4. exec' \in [Executions -> Execs]
  BY <1>0, <1>1, <1>3
<1>5. \A x \in Executions :
         \/ exec[x].at \notin {"storing", "regenerating"} /\ exec'[x] = exec[x]
         \/ exec'[x].at = "failed" /\ exec'[x].request = None
  BY <1>0, <1>1 DEF Awaits, At
<1>6. Awaits'
  BY <1>0, <1>5 DEF Awaits
<1>7. ASSUME NEW z \in alone PROVE alone' = {z} /\ Undisturbed(z)'
  <2>1. alone = {z} /\ Undisturbed(z) /\ z \in Executions
    BY <1>0 DEF Alone
  <2>2. \A y \in Executions : y # z => exec'[y].at \in Ended
    BY <1>5, <2>1 DEF Undisturbed, Ended
  <2> QED BY <1>1, <1>2, <1>5, <2>1, <2>2 DEF Undisturbed
<1>8. Alone'
  BY <1>1, <1>7 DEF Alone
<1> QED BY <1>0, <1>1, <1>2, <1>4, <1>6, <1>8, Parts

\* The reader: an edit disturbs every run, a vote none.
LEMMA ReaderStep == ASSUME SyncInv, EditDoc \/ Vote \/ UNCHANGED vars PROVE SyncInv'
<1>0. /\ PreferencesAssumption /\ Profile /\ doc \in Texts
      /\ exec \in [Executions -> Execs] /\ alone \subseteq Executions
      /\ Awaits /\ Alone
  BY Parts
<1>1. CASE EditDoc
  <2>1. UNCHANGED <<agregado, exec>> /\ doc' \in Texts /\ alone' = {}
    BY <1>1 DEF EditDoc
  <2> QED BY <1>0, <2>1, Unchanged, Parts DEF Awaits, Alone
<1>2. CASE Vote \/ UNCHANGED vars
  <2>1. /\ UNCHANGED <<doc, exec, alone, rows, request>>
        /\ evidence' = evidence \/ evidence' = TRUE
    BY <1>2 DEF Vote, Agregado!Vote, vars, agregado
  <2>2. evidence' \in BOOLEAN
    BY <1>0, <2>1, ProfileIs
  <2>3. Profile' /\ Agregado!Newest' = Agregado!Newest
    BY <1>0, <2>1, <2>2, ProfileIs, NewestOfRows
  <2>4. Awaits'
    BY <1>0, <2>1 DEF Awaits
  <2>5. ASSUME NEW z \in alone PROVE alone' = {z} /\ Undisturbed(z)'
    <3>1. alone = {z} /\ Undisturbed(z)
      BY <1>0 DEF Alone
    <3> QED BY <2>1, <2>3, <3>1 DEF Undisturbed, Quiet, Last, Storing, Regenerating
  <2>6. Alone'
    BY <2>1, <2>5 DEF Alone
  <2> QED BY <1>0, <2>1, <2>3, <2>4, <2>6, Parts
<1> QED BY <1>1, <1>2

\* The invariant is inductive.
LEMMA SyncStep == SyncInv /\ [Next]_vars => SyncInv'
<1> SUFFICES ASSUME SyncInv, [Next]_vars PROVE SyncInv'
  OBVIOUS
<1>1. ASSUME NEW x \in Executions, Start(x) \/ ExecutionStep(x) PROVE SyncInv'
  BY <1>1, StartStep, ExportStep, StoreStep, StoredStep, AskRegenerateStep, RegeneratedStep,
     WriteDocStep, NotifyStep DEF ExecutionStep
<1>2. ASSUME NEW r \in Requests, Serve(r) PROVE SyncInv'
  BY <1>2, ServeStep
<1>3. CASE Crash
  BY <1>3, CrashStep
<1>4. CASE EditDoc \/ Vote \/ UNCHANGED vars
  BY <1>4, ReaderStep
<1> QED BY <1>1, <1>2, <1>3, <1>4 DEF Next

\* Every state of every behaviour satisfies the invariant.
THEOREM SyncInvariant == Spec => []SyncInv
<1>0. PreferencesAssumption
  BY PreferencesAssumption DEF PreferencesAssumption
<1> QED BY <1>0, SyncInitial, SyncStep, PTL DEF Spec

\* The profile of a 200 was accepted.
THEOREM SyncAccepted == Spec => []AnswerAccepted
<1>1. SyncInv => AnswerAccepted
  BY DEF SyncInv, Held, AnswerAccepted, Agregado!AnswerAccepted
<1> QED BY <1>1, SyncInvariant, PTL

\* A run that nothing interfered with leaves the Doc and the profile equal.
THEOREM SyncConverged == Spec => []SyncConverges
<1>1. SyncInv => SyncConverges
  BY DEF SyncInv, Alone, Undisturbed, SyncConverges
<1> QED BY <1>1, SyncInvariant, PTL

-----------------------------------------------------------------------------
(* The score sink *)

\* What holding Scores.mu gives: a writer is alone, so an Emit between its
\* check and its send still finds the channel open.
Locked ==
    /\ \A s \in Closers : closer[s] = "locked" =>
          Readers = {} /\ \A t \in Closers : closer[t] = "locked" => t = s
    /\ \A e \in Events : emitter[e] = "checked" => ~closed
    /\ closed = shut
    /\ NoPanic

\* An event has no verdict before its Emit has returned, an accepted one is
\* in the line until it is settled, and only returned ones are there.
Lined ==
    /\ \A e \in Events : emitter[e] # "returned" => fate[e] = "new"
    /\ \A e \in Events : fate[e] = "accepted" =>
          \/ worker = "post" /\ current = e
          \/ \E i \in 1..Len(queue) : queue[i] = e
    /\ \A i \in 1..Len(queue) : emitter[queue[i]] = "returned"
    /\ worker = "post" => current \in Events /\ emitter[current] = "returned"

\* Why the worker stopped, and who cancelled it.
Stopped ==
    /\ worker = "done" => queue = <<>> /\ shut
    /\ cancelled => worker = "done" \/ \E s \in Closers : closer[s] = "error"
    /\ unposted # {} => \E s \in Closers : closer[s] = "error"
    /\ \A s \in Closers : closer[s] = "nil" => worker = "done"

SinkInv == SinkTypeOK /\ Locked /\ Lined /\ Stopped

-----------------------------------------------------------------------------

\* The initial states satisfy the invariant.
LEMMA SinkInitial == SinkInit => SinkInv
<1> SUFFICES ASSUME SinkInit PROVE SinkInv
  OBVIOUS
<1>1. SinkTypeOK
  <2>1. queue \in Seq(Events) /\ Len(queue) = 0
    BY DEF SinkInit
  <2>2. QueueSize \in Nat
    BY ScoreSinkAssumption
  <2>3. Len(queue) <= QueueSize
    BY <2>1, <2>2
  <2> QED BY <2>1, <2>3 DEF SinkInit, SinkTypeOK, Fates
<1>2. Locked
  BY DEF SinkInit, Locked, Readers, NoPanic
<1>3. Lined /\ Stopped
  BY DEF SinkInit, Lined, Stopped
<1> QED BY <1>1, <1>2, <1>3 DEF SinkInv

\* A queue element of the tail or of the appended sequence, and where it is.
LEMMA TailAppend ==
    ASSUME NEW S, NEW q \in Seq(S)
    PROVE  /\ \A e \in S :
                /\ Append(q, e) \in Seq(S)
                /\ Len(Append(q, e)) = Len(q) + 1
                /\ Append(q, e)[Len(q) + 1] = e
                /\ \A i \in 1..Len(q) : Append(q, e)[i] = q[i]
           /\ q # <<>> =>
                /\ Head(q) \in S
                /\ Head(q) = q[1]
                /\ Tail(q) \in Seq(S)
                /\ Len(Tail(q)) = Len(q) - 1
                /\ \A i \in 1..Len(q) : i = 1 \/ Tail(q)[i - 1] = q[i]
  OBVIOUS

\* Emit takes the read lock only when no Shutdown has it or waits for it.
LEMMA LockStep ==
    ASSUME SinkInv, NEW e \in Events, Lock(e)
    PROVE  SinkInv'
<1>1. SinkTypeOK'
  BY DEF SinkInv, SinkTypeOK, Lock
<1>2. Locked'
  BY DEF SinkInv, SinkTypeOK, Locked, Lock, Readers, NoPanic
<1>3. Lined' /\ Stopped'
  BY DEF SinkInv, SinkTypeOK, Lined, Stopped, Lock
<1> QED BY <1>1, <1>2, <1>3 DEF SinkInv

\* The check of closed, under the read lock.
LEMMA CheckStep ==
    ASSUME SinkInv, NEW e \in Events, Check(e)
    PROVE  SinkInv'
<1>1. SinkTypeOK'
  BY DEF SinkInv, SinkTypeOK, Check, Return, Fates
<1>2. Locked'
  BY DEF SinkInv, SinkTypeOK, Locked, Check, Return, Readers, NoPanic
<1>3. Lined' /\ Stopped'
  BY DEF SinkInv, SinkTypeOK, Lined, Stopped, Check, Return
<1> QED BY <1>1, <1>2, <1>3 DEF SinkInv

\* The send finds the channel open, so it cannot panic; the worker cannot
\* have stopped.
LEMMA SendStep ==
    ASSUME SinkInv, NEW e \in Events, Send(e)
    PROVE  SinkInv'
<1>1. ~shut /\ worker # "done"
  BY DEF SinkInv, Locked, Stopped, Send
<1>2. /\ queue' = IF Room THEN Append(queue, e) ELSE queue
      /\ fate' = [fate EXCEPT ![e] = Verdict]
      /\ UNCHANGED panicked
  BY <1>1 DEF Send
<1>3. queue \in Seq(Events) /\ Len(queue) \in Nat /\ QueueSize \in Nat
  BY ScoreSinkAssumption DEF SinkInv, SinkTypeOK
<1>4. SinkTypeOK'
  <2>1. queue' \in Seq(Events) /\ Len(queue') <= QueueSize
    BY <1>2, <1>3, TailAppend DEF SinkInv, SinkTypeOK, Room
  <2>2. fate' \in [Events -> Fates]
    BY <1>2 DEF SinkInv, SinkTypeOK, Verdict, Fates
  <2> QED BY <1>2, <2>1, <2>2 DEF SinkInv, SinkTypeOK, Send, Return
<1>5. Locked'
  BY <1>2 DEF SinkInv, SinkTypeOK, Locked, Send, Return, Readers, NoPanic
<1>6. Lined'
  <2>1. ASSUME NEW d \in Events, fate'[d] = "accepted"
        PROVE  \/ worker = "post" /\ current = d
               \/ \E i \in 1..Len(queue') : queue'[i] = d
    <3>1. CASE d = e
      <4>1. Room /\ queue' = Append(queue, e)
        BY <1>2, <2>1, <3>1 DEF SinkInv, SinkTypeOK, Verdict
      <4> QED BY <1>3, <3>1, <4>1, TailAppend
    <3>2. CASE d # e
      <4>1. \/ worker = "post" /\ current = d
            \/ \E i \in 1..Len(queue) : queue[i] = d
        BY <1>2, <2>1, <3>2 DEF SinkInv, SinkTypeOK, Lined
      <4> QED BY <1>2, <1>3, <4>1, TailAppend
    <3> QED BY <3>1, <3>2
  <2>2. \A d \in Events : emitter'[d] # "returned" => fate'[d] = "new"
    BY <1>2 DEF SinkInv, SinkTypeOK, Lined, Send, Return
  <2>3. \A d \in Events : emitter[d] = "returned" \/ d = e => emitter'[d] = "returned"
    BY DEF SinkInv, SinkTypeOK, Send, Return
  <2>4. \A i \in 1..Len(queue') :
           queue'[i] \in Events /\ (queue'[i] = e \/ emitter[queue'[i]] = "returned")
    BY <1>2, <1>3, TailAppend DEF SinkInv, Lined
  <2> QED BY <2>1, <2>2, <2>3, <2>4 DEF SinkInv, Lined, Send
<1>7. Stopped'
  BY <1>1 DEF SinkInv, Stopped, Send
<1> QED BY <1>4, <1>5, <1>6, <1>7 DEF SinkInv

\* Shutdown's caller arrives, waits for the lock and takes it.
LEMMA AcquireStep ==
    ASSUME SinkInv, NEW s \in Closers, Shutdown(s) \/ Acquire(s)
    PROVE  SinkInv'
<1>1. SinkTypeOK'
  BY DEF SinkInv, SinkTypeOK, Shutdown, Acquire
<1>2. Locked'
  BY DEF SinkInv, SinkTypeOK, Locked, Shutdown, Acquire, LockFree, Readers, NoPanic
<1>3. Lined' /\ Stopped'
  BY DEF SinkInv, SinkTypeOK, Lined, Stopped, Shutdown, Acquire
<1> QED BY <1>1, <1>2, <1>3 DEF SinkInv

\* Only the first Shutdown closes the channel, and no Emit is about to send.
LEMMA CloseStep ==
    ASSUME SinkInv, NEW s \in Closers, Close(s)
    PROVE  SinkInv'
<1>1. SinkTypeOK'
  BY DEF SinkInv, SinkTypeOK, Close
<1>2. Locked'
  BY DEF SinkInv, SinkTypeOK, Locked, Close, Readers, NoPanic
<1>3. Lined' /\ Stopped'
  BY DEF SinkInv, SinkTypeOK, Lined, Stopped, Close
<1> QED BY <1>1, <1>2, <1>3 DEF SinkInv

\* Shutdown returns nil when the worker has stopped, else it cancels.
LEMMA WaitStep ==
    ASSUME SinkInv, NEW s \in Closers, Wait(s)
    PROVE  SinkInv'
<1>1. SinkTypeOK'
  BY DEF SinkInv, SinkTypeOK, Wait
<1>2. Locked'
  BY DEF SinkInv, SinkTypeOK, Locked, Wait, Readers, NoPanic
<1>3. Lined'
  BY DEF SinkInv, SinkTypeOK, Lined, Wait
<1>4. Stopped'
  BY DEF SinkInv, SinkTypeOK, Stopped, Wait, Done
<1> QED BY <1>1, <1>2, <1>3, <1>4 DEF SinkInv

\* The worker takes the oldest event, to post it or, when a Shutdown has
\* given up, to drain it; or it finds the channel closed and empty.
LEMMA ReceiveStep ==
    ASSUME SinkInv, Receive
    PROVE  SinkInv'
<1>1. queue \in Seq(Events) /\ Len(queue) \in Nat /\ QueueSize \in Nat
  BY ScoreSinkAssumption DEF SinkInv, SinkTypeOK
<1>2. CASE queue # <<>>
  <2>1. /\ queue' = Tail(queue)
        /\ IF cancelled
           THEN /\ fate' = [fate EXCEPT ![Head(queue)] = "settled"]
                /\ unposted' = unposted \union {Head(queue)}
                /\ UNCHANGED <<worker, current>>
           ELSE /\ current' = Head(queue)
                /\ worker' = "post"
                /\ UNCHANGED <<fate, unposted>>
        /\ UNCHANGED <<emitter, closer, closed, shut, panicked, cancelled>>
    BY <1>2 DEF Receive, Settle
  <2>2. Head(queue) \in Events
    BY <1>1, <1>2
  <2>3. SinkTypeOK'
    <3>1. queue' \in Seq(Events) /\ Len(queue') <= QueueSize
      BY <1>1, <1>2, <2>1, TailAppend DEF SinkInv, SinkTypeOK
    <3> QED BY <2>1, <2>2, <3>1 DEF SinkInv, SinkTypeOK, Fates
  <2>4. Locked'
    BY <2>1 DEF SinkInv, Locked, Readers, NoPanic
  <2>5. Lined'
    <3>1. ASSUME NEW d \in Events, fate'[d] = "accepted"
          PROVE  \/ worker' = "post" /\ current' = d
                 \/ \E i \in 1..Len(queue') : queue'[i] = d
      <4>1. PICK i \in 1..Len(queue) : queue[i] = d
        BY <2>1, <2>2, <3>1 DEF SinkInv, SinkTypeOK, Lined, Receive
      <4>2. CASE i = 1
        BY <1>1, <1>2, <2>1, <2>2, <3>1, <4>1, <4>2, TailAppend DEF SinkInv, SinkTypeOK
      <4>3. CASE i # 1
        BY <1>1, <1>2, <2>1, <4>1, <4>3, TailAppend
      <4> QED BY <4>2, <4>3
    <3>2. emitter[Head(queue)] = "returned"
      BY <1>1, <1>2, TailAppend DEF SinkInv, Lined
    <3>3. \A d \in Events : emitter'[d] # "returned" => fate'[d] = "new"
      BY <2>1, <2>2, <3>2 DEF SinkInv, SinkTypeOK, Lined
    <3>4. \A i \in 1..Len(queue') : emitter[queue'[i]] = "returned"
      <4>1. \A i \in 1..Len(queue') : i + 1 \in 1..Len(queue) /\ queue'[i] = queue[i + 1]
        BY <1>1, <1>2, <2>1, TailAppend
      <4> QED BY <4>1 DEF SinkInv, Lined
    <3> QED BY <2>1, <2>2, <3>1, <3>2, <3>3, <3>4 DEF SinkInv, Lined
  <2>6. Stopped'
    BY <2>1, <1>2 DEF SinkInv, Stopped, Receive
  <2> QED BY <2>3, <2>4, <2>5, <2>6 DEF SinkInv
<1>3. CASE queue = <<>>
  <2>1. /\ shut /\ worker = "receive" /\ worker' = "done" /\ cancelled' = TRUE
        /\ UNCHANGED <<emitter, closer, closed, queue, shut, current, panicked, fate, unposted>>
    BY <1>3 DEF Receive
  <2>2. SinkTypeOK'
    BY <2>1 DEF SinkInv, SinkTypeOK
  <2>3. Locked'
    BY <2>1 DEF SinkInv, Locked, Readers, NoPanic
  <2>4. Lined' /\ Stopped'
    BY <1>3, <2>1 DEF SinkInv, Lined, Stopped
  <2> QED BY <2>2, <2>3, <2>4 DEF SinkInv
<1> QED BY <1>2, <1>3

\* post settles the event it had.
LEMMA PostStep ==
    ASSUME SinkInv, Post
    PROVE  SinkInv'
<1>1. current \in Events
  BY DEF SinkInv, Lined, Post
<1>2. SinkTypeOK'
  BY <1>1 DEF SinkInv, SinkTypeOK, Post, Settle, Fates
<1>3. Locked'
  BY DEF SinkInv, Locked, Post, Readers, NoPanic
<1>4. Lined'
  BY <1>1 DEF SinkInv, SinkTypeOK, Lined, Post, Settle
<1>5. Stopped'
  BY DEF SinkInv, Stopped, Post
<1> QED BY <1>2, <1>3, <1>4, <1>5 DEF SinkInv

\* Every step keeps the invariant.
LEMMA SinkStep == SinkInv /\ [SinkNext]_sinkVars => SinkInv'
<1> SUFFICES ASSUME SinkInv, [SinkNext]_sinkVars PROVE SinkInv'
  OBVIOUS
<1>1. ASSUME NEW e \in Events, EmitStep(e) PROVE SinkInv'
  BY <1>1, LockStep, CheckStep, SendStep DEF EmitStep
<1>2. ASSUME NEW s \in Closers, Shutdown(s) \/ CloserStep(s) PROVE SinkInv'
  BY <1>2, AcquireStep, CloseStep, WaitStep DEF CloserStep
<1>3. ASSUME WorkerStep PROVE SinkInv'
  BY <1>3, ReceiveStep, PostStep DEF WorkerStep
<1>4. CASE UNCHANGED sinkVars
  BY <1>4 DEF sinkVars, SinkInv, SinkTypeOK, Locked, Lined, Stopped, Readers, NoPanic
<1> QED BY <1>1, <1>2, <1>3, <1>4 DEF SinkNext

\* The invariant implies the two safety properties.
LEMMA SinkSafe == SinkInv => NoPanic /\ NilMeansPosted
<1> SUFFICES ASSUME SinkInv PROVE NilMeansPosted
  BY DEF SinkInv, Locked
<1> SUFFICES ASSUME NEW s \in Closers, closer[s] = "nil",
                    \A t \in Closers : closer[t] # "error"
             PROVE  \A e \in Events : fate[e] # "accepted" /\ e \notin unposted
  BY DEF NilMeansPosted
<1>1. worker = "done" /\ queue = <<>> /\ unposted = {}
  BY DEF SinkInv, Stopped
<1>2. \A i \in 1..Len(queue) : FALSE
  BY <1>1
<1> QED BY <1>1, <1>2 DEF SinkInv, Lined

\* The invariant holds in every reachable state of the sink.
THEOREM SinkInvariant == SinkSpec => []SinkInv
<1>1. SinkInit => SinkInv
  BY SinkInitial
<1>2. SinkInv /\ [SinkNext]_sinkVars => SinkInv'
  BY SinkStep
<1> QED BY <1>1, <1>2, PTL DEF SinkSpec

\* No interleaving of Emit and Shutdown sends on the closed channel or closes
\* it twice.
THEOREM SinkNeverPanics == SinkSpec => []NoPanic
BY SinkInvariant, SinkSafe, PTL

\* A Shutdown that returns nil, where none has given up, left no accepted
\* event unposted.
THEOREM SinkNilMeansPosted == SinkSpec => []NilMeansPosted
BY SinkInvariant, SinkSafe, PTL
-----------------------------------------------------------------------------
(* The refinement: every step of the sink is a step of the channel, or      *)
(* none.                                                                    *)

\* The line when the worker takes the oldest event, posts it, or a new one
\* joins.
LEMMA LineMoves ==
    ASSUME SinkInv
    PROVE  /\ worker # "post" => Posting \o queue = queue
           /\ worker = "post" =>
                /\ Posting \o queue # <<>>
                /\ Head(Posting \o queue) = current
                /\ Tail(Posting \o queue) = queue
           /\ queue # <<>> => <<Head(queue)>> \o Tail(queue) = queue
           /\ \A e \in Events : Posting \o Append(queue, e) = Append(Posting \o queue, e)
<1>1. queue \in Seq(Events) /\ Posting \in Seq(Events)
  BY DEF SinkInv, SinkTypeOK, Lined, Posting
<1>2. worker # "post" => Posting \o queue = queue
  BY <1>1 DEF Posting
<1>3. ASSUME worker = "post"
      PROVE  /\ Posting \o queue # <<>>
             /\ Head(Posting \o queue) = current
             /\ Tail(Posting \o queue) = queue
  <2>1. current \in Events /\ Posting = <<current>>
    BY <1>3 DEF SinkInv, Lined, Posting
  <2> QED BY <1>1, <2>1
<1>4. queue # <<>> => <<Head(queue)>> \o Tail(queue) = queue
  BY <1>1
<1>5. \A e \in Events : Posting \o Append(queue, e) = Append(Posting \o queue, e)
  BY <1>1
<1> QED BY <1>2, <1>3, <1>4, <1>5

\* Emit's verdict is the channel's: the event is accepted or dropped.
LEMMA EmitRefines ==
    ASSUME SinkInv, NEW e \in Events, EmitStep(e)
    PROVE  Channel!Next \/ UNCHANGED Channel!channel
<1>1. CASE Lock(e)
  BY <1>1 DEF Lock, Channel!channel, Posting
<1>2. CASE Check(e)
  <2>1. fate[e] = "new"
    BY <1>2 DEF SinkInv, Lined, Check
  <2>2. CASE closed
    <3>1. Channel!Drop(e)
      BY <1>2, <2>1, <2>2 DEF Check, Channel!Drop, Posting
    <3> QED BY <3>1 DEF Channel!Next
  <2>3. CASE ~closed
    BY <1>2, <2>3 DEF Check, Channel!channel, Posting
  <2> QED BY <2>2, <2>3
<1>3. CASE Send(e)
  <2>1. fate[e] = "new" /\ ~shut
    BY <1>3 DEF SinkInv, Locked, Lined, Send
  <2>2. /\ queue' = IF Room THEN Append(queue, e) ELSE queue
        /\ fate' = [fate EXCEPT ![e] = Verdict]
        /\ UNCHANGED <<worker, current>>
    BY <1>3, <2>1 DEF Send
  <2>3. CASE Room
    <3>1. Channel!Accept(e)
      BY <2>1, <2>2, <2>3, LineMoves DEF Verdict, Posting, Channel!Accept
    <3> QED BY <3>1 DEF Channel!Next
  <2>4. CASE ~Room
    <3>1. Channel!Drop(e)
      BY <2>1, <2>2, <2>4 DEF Verdict, Posting, Channel!Drop
    <3> QED BY <3>1 DEF Channel!Next
  <2> QED BY <2>3, <2>4
<1> QED BY <1>1, <1>2, <1>3 DEF EmitStep

\* The worker settles the head of the line, or takes it out of the buffer to
\* post it, which the channel does not see.
LEMMA WorkerRefines ==
    ASSUME SinkInv, WorkerStep
    PROVE  Channel!Next \/ UNCHANGED Channel!channel
<1>1. CASE Receive /\ queue # <<>> /\ cancelled
  <2>1. /\ queue' = Tail(queue)
        /\ fate' = [fate EXCEPT ![Head(queue)] = "settled"]
        /\ worker # "post" /\ worker' # "post"
    BY <1>1 DEF Receive, Settle
  <2>2. Posting \o queue = queue /\ (Posting \o queue)' = queue'
    <3>1. queue' \in Seq(Events)
      BY ReceiveStep, <1>1 DEF SinkInv, SinkTypeOK
    <3>2. (Posting \o queue)' = <<>> \o queue'
      BY <2>1 DEF Posting
    <3>3. <<>> \o queue' = queue'
      BY <3>1
    <3> QED BY <2>1, <3>2, <3>3, LineMoves
  <2>3. Channel!Settle
    BY <1>1, <2>1, <2>2 DEF Channel!Settle
  <2> QED BY <2>3 DEF Channel!Next
<1>2. CASE Receive /\ queue # <<>> /\ ~cancelled
  <2>1. /\ (Posting \o queue)' = <<Head(queue)>> \o Tail(queue)
        /\ worker # "post" /\ fate' = fate
    BY <1>2 DEF Receive, Posting
  <2>2. (Posting \o queue)' = Posting \o queue
    BY <1>2, <2>1, LineMoves
  <2> QED BY <2>1, <2>2 DEF Channel!channel
<1>3. CASE Receive /\ queue = <<>>
  BY <1>3 DEF Receive, Posting, Channel!channel
<1>4. CASE Post
  <2>1. /\ worker = "post" /\ worker' # "post" /\ queue' = queue
        /\ fate' = [fate EXCEPT ![current] = "settled"]
    BY <1>4 DEF Post, Settle
  <2>2. (Posting \o queue)' = queue
    <3>1. queue \in Seq(Events)
      BY DEF SinkInv, SinkTypeOK
    <3> QED BY <2>1, <3>1 DEF Posting
  <2>3. Channel!Settle
    BY <2>1, <2>2, LineMoves DEF Channel!Settle
  <2> QED BY <2>3 DEF Channel!Next
<1> QED BY <1>1, <1>2, <1>3, <1>4 DEF WorkerStep

\* A Shutdown moves no event.
LEMMA CloserRefines ==
    ASSUME NEW s \in Closers, Shutdown(s) \/ CloserStep(s)
    PROVE  UNCHANGED Channel!channel
BY DEF Shutdown, CloserStep, Acquire, Close, Wait, Posting, Channel!channel

\* The sink implements the channel the digest is promised: each event is
\* accepted or dropped at once and accepted events are settled in order.
THEOREM SinkImplementsChannel == SinkSpec => ImplementsChannel
<1>1. SinkInit => Channel!Init
  <2> SUFFICES ASSUME SinkInit PROVE Channel!Init
    OBVIOUS
  <2>1. Posting \o queue = <<>>
    BY DEF SinkInit, Posting
  <2> QED BY <2>1 DEF SinkInit, Channel!Init
<1>2. SinkInv /\ [SinkNext]_sinkVars => [Channel!Next]_Channel!channel
  <2> SUFFICES ASSUME SinkInv, [SinkNext]_sinkVars
               PROVE  Channel!Next \/ UNCHANGED Channel!channel
    OBVIOUS
  <2>1. CASE UNCHANGED sinkVars
    BY <2>1 DEF sinkVars, Channel!channel, Posting
  <2> QED BY <2>1, EmitRefines, WorkerRefines, CloserRefines DEF SinkNext
<1> QED BY <1>1, <1>2, SinkInvariant, PTL DEF SinkSpec, ImplementsChannel, Channel!Spec

-----------------------------------------------------------------------------
(* The prompts cache *)

\* A fetch that runs is the only one, and the entry knows of it.
OneFetch ==
    /\ entry.refreshing <=> \E g \in Fetchers : fetch[g].at # "idle"
    /\ \A g, h \in Fetchers : fetch[g].at # "idle" /\ fetch[h].at # "idle" => g = h

\* A version Langfuse answered with was production while the fetch ran.
AnswersDated ==
    /\ label # 0 => since[label] = 0
    /\ \A g \in Fetchers :
          fetch[g].at = "answered" /\ fetch[g].got # 0 =>
              since[fetch[g].got] <= fetch[g].elapsed

\* A copy past the TTL that was asked for in this tick is being refreshed.
AskedRefreshes == called /\ entry.age = TTL => entry.refreshing

\* How long ago the copy was production, or how long all has been well: both
\* are bounded by the copy's age and then by the time of its refresh.
CopyDated ==
    entry.ok =>
        /\ ~entry.refreshing =>
              since[entry.prompt] <= Timeout + entry.age \/ steady <= entry.age
        /\ \A g \in Fetchers : fetch[g].at # "idle" =>
              \/ since[entry.prompt] <= Timeout + TTL + fetch[g].elapsed
              \/ steady <= TTL + fetch[g].elapsed

CacheInv == PromptTypeOK /\ OneFetch /\ AnswersDated /\ AskedRefreshes /\ CopyDated


-----------------------------------------------------------------------------

\* What TypeOK says of a fetcher, of the entry and of the bounds.
LEMMA CacheTyped ==
    ASSUME PromptTypeOK
    PROVE  /\ TTL \in Nat /\ TTL > 0 /\ Timeout \in Nat /\ Timeout > 0 /\ MaxVersion \in Nat
           /\ Bound \in Nat /\ Bound = TTL + 2 * Timeout
           /\ steady \in 0..Bound + 1 /\ made \in 0..MaxVersion
           /\ label \in Versions /\ label \in 0..made
           /\ entry.prompt \in Versions /\ entry.ok \in BOOLEAN
           /\ entry.refreshing \in BOOLEAN /\ entry.age \in 0..TTL
           /\ \A v \in Versions : since[v] \in 0..Bound + 1
           /\ \A g \in Fetchers :
                 /\ fetch[g].at \in {"idle", "asked", "answered"}
                 /\ fetch[g].got \in Versions /\ fetch[g].elapsed \in 0..Timeout
<1>1. TTL \in Nat /\ TTL > 0 /\ Timeout \in Nat /\ Timeout > 0 /\ MaxVersion \in Nat
  BY PromptCacheAssumption
<1>2. Bound \in Nat /\ Bound = TTL + 2 * Timeout
  BY <1>1 DEF Bound
<1> QED BY <1>1, <1>2 DEF PromptTypeOK, Versions

\* The initial states: main.go has started the first fetch.
LEMMA CacheInitial == PromptInit => CacheInv
<1> SUFFICES ASSUME PromptInit PROVE CacheInv
  OBVIOUS
<1>1. /\ TTL \in Nat /\ TTL > 0 /\ Timeout \in Nat /\ Timeout > 0 /\ MaxVersion \in Nat
      /\ Bound \in Nat
  BY PromptCacheAssumption DEF Bound
<1>2. PICK g \in Fetchers : fetch = [f \in Fetchers |->
                 IF f = g THEN [Resting EXCEPT !.at = "asked"] ELSE Resting]
  BY DEF PromptInit
<1>3. PromptTypeOK
  <2>1. fetch \in [Fetchers -> [at: {"idle", "asked", "answered"}, got: Versions,
                                elapsed: 0..Timeout]]
    BY <1>1, <1>2 DEF Resting, Versions
  <2>2. entry \in [prompt: Versions, ok: BOOLEAN, refreshing: BOOLEAN, age: 0..TTL]
    BY <1>1 DEF PromptInit, Versions
  <2>3. since \in [Versions -> 0..Bound + 1]
    BY <1>1 DEF PromptInit
  <2>4. /\ made \in Versions /\ label \in 0..made /\ up \in BOOLEAN /\ seed = "idle"
        /\ steady \in 0..Bound + 1 /\ called \in BOOLEAN
    <3>1. made = 0 /\ label = 0 /\ seed = "idle" /\ steady = 0
      BY DEF PromptInit
    <3>2. up \in BOOLEAN /\ called \in BOOLEAN
      BY DEF PromptInit
    <3>3. made \in Versions /\ label \in 0..made /\ steady \in 0..Bound + 1
      BY <1>1, <3>1 DEF Versions
    <3> QED BY <3>1, <3>2, <3>3
  <2> QED BY <2>1, <2>2, <2>3, <2>4 DEF PromptTypeOK
<1>4. OneFetch /\ AnswersDated
  BY <1>2 DEF PromptInit, OneFetch, AnswersDated, Resting
<1>5. AskedRefreshes /\ CopyDated
  BY DEF PromptInit, AskedRefreshes, CopyDated
<1> QED BY <1>3, <1>4, <1>5 DEF CacheInv

\* A call: it starts a fetch only when none runs, of a copy that is as old as
\* the TTL allows.
LEMMA TemplateStep == ASSUME CacheInv, Template PROVE CacheInv'
<1>0. PromptTypeOK /\ OneFetch /\ AnswersDated /\ CopyDated
  BY DEF CacheInv
<1>1. UNCHANGED <<made, label, up, seed, since, steady>> /\ called' = TRUE
  BY DEF Template, langfuse
<1>2. CASE entry.age < TTL /\ UNCHANGED <<entry, fetch>>
  <2>1. PromptTypeOK'
    BY <1>0, <1>1, <1>2 DEF PromptTypeOK, Versions
  <2> QED BY <1>0, <1>1, <1>2, <2>1, CacheTyped
          DEF CacheInv, OneFetch, AnswersDated, AskedRefreshes, CopyDated
<1>3. CASE entry.age >= TTL /\ ~CanRefresh /\ UNCHANGED <<entry, fetch>>
  <2>1. PromptTypeOK'
    BY <1>0, <1>1, <1>3 DEF PromptTypeOK, Versions
  <2> QED BY <1>0, <1>1, <1>3, <2>1, CacheTyped
          DEF CacheInv, OneFetch, AnswersDated, AskedRefreshes, CopyDated, CanRefresh
<1>4. CASE /\ entry.age >= TTL /\ CanRefresh
           /\ entry' = [entry EXCEPT !.refreshing = TRUE]
           /\ \E g \in Fetchers :
                 fetch[g].at = "idle" /\ fetch' = [fetch EXCEPT ![g].at = "asked"]
  <2>1. PICK g \in Fetchers :
           fetch[g].at = "idle" /\ fetch' = [fetch EXCEPT ![g].at = "asked"]
    BY <1>4
  <2>2. PromptTypeOK'
    BY <1>0, <1>1, <1>4, <2>1 DEF PromptTypeOK, Versions
  <2>3. /\ entry'.prompt = entry.prompt /\ entry'.ok = entry.ok
        /\ entry'.age = entry.age /\ entry'.refreshing = TRUE
        /\ ~entry.refreshing /\ entry.age = TTL
    <3>1. entry.age \in 0..TTL /\ TTL \in Nat
      BY <1>0, CacheTyped
    <3>2. entry \in [prompt: Versions, ok: BOOLEAN, refreshing: BOOLEAN, age: 0..TTL]
      BY <1>0 DEF PromptTypeOK
    <3> QED BY <1>4, <3>1, <3>2 DEF CanRefresh
  <2>4. /\ fetch'[g].at = "asked" /\ fetch'[g].elapsed = fetch[g].elapsed
        /\ \A f \in Fetchers : f # g => fetch'[f] = fetch[f]
        /\ \A f \in Fetchers : fetch[f].at = "idle"
    BY <1>0, <2>1, <2>3 DEF PromptTypeOK, OneFetch
  <2>5. OneFetch' /\ AnswersDated' /\ AskedRefreshes'
    BY <1>0, <1>1, <2>3, <2>4 DEF OneFetch, AnswersDated, AskedRefreshes
  <2>6. CopyDated'
    <3>1. entry.ok => since[entry.prompt] <= Timeout + TTL \/ steady <= TTL
      BY <1>0, <2>3 DEF CopyDated
    <3>2. /\ fetch[g].elapsed \in Nat /\ TTL \in Nat /\ Timeout \in Nat /\ steady \in Nat
          /\ since[entry.prompt] \in Nat
      BY <1>0, CacheTyped
    <3>3. entry.ok => \/ since[entry.prompt] <= Timeout + TTL + fetch[g].elapsed
                      \/ steady <= TTL + fetch[g].elapsed
      BY <3>1, <3>2
    <3> QED BY <1>1, <2>3, <2>4, <3>3 DEF CopyDated
  <2> QED BY <2>2, <2>5, <2>6 DEF CacheInv
<1> QED BY <1>2, <1>3, <1>4 DEF Template, CheckedAfter

\* Langfuse sends the version that is production while it answers.
LEMMA AnswerStep == ASSUME CacheInv, NEW g \in Fetchers, Answer(g) PROVE CacheInv'
<1>0. PromptTypeOK /\ OneFetch /\ AnswersDated /\ AskedRefreshes /\ CopyDated
  BY DEF CacheInv
<1>1. /\ UNCHANGED <<made, label, up, seed, entry, since, steady, called>>
      /\ fetch[g].at = "asked"
  BY DEF Answer, langfuse, history
<1>2. /\ fetch'[g].at = "answered" /\ fetch'[g].got = label
      /\ fetch'[g].elapsed = fetch[g].elapsed
      /\ \A f \in Fetchers : f # g => fetch'[f] = fetch[f]
  BY <1>0 DEF Answer, PromptTypeOK
<1>3. PromptTypeOK'
  BY <1>0, <1>1, CacheTyped DEF PromptTypeOK, Answer, Versions
<1>4. OneFetch' /\ AskedRefreshes'
  BY <1>0, <1>1, <1>2 DEF OneFetch, AskedRefreshes
<1>5. AnswersDated'
  <2>1. label # 0 => since[label] <= fetch[g].elapsed
    BY <1>0, CacheTyped DEF AnswersDated
  <2> QED BY <1>0, <1>1, <1>2, <2>1 DEF AnswersDated
<1>6. CopyDated'
  <2>1. \A f \in Fetchers : /\ fetch'[f].at # "idle" => fetch[f].at # "idle"
                            /\ fetch'[f].elapsed = fetch[f].elapsed
    BY <1>1, <1>2
  <2> QED BY <1>0, <1>1, <2>1 DEF CopyDated
<1> QED BY <1>3, <1>4, <1>5, <1>6 DEF CacheInv

\* What the cache may hold.
Entries == [prompt: Versions, ok: BOOLEAN, refreshing: BOOLEAN, age: 0..TTL]

\* What a successful store makes of the entry.
LEMMA Copied ==
    ASSUME NEW v \in Versions, NEW e,
           e = [prompt |-> v, ok |-> TRUE, refreshing |-> FALSE, age |-> 0]
    PROVE  ~e.refreshing /\ e.age = 0 /\ e.prompt \in Versions /\ e \in Entries
<1>1. 0 \in 0..TTL
  BY PromptCacheAssumption
<1>2. ~e.refreshing /\ e.age = 0 /\ e.prompt \in Versions
  OBVIOUS
<1>3. e \in Entries
  BY <1>1 DEF Entries
<1> QED BY <1>2, <1>3

\* What a failed store makes of the entry.
LEMMA Kept ==
    ASSUME NEW d \in Entries, NEW e, e = [d EXCEPT !.refreshing = FALSE, !.age = 0]
    PROVE  ~e.refreshing /\ e.age = 0 /\ e.prompt \in Versions /\ e \in Entries
<1>1. e = [prompt |-> d.prompt, ok |-> d.ok, refreshing |-> FALSE, age |-> 0]
  BY DEF Entries
<1>2. d.prompt \in Versions /\ 0 \in 0..TTL
  BY PromptCacheAssumption DEF Entries
<1>3. d.ok \in BOOLEAN
  BY DEF Entries
<1>4. ~e.refreshing /\ e.age = 0 /\ e.prompt \in Versions
  BY <1>1, <1>2
<1>5. e \in Entries
  BY <1>1, <1>2, <1>3 DEF Entries
<1> QED BY <1>4, <1>5

\* The end of a fetch: a copy that was production within the timeout, or the
\* old one and a failure, which ends the good time.
LEMMA StoreAnswerStep == ASSUME CacheInv, NEW g \in Fetchers, StoreAnswer(g) PROVE CacheInv'
<1>0. PromptTypeOK /\ OneFetch /\ AnswersDated /\ AskedRefreshes /\ CopyDated
  BY DEF CacheInv
<1>1. /\ UNCHANGED <<made, label, up, seed, since, called>>
      /\ fetch' = [fetch EXCEPT ![g] = Resting]
      /\ fetch[g].at # "idle"
  BY DEF StoreAnswer, langfuse, WellFormed
<1>2. /\ fetch'[g].at = "idle" /\ \A f \in Fetchers : fetch'[f].at = "idle"
      /\ \A f \in Fetchers : f # g => fetch'[f] = fetch[f]
  BY <1>0, <1>1 DEF PromptTypeOK, OneFetch, Resting
<1>3. /\ entry \in Entries /\ fetch[g].got \in Versions /\ Bound \in Nat
      /\ steady \in 0..Bound + 1
  BY <1>0, CacheTyped DEF PromptTypeOK, Entries
<1>4. \/ /\ WellFormed(g) /\ UNCHANGED steady
         /\ entry' = [prompt |-> fetch[g].got, ok |-> TRUE, refreshing |-> FALSE, age |-> 0]
      \/ entry' = [entry EXCEPT !.refreshing = FALSE, !.age = 0] /\ steady' = 0
  BY DEF StoreAnswer
<1>5. /\ ~entry'.refreshing /\ entry'.age = 0 /\ entry'.prompt \in Versions
      /\ entry' \in Entries
  <2>1. CASE entry' = [prompt |-> fetch[g].got, ok |-> TRUE, refreshing |-> FALSE, age |-> 0]
    BY <1>3, <2>1, Copied
  <2>2. CASE entry' = [entry EXCEPT !.refreshing = FALSE, !.age = 0]
    BY <1>3, <2>2, Kept
  <2> QED BY <1>4, <2>1, <2>2
<1>6. PromptTypeOK'
  <2>1. entry' \in [prompt: Versions, ok: BOOLEAN, refreshing: BOOLEAN, age: 0..TTL]
    BY <1>5 DEF Entries
  <2>2. steady' \in 0..Bound + 1
    BY <1>3, <1>4
  <2>3. Resting \in [at: {"idle", "asked", "answered"}, got: Versions, elapsed: 0..Timeout]
    BY <1>0, CacheTyped DEF Resting, Versions
  <2>4. fetch' \in [Fetchers -> [at: {"idle", "asked", "answered"}, got: Versions,
                                 elapsed: 0..Timeout]]
    BY <1>0, <1>1, <2>3 DEF PromptTypeOK
  <2> QED BY <1>0, <1>1, <2>1, <2>2, <2>4 DEF PromptTypeOK
<1>7. OneFetch' /\ AnswersDated' /\ AskedRefreshes'
  BY <1>0, <1>1, <1>2, <1>5, CacheTyped DEF OneFetch, AnswersDated, AskedRefreshes
<1>8. entry'.ok => since'[entry'.prompt] <= Timeout \/ steady' = 0
  BY <1>0, <1>1, <1>4, CacheTyped DEF WellFormed, AnswersDated
<1>9. CopyDated'
  BY <1>0, <1>2, <1>5, <1>8, CacheTyped DEF CopyDated
<1> QED BY <1>6, <1>7, <1>9 DEF CacheInv

\* A tick ages the copy, its version and the good time alike; a copy that
\* stays at the TTL was not asked for, or is being refreshed.
LEMMA TickStep == ASSUME CacheInv, Tick PROVE CacheInv'
<1>0. PromptTypeOK /\ OneFetch /\ AnswersDated /\ AskedRefreshes /\ CopyDated
  BY DEF CacheInv
<1>1. UNCHANGED <<made, label, up, seed>> /\ called' = FALSE
  BY DEF Tick, langfuse
<1>2. /\ entry'.prompt = entry.prompt /\ entry'.ok = entry.ok
      /\ entry'.refreshing = entry.refreshing /\ entry'.age = Older(entry.age, TTL)
      /\ entry' \in [prompt: Versions, ok: BOOLEAN, refreshing: BOOLEAN, age: 0..TTL]
  BY <1>0, CacheTyped DEF Tick, PromptTypeOK, Older
<1>3. \A v \in Versions : /\ since'[v] = IF v = label THEN 0 ELSE Older(since[v], Bound + 1)
                          /\ since'[v] \in 0..Bound + 1
                          /\ since'[v] <= since[v] + 1
  BY <1>0, CacheTyped DEF Tick, PromptTypeOK, Older
<1>4. /\ steady' \in 0..Bound + 1 /\ steady' <= steady + 1 /\ (~called => steady' = 0)
  BY <1>0, CacheTyped DEF Tick, Older
<1>5. \A g \in Fetchers :
        /\ fetch[g].at = "idle" => fetch'[g] = Resting
        /\ fetch[g].at # "idle" =>
              /\ fetch'[g].at = fetch[g].at /\ fetch'[g].got = fetch[g].got
              /\ fetch'[g].elapsed = fetch[g].elapsed + 1
        /\ fetch'[g] \in [at: {"idle", "asked", "answered"}, got: Versions, elapsed: 0..Timeout]
  <2> TAKE g \in Fetchers
  <2>1. fetch'[g] = IF fetch[g].at = "idle" THEN Resting
                    ELSE [fetch[g] EXCEPT !.elapsed = @ + 1]
    BY DEF Tick
  <2>2. fetch[g] \in [at: {"idle", "asked", "answered"}, got: Versions, elapsed: 0..Timeout]
    BY <1>0 DEF PromptTypeOK
  <2>3. /\ fetch[g].elapsed + 1 \in 0..Timeout /\ 0 \in 0..Timeout /\ 0 \in Versions
    BY <1>0, CacheTyped DEF Tick, Versions
  <2> QED BY <2>1, <2>2, <2>3 DEF Resting
<1>6. PromptTypeOK'
  <2>1. fetch' \in [Fetchers -> [at: {"idle", "asked", "answered"}, got: Versions,
                                 elapsed: 0..Timeout]]
    BY <1>5 DEF Tick
  <2>2. since' \in [Versions -> 0..Bound + 1]
    BY <1>3 DEF Tick
  <2> QED BY <1>0, <1>1, <1>2, <1>4, <2>1, <2>2 DEF PromptTypeOK, Versions
<1>7. OneFetch' /\ AskedRefreshes'
  BY <1>0, <1>1, <1>2, <1>5 DEF OneFetch, AskedRefreshes, Resting
<1>8. AnswersDated'
  <2>1. label' # 0 => since'[label'] = 0
    BY <1>0, <1>1, <1>3, CacheTyped
  <2>2. ASSUME NEW g \in Fetchers, fetch'[g].at = "answered", fetch'[g].got # 0
        PROVE  since'[fetch'[g].got] <= fetch'[g].elapsed
    <3>1. /\ fetch[g].at = "answered" /\ fetch'[g].got = fetch[g].got
          /\ fetch'[g].elapsed = fetch[g].elapsed + 1
      BY <1>5, <2>2 DEF Resting
    <3>2. since[fetch[g].got] <= fetch[g].elapsed
      BY <1>0, <2>2, <3>1 DEF AnswersDated
    <3>3. fetch[g].got \in Versions /\ fetch[g].elapsed \in Nat /\ since[fetch[g].got] \in Nat
      BY <1>0, CacheTyped
    <3> QED BY <1>3, <3>1, <3>2, <3>3
  <2> QED BY <2>1, <2>2 DEF AnswersDated
<1>9. CopyDated'
  <2>0. /\ TTL \in Nat /\ Timeout \in Nat /\ steady \in Nat /\ steady' \in Nat
        /\ entry.prompt \in Versions
        /\ since[entry.prompt] \in Nat /\ since'[entry.prompt] \in Nat
        /\ since'[entry.prompt] <= since[entry.prompt] + 1
        /\ entry.age \in 0..TTL
    BY <1>0, <1>3, <1>4, CacheTyped
  <2> SUFFICES ASSUME entry.ok
               PROVE  /\ ~entry.refreshing =>
                            \/ since'[entry.prompt] <= Timeout + entry'.age
                            \/ steady' <= entry'.age
                      /\ \A g \in Fetchers : fetch'[g].at # "idle" =>
                            \/ since'[entry.prompt] <= Timeout + TTL + fetch'[g].elapsed
                            \/ steady' <= TTL + fetch'[g].elapsed
    BY <1>2 DEF CopyDated
  <2>1. ASSUME ~entry.refreshing
        PROVE  since'[entry.prompt] <= Timeout + entry'.age \/ steady' <= entry'.age
    <3>1. CASE called
      <4>1. entry.age < TTL
        BY <1>0, <2>0, <2>1, <3>1 DEF AskedRefreshes
      <4>2. entry'.age = entry.age + 1
        BY <1>2, <4>1 DEF Older
      <4>3. since[entry.prompt] <= Timeout + entry.age \/ steady <= entry.age
        BY <1>0, <2>1 DEF CopyDated
      <4> QED BY <1>4, <2>0, <4>2, <4>3
    <3>2. CASE ~called
      BY <1>2, <1>4, <2>0, <3>2 DEF Older
    <3> QED BY <3>1, <3>2
  <2>2. ASSUME NEW g \in Fetchers, fetch'[g].at # "idle"
        PROVE  \/ since'[entry.prompt] <= Timeout + TTL + fetch'[g].elapsed
               \/ steady' <= TTL + fetch'[g].elapsed
    <3>1. fetch[g].at # "idle" /\ fetch'[g].elapsed = fetch[g].elapsed + 1
      BY <1>5, <2>2 DEF Resting
    <3>2. \/ since[entry.prompt] <= Timeout + TTL + fetch[g].elapsed
          \/ steady <= TTL + fetch[g].elapsed
      BY <1>0, <3>1 DEF CopyDated
    <3>3. fetch[g].elapsed \in Nat
      BY <1>0, CacheTyped
    <3> QED BY <1>4, <2>0, <3>1, <3>2, <3>3
  <2> QED BY <2>1, <2>2
<1> QED BY <1>6, <1>7, <1>8, <1>9 DEF CacheInv

\* A label that moves only makes versions younger.
LEMMA MoveLabelStep ==
    ASSUME CacheInv, NEW v \in 1..MaxVersion, MoveLabel(v), made' \in Versions, v \in 0..made',
           seed' \in {"idle", "create", "done"}, UNCHANGED <<up, entry, fetch, steady, called>>
    PROVE  CacheInv'
<1>0. PromptTypeOK /\ OneFetch /\ AnswersDated /\ AskedRefreshes /\ CopyDated
  BY DEF CacheInv
<1>1. label' = v /\ v \in Versions /\ Bound \in Nat
  BY <1>0, CacheTyped DEF MoveLabel, Versions
<1>2. /\ since' \in [Versions -> 0..Bound + 1] /\ since'[v] = 0
      /\ \A u \in Versions : since'[u] = 0 \/ since'[u] = since[u]
  BY <1>0, <1>1 DEF MoveLabel, PromptTypeOK
<1>3. PromptTypeOK'
  BY <1>0, <1>1, <1>2 DEF PromptTypeOK, Versions
<1>4. OneFetch' /\ AskedRefreshes'
  BY <1>0 DEF OneFetch, AskedRefreshes
<1>7. \A u \in Versions :
         since'[u] \in Nat /\ since[u] \in Nat /\ since'[u] <= since[u]
  <2> TAKE u \in Versions
  <2>1. since[u] \in 0..Bound + 1
    BY <1>0, CacheTyped
  <2> QED BY <1>1, <1>2, <2>1
<1>5. AnswersDated'
  <2>1. \A g \in Fetchers : fetch[g].got \in Versions /\ fetch[g].elapsed \in Nat
    BY <1>0, CacheTyped
  <2>2. ASSUME NEW g \in Fetchers, fetch[g].at = "answered", fetch[g].got # 0
        PROVE  since'[fetch[g].got] <= fetch[g].elapsed
    <3>1. since[fetch[g].got] <= fetch[g].elapsed
      BY <1>0, <2>2 DEF AnswersDated
    <3> QED BY <1>7, <2>1, <3>1
  <2> QED BY <1>1, <1>2, <2>2 DEF AnswersDated
<1>6. CopyDated'
  <2>1. since'[entry.prompt] <= since[entry.prompt] /\ since'[entry.prompt] \in Nat
        /\ since[entry.prompt] \in Nat
    BY <1>0, <1>7, CacheTyped
  <2>2. entry.age \in Nat /\ TTL \in Nat /\ Timeout \in Nat
    BY <1>0, CacheTyped
  <2>3. \A g \in Fetchers : fetch[g].elapsed \in Nat
    BY <1>0, CacheTyped
  <2> QED BY <1>0, <2>1, <2>2, <2>3 DEF CopyDated
<1> QED BY <1>3, <1>4, <1>5, <1>6 DEF CacheInv

\* What happens around the cache without moving the label.
LEMMA AroundStep ==
    ASSUME CacheInv, Create \/ Outage \/ SeedLooks \/ UNCHANGED promptVars
    PROVE  CacheInv'
<1>1. /\ UNCHANGED <<label, entry, fetch, since, steady, called>>
      /\ made' \in Versions /\ label \in 0..made' /\ up' \in BOOLEAN
      /\ seed' \in {"idle", "create", "done"}
  <2>1. PromptTypeOK /\ made \in 0..MaxVersion /\ label \in 0..made /\ MaxVersion \in Nat
    BY CacheTyped DEF CacheInv
  <2>2. CASE Create
    BY <2>1, <2>2 DEF PromptTypeOK, Create, history, Versions
  <2>3. CASE Outage \/ SeedLooks \/ UNCHANGED promptVars
    BY <2>1, <2>3 DEF PromptTypeOK, Outage, SeedLooks, promptVars, history, Versions
  <2> QED BY <2>2, <2>3
<1>2. PromptTypeOK'
  BY <1>1 DEF CacheInv, PromptTypeOK, Versions
<1> QED BY <1>1, <1>2 DEF CacheInv, OneFetch, AnswersDated, AskedRefreshes, CopyDated

\* The invariant is inductive.
LEMMA CacheStep == CacheInv /\ [PromptNext]_promptVars => CacheInv'
<1> SUFFICES ASSUME CacheInv, [PromptNext]_promptVars PROVE CacheInv'
  OBVIOUS
<1>1. CASE Template
  BY <1>1, TemplateStep
<1>2. ASSUME NEW g \in Fetchers, Answer(g) \/ StoreAnswer(g) PROVE CacheInv'
  BY <1>2, AnswerStep, StoreAnswerStep
<1>3. CASE Tick
  BY <1>3, TickStep
<1>4. ASSUME NEW v \in Versions, Promote(v) PROVE CacheInv'
  <2>1. v \in 1..MaxVersion /\ v \in 0..made
    BY <1>4, CacheTyped DEF CacheInv, Promote
  <2> QED BY <1>4, <2>1, MoveLabelStep DEF Promote, CacheInv, PromptTypeOK
<1>5. CASE SeedCreates
  <2>1. made + 1 \in 1..MaxVersion /\ made + 1 \in Versions /\ made + 1 \in 0..made + 1
    BY <1>5, CacheTyped DEF CacheInv, SeedCreates, Versions
  <2> QED BY <1>5, <2>1, MoveLabelStep DEF SeedCreates
<1>6. CASE Create \/ Outage \/ SeedLooks \/ UNCHANGED promptVars
  BY <1>6, AroundStep
<1> QED BY <1>1, <1>2, <1>3, <1>4, <1>5, <1>6 DEF PromptNext

\* Every state of every behaviour satisfies the invariant.
THEOREM CacheInvariant == PromptSpec => []CacheInv
<1> QED BY CacheInitial, CacheStep, PTL DEF PromptSpec

\* In good times a version out of production is served for the TTL and two
\* timeouts at most.
THEOREM CacheRollback == PromptSpec => []RollbackBites
<1>1. CacheInv => RollbackBites
  <2> SUFFICES ASSUME CacheInv, steady = Bound + 1, entry.ok
               PROVE  since[entry.prompt] <= Bound
    BY DEF RollbackBites
  <2>1. PromptTypeOK /\ OneFetch /\ CopyDated
    BY DEF CacheInv
  <2>2. /\ TTL \in Nat /\ Timeout \in Nat /\ Bound = TTL + 2 * Timeout
        /\ entry.age \in 0..TTL /\ since[entry.prompt] \in Nat /\ entry.refreshing \in BOOLEAN
    BY <2>1, CacheTyped
  <2>3. CASE ~entry.refreshing
    <3>1. since[entry.prompt] <= Timeout + entry.age \/ steady <= entry.age
      BY <2>1, <2>3 DEF CopyDated
    <3> QED BY <2>2, <3>1
  <2>4. CASE entry.refreshing
    <3>1. PICK g \in Fetchers : fetch[g].at # "idle"
      BY <2>1, <2>4 DEF OneFetch
    <3>2. \/ since[entry.prompt] <= Timeout + TTL + fetch[g].elapsed
          \/ steady <= TTL + fetch[g].elapsed
      BY <2>1, <3>1 DEF CopyDated
    <3>3. fetch[g].elapsed \in 0..Timeout
      BY <2>1, CacheTyped
    <3> QED BY <2>2, <3>2, <3>3
  <2> QED BY <2>2, <2>3, <2>4
<1> QED BY <1>1, CacheInvariant, PTL
=============================================================================
