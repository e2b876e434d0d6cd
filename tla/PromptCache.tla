----------------------------- MODULE PromptCache -----------------------------
(***************************************************************************)
(* The cache of one Langfuse-managed prompt (internal/langfuse/prompts.go):*)
(* Template serves the cached copy and, past the TTL, starts one fetch in  *)
(* the background; Warm starts one at start-up; Seed creates version 1     *)
(* from another process.  Langfuse and its owner, who moves the production *)
(* label, are external.  The entries of two prompts share only the lock.   *)
(* Time passes in ticks; ages are capped, so behaviours need no end.       *)
(***************************************************************************)
EXTENDS Integers

CONSTANTS
    Fetchers,       \* goroutines that may run refresh
    MaxVersion,     \* bound on the versions of the prompt in Langfuse
    Malformed,      \* versions that are not one system and one user message
    TTL, Timeout    \* PromptCacheTTL and promptFetchTimeout, in ticks

ASSUME PromptCacheAssumption ==
    /\ MaxVersion \in Nat /\ Malformed \subseteq 1..MaxVersion
    /\ TTL \in Nat \ {0} /\ Timeout \in Nat \ {0}

VARIABLES
    made, label,    \* versions in Langfuse, the one labelled production or 0
    up,             \* whether Langfuse answers within the timeout
    seed,           \* where Seed is
    entry,          \* the cachedPrompt; its age is now - checked
    fetch,          \* [Fetchers -> the locals of refresh]
    since,          \* history: ticks since each version was production
    steady, called  \* history: ticks of calls without a failure

promptVars == <<made, label, up, seed, entry, fetch, since, steady, called>>
langfuse == <<made, label, up, seed>>
history == <<since, steady, called>>

Versions == 0..MaxVersion

\* How old a copy may get that is asked for in every tick.
Bound == TTL + 2 * Timeout
Older(n, cap) == IF n < cap THEN n + 1 ELSE cap

Resting == [at |-> "idle", got |-> 0, elapsed |-> 0]

PromptTypeOK ==
    /\ made \in Versions /\ label \in 0..made /\ up \in BOOLEAN
    /\ seed \in {"idle", "create", "done"}
    /\ entry \in [prompt: Versions, ok: BOOLEAN, refreshing: BOOLEAN, age: 0..TTL]
    /\ fetch \in [Fetchers -> [at: {"idle", "asked", "answered"}, got: Versions,
                               elapsed: 0..Timeout]]
    /\ since \in [Versions -> 0..Bound + 1]
    /\ steady \in 0..Bound + 1 /\ called \in BOOLEAN

\* checked is the zero time: the entry is past the TTL.  main.go warms the
\* cache before anything calls Template.
PromptInit ==
    /\ made = 0 /\ label = 0 /\ up = TRUE /\ seed = "idle"
    /\ entry = [prompt |-> 0, ok |-> FALSE, refreshing |-> TRUE, age |-> TTL]
    /\ \E g \in Fetchers : fetch = [f \in Fetchers |->
                              IF f = g THEN [Resting EXCEPT !.at = "asked"] ELSE Resting]
    /\ since = [v \in Versions |-> Bound + 1]
    /\ steady = 0 /\ called = FALSE

-----------------------------------------------------------------------------
(* The cache *)

\* Mutation: a copy that is asked for stays fresh.
CheckedAfterHit == [entry EXCEPT !.age = 0]

\* What a call leaves of checked: a hit does not move it.
CheckedAfter == entry

\* Mutation: only a copy is refreshed.
CanRefreshCopy == ~entry.refreshing /\ entry.ok

\* refreshLocked does nothing while a fetch runs.
CanRefresh == ~entry.refreshing

\* Template: an error or the cached copy at once, and past the TTL a fetch.
Template ==
    /\ \/ /\ entry.age >= TTL /\ CanRefresh
          /\ entry' = [entry EXCEPT !.refreshing = TRUE]
          /\ \E g \in Fetchers :
                /\ fetch[g].at = "idle"
                /\ fetch' = [fetch EXCEPT ![g].at = "asked"]
       \/ entry.age >= TTL /\ ~CanRefresh /\ UNCHANGED <<entry, fetch>>
       \/ entry.age < TTL /\ entry' = CheckedAfter /\ UNCHANGED fetch
    /\ called' = TRUE
    /\ UNCHANGED <<langfuse, since, steady>>

\* fetch: Langfuse reads the label and sends that version, or 404.
Answer(g) ==
    /\ fetch[g].at = "asked" /\ up
    /\ fetch' = [fetch EXCEPT ![g].at = "answered", ![g].got = label]
    /\ UNCHANGED <<langfuse, entry, history>>

WellFormed(g) == fetch[g].at = "answered" /\ fetch[g].got \notin Malformed \union {0}

\* store: a success replaces the copy, a failure keeps it, both are a check.
\* A request fails while Langfuse is down or by its answer.
StoreAnswer(g) ==
    /\ \/ /\ WellFormed(g)
          /\ entry' = [prompt |-> fetch[g].got, ok |-> TRUE, refreshing |-> FALSE, age |-> 0]
          /\ UNCHANGED steady
       \/ /\ fetch[g].at # "idle" /\ (up => fetch[g].at = "answered" /\ ~WellFormed(g))
          /\ entry' = [entry EXCEPT !.refreshing = FALSE, !.age = 0]
          /\ steady' = 0
    /\ fetch' = [fetch EXCEPT ![g] = Resting]
    /\ UNCHANGED <<langfuse, since, called>>

-----------------------------------------------------------------------------
(* Around it *)

\* A tick; no request outlives its timeout.
Tick ==
    /\ \A g \in Fetchers : fetch[g].elapsed < Timeout
    /\ entry' = [entry EXCEPT !.age = Older(@, TTL)]
    /\ fetch' = [g \in Fetchers |-> IF fetch[g].at = "idle" THEN Resting
                                    ELSE [fetch[g] EXCEPT !.elapsed = @ + 1]]
    /\ since' = [v \in Versions |-> IF v = label THEN 0 ELSE Older(since[v], Bound + 1)]
    /\ steady' = IF called THEN Older(steady, Bound + 1) ELSE 0
    /\ called' = FALSE
    /\ UNCHANGED langfuse

\* The label leaves one version, which was production until now, for v.
MoveLabel(v) ==
    /\ label' = v
    /\ since' = [since EXCEPT ![label] = 0, ![v] = 0]

\* The owner adds a version, promotes one or rolls back to one.
Create == made < MaxVersion /\ made' = made + 1 /\ UNCHANGED <<label, up, seed, entry, fetch, history>>
Promote(v) ==
    /\ v \in 1..made /\ v # label /\ MoveLabel(v)
    /\ UNCHANGED <<made, up, seed, entry, fetch, steady, called>>
Outage == up' = ~up /\ UNCHANGED <<made, label, seed, entry, fetch, history>>

\* Seed looks the name up, and creates a version only if there was none.
SeedLooks ==
    /\ seed = "idle" /\ up
    /\ seed' = IF made = 0 THEN "create" ELSE "done"
    /\ UNCHANGED <<made, label, up, entry, fetch, history>>
SeedCreates ==
    /\ seed = "create" /\ up /\ made < MaxVersion
    /\ made' = made + 1 /\ MoveLabel(made + 1) /\ seed' = "done"
    /\ UNCHANGED <<up, entry, fetch, steady, called>>

PromptNext ==
    \/ Template \/ \E g \in Fetchers : Answer(g) \/ StoreAnswer(g)
    \/ Tick \/ Create \/ (\E v \in Versions : Promote(v)) \/ Outage
    \/ SeedLooks \/ SeedCreates

\* Model calls go on and time passes; a fetch ends by its timeout.
PromptSpec ==
    /\ PromptInit /\ [][PromptNext]_promptVars
    /\ WF_promptVars(Template) /\ WF_promptVars(Tick)
    /\ \A g \in Fetchers : WF_promptVars(Answer(g)) /\ WF_promptVars(StoreAnswer(g))

-----------------------------------------------------------------------------
(* Properties *)

\* Safety: while the prompt is asked for and no fetch fails, a version that
\* was taken out of production is not served for longer than the TTL and two
\* timeouts (prompts.go:32: "after it a call gets the cached copy while a
\* refresh runs").
RollbackBites ==
    steady = Bound + 1 /\ entry.ok => since[entry.prompt] <= Bound

\* Liveness: from whatever outages, malformed versions and cold starts, a
\* well-formed version that stays at production is served in the end, and no
\* other one after it.
PromotionServed ==
    \A v \in (1..MaxVersion) \ Malformed :
        <>[](up /\ label = v) => <>[](entry.ok /\ entry.prompt = v)
=============================================================================
