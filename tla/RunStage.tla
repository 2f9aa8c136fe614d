------------------------------ MODULE RunStage ------------------------------
(***************************************************************************)
(* One visitor watching runs: the query cache (lib/api/queries.ts over     *)
(* TanStack Query), the stage (features/theater/RunStage.tsx, useReplay.ts) *)
(* and the pages that mount it, while the backend goes on with the run.    *)
(* Effects run with the render that causes them, as React runs them before *)
(* the next event.                                                         *)
(***************************************************************************)
EXTENDS Screens

CONSTANTS
    Runs,         \* run IDs
    Live,         \* the run that "Run it live on AWS" starts
    Recorded,     \* the finished run that the home page's story replays
    Scopes        \* bounds: what the processors make of the runs, where the visitor
                  \* begins, and how often what happens

Scripts == [processor : {"vulnerable", "protected"}, fingerprint : Nat, rows : Seq(DeliveryRows)]
Pages == {"home", "run", "compare", "away"}

ASSUME StageAssumption ==
    /\ IsFiniteSet(Runs) /\ {Live, Recorded} \subseteq Runs /\ Live # Recorded
    /\ \A scope \in Scopes, r \in Runs : Resolved(scope.story[r].rows)
    /\ \A scope \in Scopes : scope.at = "home" =>    \* a section is of one test and processor
          \A r \in Runs : scope.story[r].processor = scope.story[Recorded].processor
    /\ Scopes \subseteq [story : [Runs -> Scripts], at : Pages, on : Runs, live : {"absent", "begun", "handled"}, loaded : BOOLEAN,
                         moves : Nat, clicks : Nat, errors : Nat, faults : Nat]

VARIABLES
    story,       \* the script of every run
    server,      \* run -> status, evaluated, the positions of the rows recorded
    data,        \* <<run, query>> -> {} or {its last answer}
    fetching,    \* <<run, query>> -> Idle, Asked, or the answer on its way
    failed,      \* the queries whose last fetch failed for good
    page,        \* where the visitor is, and the run shown there
    token,       \* HomePage: playToken + token is above 0
    starting,    \* StorySection: useStartRun is "idle", "pending" or has an "error"
    stage,       \* RunStage and useReplay
    toasts,
    left         \* what is left of the bounds

serverVars == <<story, server>>
cacheVars == <<data, fetching, failed>>
vars == <<serverVars, cacheVars, page, token, starting, stage, toasts, left>>

Kinds == {"run", "students", "rows"}
Queries == Runs \X Kinds
Over == {"COMPLETED", "FAILED"}

Whole(r) == DOMAIN story[r].rows

-----------------------------------------------------------------------------
(* The backend                                                             *)

Absent == [status |-> "QUEUED", evaluated |-> FALSE, recorded |-> {}]
Begun == [Absent EXCEPT !.status = "RUNNING"]
Exists(r) == server[r].status # "QUEUED"

\* The instructions that are sent twice, which phase B waits for.
PhaseA(r) ==
    {i \in Whole(r) : \E j \in Whole(r) \ {i} : story[r].rows[i].entitlement = story[r].rows[j].entitlement}

\* Rows are listed by processed_at and not in the order in which they were
\* recorded; what refuses a repeat was recorded before.
RecordRow(r) ==
    \E i \in Whole(r) \ server[r].recorded :
        /\ Exists(r)
        /\ i \in PhaseA(r) \/ PhaseA(r) \subseteq server[r].recorded
        /\ story[r].rows[i].outcome = "DUPLICATE_SUPPRESSED" =>
              \E j \in server[r].recorded :
                 /\ story[r].rows[j].entitlement = story[r].rows[i].entitlement
                 /\ story[r].rows[j].outcome = "COMMITTED"
        /\ server' = [server EXCEPT ![r].recorded = @ \cup {i}]

Evaluate(r) ==
    /\ server[r].status = "RUNNING" /\ server[r].recorded = Whole(r)
    /\ ~server[r].evaluated
    /\ server' = [server EXCEPT ![r].evaluated = TRUE]

GenerateReceipt(r) ==
    /\ server[r].status = "RUNNING" /\ server[r].evaluated
    /\ server' = [server EXCEPT ![r].status = "COMPLETED"]

MarkFailed(r) ==
    /\ server[r].status = "RUNNING"
    /\ server' = [server EXCEPT ![r].status = "FAILED"]

\* What an answer tells of the run.  GET /students and GET /deliveries read the
\* run before its rows, which changes nothing: rows only grow, and all of them
\* are there before there is a verdict.
Look(q) ==
    CASE q[2] = "run" -> [server[q[1]] EXCEPT !.recorded = {}]
      [] q[2] = "students" -> [server[q[1]] EXCEPT !.status = "RUNNING"]
      [] q[2] = "rows" -> [server[q[1]] EXCEPT !.status = "RUNNING", !.evaluated = FALSE]

-----------------------------------------------------------------------------
(* The queries                                                             *)

Idle == [step |-> "idle", with |-> Absent]
Asked == [step |-> "asked", with |-> Absent]
Answered(a) == [step |-> "answered", with |-> a]

Has(d, r, kind) == d[<<r, kind>>] # {}
Get(d, r, kind) == CHOOSE a \in d[<<r, kind>>] : TRUE
Known(d, r) == Has(d, r, "run")
Terminal(d, r) == Known(d, r) /\ Get(d, r, "run").status \in Over
Running(d, r) == Known(d, r) /\ ~Terminal(d, r)
\* RunStage: ready
Ready(d, r) == Terminal(d, r) /\ Has(d, r, "rows") /\ Has(d, r, "students")

\* refetch() gives up the fetch on its way, but only for a query that has data.
RefetchedOver(f, d, asked) ==
    [q \in Queries |-> IF q \in asked /\ (d[q] # {} \/ f[q] = Idle) THEN Asked ELSE f[q]]

Serve(q) ==
    /\ fetching[q] = Asked
    /\ fetching' = [fetching EXCEPT ![q] = Answered(Look(q))]
    /\ UNCHANGED <<serverVars, data, failed, page, token, starting, stage, toasts>>

-----------------------------------------------------------------------------
(* The stage                                                               *)

\* useReplay: status, cursor, and the length of the schedule that play took;
\* RunStage: what useOnChange saw last, and the refs wanted and played.
Fresh == [mounted |-> FALSE, seen |-> "unknown", status |-> "done", cursor |-> 0, times |-> 0,
          wanted |-> FALSE, played |-> FALSE]

Seen(d, r) ==
    CASE ~Known(d, r) -> "unknown" [] Running(d, r) -> "running" [] Terminal(d, r) -> "over"

schedule(d, r) ==
    IF Has(d, r, "rows") /\ ~Running(d, r) THEN Cardinality(Get(d, r, "rows").recorded) ELSE 0

play(s, d, r) ==
    IF schedule(d, r) = 0 THEN s
    ELSE [s EXCEPT !.status = "playing", !.cursor = 0, !.times = schedule(d, r)]

playWhenWanted(s, d, r) ==
    IF s.wanted /\ Ready(d, r) THEN play([s EXCEPT !.wanted = FALSE, !.played = TRUE], d, r) ELSE s

\* The home page's story starts a recorded run empty, and any run as asked
\* before it was mounted; a run's own page shows what there is.
Mount(at, d, r, asked) ==
    LET s == [Fresh EXCEPT !.mounted = TRUE, !.seen = Seen(d, r),
                           !.status = IF at = "home" /\ r = Recorded THEN "idle" ELSE "done",
                           !.wanted = at = "home" /\ asked]
    IN  playWhenWanted(s, d, r)

\* A new render of a stage, with data d: what was wanted is played when the
\* data it waited for is there.
Rendered(d, r) ==
    LET s == [stage EXCEPT !.seen = Seen(d, r)]
        changed == r # page.on \/ Ready(d, r) # Ready(data, r) \/ d[<<r, "rows">>] # data[<<r, "rows">>]
    IN  IF changed THEN playWhenWanted(s, d, r) ELSE s

\* useOnChange(run.is_terminal): the run was seen running, and is over.
Finishes(d, r) == stage.mounted /\ stage.seen = "running" /\ Terminal(d, r)
toastOnFinish == page.at = "run" \/ (page.at = "home" /\ page.on = Live)
RunSeen(d, r) ==
    RunRecord(r, story[r], Get(d, r, "run").status, Get(d, r, "run").evaluated)
\* toasts holds the announcements made so far.
Announced(d, r) ==
    IF Finishes(d, r) /\ toastOnFinish
    THEN toasts \cup {[run |-> r, says |-> toastOf(RunSeen(d, r))]}
    ELSE toasts

onTerminalJoining(d, f, r) ==    \* mutant: the poll on its way is what is waited for
    IF Finishes(d, r)
    THEN [q \in Queries |->
             IF q \in {<<r, "students">>, <<r, "rows">>} /\ f[q] = Idle THEN Asked ELSE f[q]]
    ELSE f
onTerminal(d, f, r) ==
    IF Finishes(d, r) THEN RefetchedOver(f, d, {<<r, "students">>, <<r, "rows">>}) ELSE f

\* RunPage renders its stage when the run is known and no error is, StorySection
\* always; the others have none.
ShowsStage(at, d, errors, r) ==
    CASE at = "home" -> TRUE
      [] at = "run"  -> Known(d, r) /\ <<r, "run">> \notin errors
      [] OTHER -> FALSE

\* What a page observes; GridCard and the stage need the run first.
Observed(at, d, errors, r) ==
    {<<r, kind>> : kind \in
        CASE at = "home" -> Kinds
          [] at = "run" -> {"run", "students"} \cup (IF ShowsStage(at, d, errors, r) THEN {"rows"} ELSE {})
          [] at = "compare" -> {"run"} \cup (IF Known(d, r) THEN {"students"} ELSE {})
          [] at = "away" -> {}}

\* A new observer fetches what is missing, and what has become stale, which the
\* rows of a run that is not known to run never do (staleTime).  To fetch again
\* what will not change any more is left out.
Missing(d, queries) == {q \in queries : d[q] = {}}
MayBeStale(d, queries) ==
    {q \in queries : /\ q[2] = "rows" => Running(d, q[1])
                     /\ server[q[1]].status \in Over => d[q] # {Look(q)}}

StageAfter(at, d, errors, r) ==
    CASE ~ShowsStage(at, d, errors, r) -> Fresh
      [] ShowsStage(at, d, errors, r) /\ stage.mounted -> Rendered(d, r)
      [] OTHER -> Mount(at, d, r, token)

-----------------------------------------------------------------------------
(* Answers                                                                 *)

\* A fetch joins the one that is on its way.
Ask(f, asked) == [q \in Queries |-> IF q \in asked /\ f[q] = Idle THEN Asked ELSE f[q]]

\* Query q gets the answer a, with f on its way: the page that shows its run
\* renders, and what that mounts fetches.
Update(q, a, f) ==
    LET r == q[1]
        d == [data EXCEPT ![q] = {a}]
        errors == failed \ {q}
        new == Observed(page.at, d, errors, r) \ Observed(page.at, data, failed, r)
        mounted == IF ShowsStage(page.at, d, errors, r) /\ ~stage.mounted
                   THEN Observed(page.at, d, errors, r) \ {q} ELSE new
    IN  /\ data' = d /\ failed' = errors
        /\ IF r # page.on \/ page.at = "away"
           THEN fetching' = f /\ UNCHANGED <<stage, toasts>>
           ELSE /\ stage' = StageAfter(page.at, d, errors, r)
                /\ toasts' = Announced(d, r)
                /\ \E stale \in SUBSET MayBeStale(d, mounted) :
                      fetching' = Ask(onTerminal(d, f, r), Missing(d, mounted) \cup stale)

Deliver(q) ==
    /\ fetching[q].step = "answered"
    /\ Update(q, fetching[q].with, [fetching EXCEPT ![q] = Idle])
    /\ UNCHANGED <<serverVars, page, token, starting>>

FetchFailsKeeping(q) ==    \* mutant: RunPage renders its stage whatever the error
    /\ fetching[q] # Idle
    /\ fetching' = [fetching EXCEPT ![q] = Idle]
    /\ failed' = failed \cup {q}
    /\ UNCHANGED <<serverVars, data, page, token, starting, stage, toasts>>
\* Six retries of a transient error later, or at once.
FetchFails(q) ==
    /\ fetching[q] # Idle
    /\ fetching' = [fetching EXCEPT ![q] = Idle]
    /\ failed' = failed \cup {q}
    /\ stage' = IF q[1] = page.on /\ ~ShowsStage(page.at, data, failed', q[1]) THEN Fresh ELSE stage
    /\ UNCHANGED <<serverVars, data, page, token, starting, toasts>>

\* refetchInterval of the queries that the page observes.
Polled(q) ==
    /\ q \in Observed(page.at, data, failed, page.on)
    /\ CASE q[2] = "run" -> ~Terminal(data, q[1])
         [] q[2] = "students" ->
              IF page.at = "run" THEN ~Terminal(data, q[1]) ELSE Running(data, q[1])
         [] q[2] = "rows" -> Running(data, q[1])
\* A poll is served when it is asked: an earlier one would see no more.
Poll(q) ==
    /\ Polled(q) /\ fetching[q] = Idle
    /\ fetching' = [fetching EXCEPT ![q] = Answered(Look(q))]
    /\ UNCHANGED <<serverVars, data, failed, page, token, starting, stage, toasts>>

-----------------------------------------------------------------------------
(* The visitor                                                             *)

\* The page at shows run r: what is mounted, and what that fetches.
Goes(at, r, asked) ==
    LET queries == Observed(at, data, failed, r)
        shows == ShowsStage(at, data, failed, r)
        keeps == at = "run" /\ page.at = "run" /\ shows /\ stage.mounted
    IN  /\ page' = [at |-> at, on |-> r]
        /\ stage' = CASE keeps -> Rendered(data, r)    \* only the runId of RunPage changes
                      [] ~keeps /\ shows -> Mount(at, data, r, asked)
                      [] OTHER -> Fresh
        /\ toasts' = IF keeps THEN Announced(data, r) ELSE toasts
        /\ \E stale \in SUBSET MayBeStale(data, queries) :
              LET f == Ask(fetching, Missing(data, queries) \cup stale)
              IN  fetching' = IF keeps THEN onTerminal(data, f, r) ELSE f

\* A link, or the browser's back button.  A start that is under way goes on.
Visit(at, r) ==
    /\ at # page.at \/ r # page.on
    /\ at = "home" => r = Recorded /\ page.at # "home"
    /\ at = "away" => r = page.on
    /\ Exists(r)
    /\ Goes(at, r, FALSE)
    /\ token' = FALSE
    /\ starting' = IF starting \in {"pending", "orphan"} THEN "orphan" ELSE "idle"
    /\ UNCHANGED <<serverVars, data, failed>>

\* watchRecorded.  Resetting a mutation forgets the callback it was given.
WatchRecorded ==
    /\ page.at = "home"
    /\ starting' = IF starting \in {"pending", "orphan"} THEN "orphan" ELSE "idle"
    /\ token' = TRUE
    /\ IF page.on = Recorded
       THEN /\ stage' = playWhenWanted([stage EXCEPT !.wanted = TRUE], data, Recorded)
            /\ UNCHANGED <<page, toasts, fetching>>
       ELSE Goes("home", Recorded, TRUE)
    /\ UNCHANGED <<serverVars, data, failed>>

\* The hero's "See what goes wrong" and Protect's "Replay the same test" count up
\* playToken for the stage of their processor.
AskReplay(processor) ==
    /\ page.at = "home" /\ story[Recorded].processor = processor
    /\ token' = TRUE
    /\ stage' = playWhenWanted([stage EXCEPT !.wanted = TRUE], data, page.on)
    /\ UNCHANGED <<serverVars, cacheVars, page, starting, toasts>>

SeeWhatGoesWrong == AskReplay("vulnerable")
ReplayProtected == AskReplay("protected")

\* goLive; one live run is followed.
GoLive ==
    /\ page.at = "home" /\ starting \in {"idle", "error"} /\ ~Exists(Live)
    /\ starting' = "pending"
    /\ UNCHANGED <<serverVars, cacheVars, page, token, stage, toasts>>

StartServed ==
    /\ starting \in {"pending", "orphan"} /\ ~Exists(Live)
    /\ server' = [server EXCEPT ![Live] = Begun]
    /\ UNCHANGED <<story, cacheVars, page, token, starting, stage, toasts>>

\* useStartRun puts the run it was told of in the cache, over whatever has been
\* fetched since; then StorySection shows it, if it still waits.
StartAnswered ==
    /\ starting \in {"pending", "orphan"} /\ Exists(Live)
    /\ starting' = "idle"
    /\ \/ starting = "orphan" /\ Update(<<Live, "run">>, Begun, fetching) /\ page' = page
       \/ /\ starting = "pending"
          /\ page' = [page EXCEPT !.on = Live]
          /\ data' = [data EXCEPT ![<<Live, "run">>] = {Begun}]
          /\ failed' = failed \ {<<Live, "run">>}
          /\ stage' = Mount("home", data', Live, token)
          /\ fetching' = Ask(fetching, Missing(data', Observed("home", data', failed', Live)))
          /\ UNCHANGED toasts
    /\ UNCHANGED <<serverVars, token>>

StartRefused ==
    /\ starting \in {"pending", "orphan"} /\ ~Exists(Live)
    /\ starting' = IF starting = "pending" THEN "error" ELSE "idle"
    /\ UNCHANGED <<serverVars, cacheVars, page, token, stage, toasts>>

\* useReplay's clock; a throttled tab catches up.
Tick ==
    /\ stage.status = "playing"
    /\ \E c \in stage.cursor + 1 .. stage.times :
          stage' = [stage EXCEPT !.cursor = c, !.status = IF c = stage.times THEN "done" ELSE @]
    /\ UNCHANGED <<serverVars, cacheVars, page, token, starting, toasts>>

\* The control bar, which a run that is known and shown has, and which has the
\* buttons of a replay unless the run is live.
HasButtons == stage.mounted /\ Terminal(data, page.on) /\ <<page.on, "run">> \notin failed
Clicked(s) ==
    /\ HasButtons
    /\ stage' = s
    /\ UNCHANGED <<serverVars, cacheVars, page, token, starting, toasts>>

Skip == stage.status = "playing" /\ Clicked([stage EXCEPT !.status = "done"])
PlayClick ==
    /\ stage.status # "playing" /\ Ready(data, page.on)
    /\ Clicked(play([stage EXCEPT !.played = TRUE], data, page.on))
\* A click on the speed that is already chosen changes no schedule: what is
\* wanted waits for the next thing that does.
changeSpeed(other) ==
    LET s == [stage EXCEPT !.wanted = TRUE, !.played = TRUE]
    IN  Clicked(IF other THEN playWhenWanted(s, data, page.on) ELSE s)

\* autoplayOnView
ScrollIntoView ==
    /\ page.at = "home" /\ page.on = Recorded
    /\ Ready(data, Recorded) /\ ~stage.played
    /\ Clicked(play([stage EXCEPT !.played = TRUE], data, Recorded))

\* ErrorState: onRetry
Retry ==
    /\ page.at \in {"home", "run"} /\ <<page.on, "run">> \in failed
    /\ fetching' = RefetchedOver(fetching, data, {<<page.on, "run">>})
    /\ UNCHANGED <<serverVars, data, failed, page, token, starting, stage, toasts>>

-----------------------------------------------------------------------------
(* The specification.  Queries, answers and the backend go on by           *)
(* themselves; what the visitor does and what fails is bounded by scope.   *)

Init ==
    \E scope \in Scopes :
        /\ story = scope.story
        /\ server = [r \in Runs |->
              IF r # Live
              THEN [status |-> "COMPLETED", evaluated |-> TRUE, recorded |-> Whole(r)]
              ELSE CASE scope.live = "absent" -> Absent
                     [] scope.live = "begun" -> Begun
                     [] scope.live = "handled" -> [Begun EXCEPT !.recorded = Whole(r)]]
        /\ data = [q \in Queries |-> IF scope.loaded /\ q[1] = Recorded THEN {Look(q)} ELSE {}]
        /\ failed = {}
        /\ page = [at |-> scope.at, on |-> scope.on]
        /\ token = FALSE /\ starting = "idle" /\ toasts = {}
        /\ stage = IF ShowsStage(scope.at, data, {}, scope.on)
                   THEN Mount(scope.at, data, scope.on, FALSE) ELSE Fresh
        /\ fetching = Ask([q \in Queries |-> Idle],
                          Missing(data, Observed(scope.at, data, {}, scope.on)))
        /\ left = [kind \in {"moves", "clicks", "errors", "faults"} |-> scope[kind]]

Spend(kind) == left[kind] > 0 /\ left' = [left EXCEPT ![kind] = @ - 1]

Backend ==
    /\ \E r \in Runs : \/ (RecordRow(r) \/ Evaluate(r) \/ GenerateReceipt(r)) /\ UNCHANGED left
                       \/ MarkFailed(r) /\ Spend("faults")
    /\ UNCHANGED <<story, cacheVars, page, token, starting, stage, toasts>>

Query(q) == (Serve(q) \/ Deliver(q) \/ Poll(q)) /\ UNCHANGED left
Ticks == Tick /\ UNCHANGED left
Starts == (StartServed \/ StartAnswered) /\ UNCHANGED left

Visitor ==
    \/ \E at \in Pages, r \in Runs : Visit(at, r) /\ Spend("moves")
    \/ ScrollIntoView /\ UNCHANGED left
    \/ /\ \/ WatchRecorded \/ GoLive \/ Skip \/ PlayClick \/ Retry
          \/ SeeWhatGoesWrong \/ ReplayProtected
          \/ \E other \in BOOLEAN : changeSpeed(other)
       /\ Spend("clicks")

Fault ==
    \/ (\E q \in Queries : FetchFails(q)) /\ Spend("errors")
    \/ StartRefused /\ UNCHANGED left      \* its click was counted

Next ==
    \/ Backend \/ Ticks \/ Starts \/ Visitor \/ Fault
    \/ \E q \in Queries : Query(q)

Spec == Init /\ [][Next]_vars

\* The workflow goes on (RunWorkflow says under which faults it does), the
\* replay's clock and a start do, none of them without end; every query of the
\* live run is answered, and polled by its timer (of others nothing is promised).
FairSpec ==
    /\ Spec /\ WF_vars(Backend \/ Ticks \/ Starts)
    /\ \A q \in {Live} \X Kinds : WF_vars(Query(q))

-----------------------------------------------------------------------------
(* What the visitor sees                                                   *)

SeenRows(r) == RowsAt(story[r].rows, Get(data, r, "rows").recorded)
SeenTiles(r) ==
    LET a == Get(data, r, "students") IN studentTiles(RowsAt(story[r].rows, a.recorded), a.evaluated)

cursor ==
    CASE Running(data, page.on) \/ stage.status = "done" -> Len(SeenRows(page.on))
      [] OTHER -> stage.cursor
complete == Terminal(data, page.on) /\ stage.status = "done"

Loaded(r) == Known(data, r) /\ Has(data, r, "rows") /\ Has(data, r, "students")
Watching(r) == stage.mounted /\ page.on = r
\* The stage shows all of the run's rows, and its students as they ended.
ShowsAll(r) ==
    /\ Watching(r) /\ Loaded(r) /\ complete
    /\ Get(data, r, "rows").recorded = server[r].recorded
    /\ Get(data, r, "students").recorded = server[r].recorded
    /\ Get(data, r, "students").evaluated = server[r].evaluated

StageTypeOK ==
    /\ story \in [Runs -> Scripts]
    /\ server \in [Runs -> [status : Statuses, evaluated : BOOLEAN, recorded : SUBSET Nat]]
    /\ \A q \in Queries : Cardinality(data[q]) <= 1 /\ fetching[q].step \in {"idle", "asked", "answered"}
    /\ failed \subseteq Queries
    /\ page \in [at : Pages, on : Runs]
    /\ token \in BOOLEAN /\ starting \in {"idle", "pending", "orphan", "error"}
    /\ stage.status \in {"idle", "playing", "done"} /\ stage.cursor \in 0 .. stage.times
    /\ stage.mounted => ShowsStage(page.at, data, failed, page.on)

\* A toast says of its run what the backend has recorded of it, of a run that
\* is over, whichever answers came late or twice (RunStage.tsx, onTerminal).
ToastsTellTheTruth ==
    \A t \in toasts :
        LET run == RunRecord(t.run, story[t.run], server[t.run].status, server[t.run].evaluated)
        IN  t.says = CASE run.status = "FAILED" -> "without a verdict"
                       [] run.status = "COMPLETED" /\ run.verdict = "PASS" -> "verified"
                       [] run.status = "COMPLETED" /\ run.verdict = "FAIL" -> "failed"
                       [] OTHER -> "nothing yet"

\* Who watches a run from when its rows and students have loaded to its end
\* sees all of it, and its students' final state, although the last polls are
\* older than the end; unless a request failed for good or they leave.
WatchedToTheEndIsWhole ==
    (Watching(Live) /\ Running(data, Live) /\ Loaded(Live))
        ~> (ShowsAll(Live) \/ ~Watching(Live) \/ failed # {})

\* The theater counts rows in the browser; the verdict's numbers come from the
\* evaluator.  When both are shown of the whole run, they agree.
TheaterAgreesWithVerdict ==
    LET r == page.on
        run == RunSeen(data, r)
        rows == SeenRows(r)
        students == SeenTiles(r)
        s == run.summary
        all == RunTheater(run, {students}, {rows}, cursor, complete, {}, FALSE)
        state == CHOOSE x \in all.state : TRUE
        why == WhyItFailed(run, rows)
        climax == Climax(run)
    IN  (Watching(r) /\ Loaded(r) /\ run.verdict # None /\ ShowsAll(r)) =>
        /\ all.tiles = {state.tiles} /\ state.tiles = students
        /\ all.legend = {[paid_once |-> s.paid_once, paid_twice |-> s.double_paid,
                          unpaid |-> s.unpaid, pending |-> 0]}
        /\ BudgetBar(state).first + BudgetBar(state).repeat = s.spent
        /\ BudgetBar(state).repeat = climax.misallocated
        /\ Counters(run, state).arrived[1] = s.deliveries
        /\ Counters(run, state).payments[1] = s.ledger_effects
        /\ Counters(run, state).twice = climax.paidTwice
        /\ Counters(run, state).zero = climax.unpaid
        /\ state.repeatsRefused = climax.repeatsRefused
        /\ FlowStrip(run, state, TRUE).refused + FlowStrip(run, state, TRUE).payments = s.deliveries
        /\ run.verdict = "FAIL" =>
              /\ (why.doublePaid # {}) = (climax.paidTwice > 0)
              /\ (why.unpaid # {}) = (climax.unpaid > 0) /\ why.zero = climax.unpaid
              /\ why.doublePaid \subseteq In(students, "paid_twice")
              /\ why.unpaid \subseteq In(students, "unpaid")
              /\ climax.sentence # "a check failed"

\* A live grid does not take back what it has shown.  A student who was shown
\* as paid is not shown as waiting or unpaid by rows that come in later.
Rank(state) == CASE state = "pending" -> 0 [] state = "unpaid" -> 1
                 [] state = "paid_once" -> 2 [] state = "paid_twice" -> 3
TilesOnlyAdvance ==
    [][\A r \in Runs : (Watching(r) /\ Watching(r)' /\ Loaded(r) /\ Running(data, r) /\ Running(data', r)) =>
          \A e \in Entitlements :
             Rank(deriveTheater(SeenRows(r), cursor).tiles[e])
                <= Rank(deriveTheater(SeenRows(r)', cursor').tiles[e])]_<<data, page, stage>>

\* The grid that can show the runs of a pair carries the badge of the one it shows.
BadgeIsOfTheGrid(run, tiles, other, swap) ==
    LET alternate == [run |-> other, tiles |-> {studentTiles(story[other.run_id].rows, TRUE)}]
        shown == RunTheater(run, {tiles}, {}, 0, TRUE, {alternate}, swap)
        badge == ProcessorToggle(swap, run, other)
    IN  /\ badge.of = shown.shown
        /\ shown.glow = "fail" => \E t \in shown.tiles : affected(t) # {}
        /\ badge.of.processor = "vulnerable" =>
              \A t \in shown.tiles :
                 badge.figures = <<Cardinality(In(t, "paid_twice")), Cardinality(In(t, "unpaid"))>>

Shown(r) == Known(data, r) /\ Get(data, r, "run").status = "COMPLETED"
\* GET /runs, as far as the visitor has seen its runs end.
Listed == SetToSeq({RunSeen(data, r) : r \in {x \in Runs : Shown(x)}})

\* "My runs", Compare, the receipt and the path through AWS.
FiguresAgree(run, rows) ==
    LET s == run.summary
        tiles == studentTiles(rows, TRUE)
        metric == METRIC_ROWS(run)
        receipt == ReceiptPage(run, rows)
        counts == CountsTable(receipt.summary)
    IN  /\ RunOutcomeBadge(run) = run.verdict /\ receipt.verdict = run.verdict
        /\ statusOf(run) = IF VerificationPill(run).says = "Integrity verified" THEN "passed" ELSE "failed"
        /\ VerificationPill(run).receipt = (receipt.shows = "receipt")
        /\ receipt.summary = s
        /\ (run.verdict = "PASS") = ("FAIL" \notin {metric.one_payment, metric.every_paid[1], metric.budget_guard})
        /\ run.verdict = "PASS" => affected(tiles) = {} /\ Side(run).figures = <<0, 0, 0>>
        /\ GridCard(run, {tiles}).counts =
              {[paid_once |-> metric.paid_once[1], paid_twice |-> Side(run).figures[1],
                unpaid |-> Side(run).figures[2], pending |-> 0]}
        /\ counts.effects + counts.refused + counts.broke = Len(rows)
        /\ counts.once + counts.twice + counts.zero = metric.paid_once[2]
        /\ \A e \in Entitlements :
              (HistoryRows({run}, statusOf(run), {e}) # {}) = (e \in affected(tiles))
        /\ ServicePath(run, 0).process = {metric.deliveries}
        /\ \A processed \in ServicePath(run, 0).record : processed[1] + processed[2] = Len(rows)

\* The drawers of the students, one by one.
StudentsAgree(run, rows) ==
    LET tiles == studentTiles(rows, TRUE)
        drawer(e) == StudentDrawer(student_detail(run, rows, e), {})
        received == [e \in Entitlements |-> drawer(e).figures[1]]
    IN  /\ Total(received, Entitlements) = METRIC_ROWS(run).effects
        /\ \A e \in Entitlements :
              /\ \A column \in drawer(e).columns :
                    /\ column.received = drawer(e).figures[1]
                    /\ (drawer(e).status = "paid_twice") = (\E i \in DOMAIN column.results : column.results[i] = "twice")
              /\ drawer(e).cause \in
                    {<<"the repeats used the budget", inspect(rows).repeatPayments>>,
                     <<"pays every instruction">>, <<"the record already existed">>, <<>>}
              /\ tiles[e] = "unpaid" =>
                    /\ drawer(e).whyNothing
                    /\ drawer(e).paidMeanwhile = In(tiles, "paid_twice")

\* The run and its sibling, which Compare, the home page and the theater pair.
PairAgrees(run, rows) ==
    LET pair == pairFor(Listed, run.fingerprint)
        siblings == useSiblingRun(run, Listed)
    IN  /\ (SameTestCard(pair).says = "match") = (siblings # {})
        /\ SameTestCard(pair).replay => \A b \in pair.protected :
              \A a \in ProveActions(b, pair).a : MatchBanner(a, b) = "only the processor changed"
        /\ \A other \in siblings, swap \in BOOLEAN :
              /\ useSiblingRun(other, Listed) # {}
              /\ \A back \in useSiblingRun(other, Listed) : MatchBanner(back, run) = "same test, same processor"
              /\ BadgeIsOfTheGrid(run, studentTiles(rows, TRUE), other, swap)

\* What the pages say of a run that is done is one thing: its badge, its entry
\* in "My runs", the figures of Compare, the grid, the students one by one, the
\* file of those affected, the receipt and the path through AWS agree, although
\* some count rows, some tiles, and some read the summary.
PagesAgree ==
    \A r \in Runs : Shown(r) =>
        /\ FiguresAgree(RunSeen(data, r), story[r].rows)
        /\ StudentsAgree(RunSeen(data, r), story[r].rows)
        /\ PairAgrees(RunSeen(data, r), story[r].rows)

\* A run without a verdict is shown without one (RunTheater.tsx:821): what the
\* page says of a run that failed is not a verdict.
NoVerdictWhenFailed ==
    \A r \in Runs : (Known(data, r) /\ Get(data, r, "run").status = "FAILED") =>
        RunOutcomeBadge(RunSeen(data, r)) \notin {"PASS", "FAIL"}
=============================================================================
