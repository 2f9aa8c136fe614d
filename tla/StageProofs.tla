---------------------------- MODULE StageProofs ----------------------------
(***************************************************************************)
(* What a visitor's page owes the run it shows (RunStage), for any number  *)
(* of runs, of rows, of clicks and of failed requests.  The cache may hold *)
(* old answers, and older ones may be on their way; the invariant says     *)
(* that an answer that calls a run over is never one of them (StageInv),   *)
(* and that rows are never taken back (RowsInv).  What the pages compute   *)
(* from a run's rows is then compared by the lemmas of TheaterProofs.      *)
(***************************************************************************)
EXTENDS RunStage, TheaterProofs

\* What the cache may hold of a run, and the stages: no replay is beyond its schedule.
Answers ==
    {a \in [status : Statuses, evaluated : BOOLEAN, recorded : SUBSET Nat] : IsFiniteSet(a.recorded)}
Stages ==
    {s \in [mounted : BOOLEAN, seen : {"unknown", "running", "over"},
            status : {"idle", "playing", "done"}, cursor : Nat, times : Nat,
            wanted : BOOLEAN, played : BOOLEAN] : s.cursor <= s.times}

\* Types of the cache and of the fetches.
CacheOK(d) ==
    /\ d \in [Queries -> SUBSET Answers]
    /\ \A q \in Queries : \A a, b \in d[q] : a = b    \* {} or one
FetchingOK(f) == f \in [Queries -> [step : {"idle", "asked", "answered"}, with : Answers]]

\* An answer that calls run r over is what the backend would answer now.
Final(r, a) ==
    a.status \in Over => a.status = server[r].status /\ a.evaluated = server[r].evaluated
\* The answers that the visitor has, and those he is about to get.
FinalInCache(d) == \A r \in Runs : \A a \in d[<<r, "run">>] : Final(r, a)
FinalOnItsWay(f) ==
    \A r \in Runs : f[<<r, "run">>].step = "answered" => Final(r, f[<<r, "run">>].with)

\* The backend: a completed run was evaluated.
BackendOK ==
    /\ story \in [Runs -> Scripts]
    /\ server \in [Runs -> Answers]
    /\ \A r \in Runs : server[r].status = "COMPLETED" => server[r].evaluated

\* The page, and the stage only where it shows one.
PageOK ==
    /\ page \in [at : Pages, on : Runs]
    /\ failed \subseteq Queries
    /\ token \in BOOLEAN /\ starting \in {"idle", "pending", "orphan", "error"}
    /\ starting = "pending" => page.at = "home"
    /\ stage \in Stages
    /\ stage.mounted => ShowsStage(page.at, data, failed, page.on)

\* What an announcement was made of holds for ever.
ToastOK(t) ==
    /\ t.run \in Runs /\ server[t.run].status \in Over
    /\ t.says = toastOf(RunRecord(t.run, story[t.run], server[t.run].status, server[t.run].evaluated))
\* The announcements so far.
ToastsOK == \A t \in toasts : ToastOK(t)

\* Cache and fetches.
AnswersOK ==
    /\ CacheOK(data) /\ FetchingOK(fetching)
    /\ FinalInCache(data) /\ FinalOnItsWay(fetching)

\* The first half of the invariant.
StageInv == BackendOK /\ AnswersOK /\ PageOK /\ ToastsOK
-----------------------------------------------------------------------------
(* Answers and the cache                                                   *)

\* Absent, Begun and the empty fetches are answers as the cache knows them.
LEMMA NoRowsIsAnAnswer ==
    Absent \in Answers /\ Begun \in Answers
BY FS_EmptySet DEF Absent, Begun, Answers, Statuses

\* An answer is a record of what the backend knows, and final when it says so.
LEMMA LookTells ==
    ASSUME BackendOK, NEW q \in Queries
    PROVE  /\ Look(q) \in Answers
           /\ q[2] = "run" => Final(q[1], Look(q))
<1>1. /\ q[1] \in Runs /\ q[2] \in Kinds
      /\ server[q[1]] \in Answers
  BY DEF Queries, BackendOK
<1>2. q[2] = "run" \/ q[2] = "students" \/ q[2] = "rows"
  BY <1>1 DEF Kinds
<1>3. IsFiniteSet({})
  BY FS_EmptySet
<1>4. CASE q[2] = "run"
  BY <1>1, <1>3, <1>4 DEF Look, Answers, Final
<1>5. CASE q[2] = "students"
  BY <1>1, <1>5 DEF Look, Answers, Statuses
<1>6. CASE q[2] = "rows"
  BY <1>1, <1>6 DEF Look, Answers, Statuses
<1> QED
  BY <1>2, <1>4, <1>5, <1>6

\* What the cache has of a query is an answer to it.
LEMMA GetIsCached ==
    ASSUME NEW d, CacheOK(d), NEW r \in Runs, NEW kind \in Kinds, Has(d, r, kind)
    PROVE  Get(d, r, kind) \in d[<<r, kind>>] /\ Get(d, r, kind) \in Answers
<1>1. <<r, kind>> \in Queries /\ d[<<r, kind>>] \subseteq Answers
  BY DEF Queries, CacheOK
<1> QED
  BY <1>1 DEF Has, Get

\* Asking for more takes nothing from an answer that is on its way.
LEMMA AskKeeps ==
    ASSUME NEW f, FetchingOK(f), FinalOnItsWay(f), NEW asked
    PROVE  FetchingOK(Ask(f, asked)) /\ FinalOnItsWay(Ask(f, asked))
<1>1. Asked \in [step : {"idle", "asked", "answered"}, with : Answers] /\ Asked.step = "asked"
  BY NoRowsIsAnAnswer DEF Asked
<1>2. \A r \in Runs : <<r, "run">> \in Queries
  BY DEF Queries, Kinds
<1> HIDE DEF Asked
<1> QED
  BY <1>1, <1>2 DEF FetchingOK, FinalOnItsWay, Ask

\* Fetching again what is there, asks only.
LEMMA RefetchKeeps ==
    ASSUME NEW f, NEW d, FetchingOK(f), FinalOnItsWay(f), NEW asked
    PROVE  FetchingOK(RefetchedOver(f, d, asked)) /\ FinalOnItsWay(RefetchedOver(f, d, asked))
<1>1. Asked \in [step : {"idle", "asked", "answered"}, with : Answers] /\ Asked.step = "asked"
  BY NoRowsIsAnAnswer DEF Asked
<1>2. \A r \in Runs : <<r, "run">> \in Queries
  BY DEF Queries, Kinds
<1> HIDE DEF Asked
<1> QED
  BY <1>1, <1>2 DEF FetchingOK, FinalOnItsWay, RefetchedOver

\* So does what a page does at the end of its run.
LEMMA OnTerminalKeeps ==
    ASSUME NEW f, NEW d, NEW r, FetchingOK(f), FinalOnItsWay(f)
    PROVE  FetchingOK(onTerminal(d, f, r)) /\ FinalOnItsWay(onTerminal(d, f, r))
BY RefetchKeeps DEF onTerminal

-----------------------------------------------------------------------------
(* The stage                                                               *)

\* A replay plays as many rows as it has, and mounts or unmounts nothing.
LEMMA PlayIsAStage ==
    ASSUME NEW s \in Stages, NEW d, CacheOK(d), NEW r \in Runs
    PROVE  play(s, d, r) \in Stages /\ play(s, d, r).mounted = s.mounted
<1>1. schedule(d, r) \in Nat
  <2>1. "rows" \in Kinds
    BY DEF Kinds
  <2>2. Has(d, r, "rows") => IsFiniteSet(Get(d, r, "rows").recorded)
    BY <2>1, GetIsCached DEF Answers
  <2> QED
    BY <2>2, FS_CardinalityType DEF schedule
<1> DEFINE playing == [s EXCEPT !.status = "playing"]
           rewound == [playing EXCEPT !.cursor = 0]
           n == schedule(d, r)
           scheduled == [rewound EXCEPT !.times = n]
<1>2. playing \in Stages /\ playing.mounted = s.mounted
  BY DEF Stages
<1> HIDE DEF playing
<1>3. rewound \in Stages /\ rewound.mounted = s.mounted /\ rewound.cursor = 0
  BY <1>2 DEF Stages
<1> HIDE DEF rewound, n
<1>4. scheduled \in Stages /\ scheduled.mounted = s.mounted
  BY <1>1, <1>3 DEF Stages, n
<1>5. scheduled = [s EXCEPT !.status = "playing", !.cursor = 0, !.times = schedule(d, r)]
  BY DEF rewound, playing, n
<1> HIDE DEF scheduled
<1> QED
  BY <1>4, <1>5 DEF play

\* The effect that plays what was asked for keeps the stage one.
LEMMA PlayWhenWantedIsAStage ==
    ASSUME NEW s \in Stages, NEW d, CacheOK(d), NEW r \in Runs
    PROVE  playWhenWanted(s, d, r) \in Stages /\ playWhenWanted(s, d, r).mounted = s.mounted
<1> DEFINE t == [s EXCEPT !.wanted = FALSE, !.played = TRUE]
<1>1. t \in Stages /\ t.mounted = s.mounted
  BY DEF Stages
<1> HIDE DEF t
<1>2. play(t, d, r) \in Stages /\ play(t, d, r).mounted = s.mounted
  BY <1>1, PlayIsAStage
<1> QED
  BY <1>2 DEF playWhenWanted, t

\* What a stage has seen of its run.
LEMMA SeenIsTyped ==
    ASSUME NEW d, NEW r
    PROVE  Seen(d, r) \in {"unknown", "running", "over"}
BY DEF Seen, Running, Terminal

\* No stage at all.
LEMMA FreshIsAStage == Fresh \in Stages /\ ~Fresh.mounted
BY DEF Fresh, Stages

\* A stage that was just mounted.
LEMMA MountIsAStage ==
    ASSUME NEW at, NEW d, CacheOK(d), NEW r \in Runs, NEW asked \in BOOLEAN
    PROVE  Mount(at, d, r, asked) \in Stages
<1> DEFINE s == [Fresh EXCEPT !.mounted = TRUE, !.seen = Seen(d, r),
                              !.status = IF at = "home" /\ r = Recorded THEN "idle" ELSE "done",
                              !.wanted = at = "home" /\ asked]
<1>1. s \in Stages
  <2> DEFINE opened == [Fresh EXCEPT !.mounted = TRUE]
             told == [opened EXCEPT !.seen = Seen(d, r)]
             begun == [told EXCEPT !.status = IF at = "home" /\ r = Recorded THEN "idle" ELSE "done"]
  <2>1. opened \in Stages
    BY FreshIsAStage DEF Stages
  <2> HIDE DEF opened
  <2>2. told \in Stages
    BY <2>1, SeenIsTyped DEF Stages
  <2> HIDE DEF told
  <2>3. begun \in Stages
    BY <2>2 DEF Stages
  <2> HIDE DEF begun
  <2>4. [begun EXCEPT !.wanted = at = "home" /\ asked] \in Stages
    <3>1. (at = "home" /\ asked) \in BOOLEAN
      OBVIOUS
    <3>2. \A wanted \in BOOLEAN : [begun EXCEPT !.wanted = wanted] \in Stages
      BY <2>3 DEF Stages
    <3> QED
      BY <3>1, <3>2
  <2> QED
    BY <2>4 DEF begun, told, opened
<1> HIDE DEF s
<1>2. playWhenWanted(s, d, r) \in Stages
  BY <1>1, PlayWhenWantedIsAStage
<1> QED
  BY <1>2 DEF Mount, s

\* A stage rendered with other data.
LEMMA RenderedIsAStage ==
    ASSUME stage \in Stages, NEW d, CacheOK(d), NEW r \in Runs
    PROVE  Rendered(d, r) \in Stages
<1> DEFINE s == [stage EXCEPT !.seen = Seen(d, r)]
<1>1. s \in Stages
  BY SeenIsTyped DEF Stages
<1> HIDE DEF s
<1>2. playWhenWanted(s, d, r) \in Stages
  BY <1>1, PlayWhenWantedIsAStage
<1> QED
  BY <1>1, <1>2 DEF Rendered, s

\* The stage is mounted where its page shows it, and nowhere else.
LEMMA StageAfterIsAStage ==
    ASSUME stage \in Stages, token \in BOOLEAN, NEW at, NEW d, CacheOK(d), NEW errors, NEW r \in Runs
    PROVE  /\ StageAfter(at, d, errors, r) \in Stages
           /\ StageAfter(at, d, errors, r).mounted => ShowsStage(at, d, errors, r)
<1>1. Mount(at, d, r, token) \in Stages
  BY MountIsAStage
<1>2. Rendered(d, r) \in Stages
  BY RenderedIsAStage
<1> QED
  BY <1>1, <1>2, FreshIsAStage DEF StageAfter

\* What is announced of a run is what the backend has recorded of it for good.
LEMMA AnnouncedIsTrue ==
    ASSUME BackendOK, ToastsOK, NEW d, CacheOK(d), FinalInCache(d), NEW r \in Runs
    PROVE  \A t \in Announced(d, r) : ToastOK(t)
<1>1. CASE ~(Finishes(d, r) /\ toastOnFinish)
  BY <1>1 DEF Announced, ToastsOK
<1>2. CASE Finishes(d, r) /\ toastOnFinish
  <2> DEFINE a == Get(d, r, "run")
  <2>1. Has(d, r, "run") /\ a.status \in Over
    BY <1>2 DEF Finishes, Terminal, Known
  <2>2. "run" \in Kinds
    BY DEF Kinds
  <2>3. a \in d[<<r, "run">>]
    BY <2>1, <2>2, GetIsCached
  <2>4. Final(r, a)
    BY <2>3 DEF FinalInCache
  <2>5. a.status = server[r].status /\ a.evaluated = server[r].evaluated
    BY <2>1, <2>4 DEF Final
  <2>6. ToastOK([run |-> r, says |-> toastOf(RunSeen(d, r))])
    BY <2>1, <2>5 DEF ToastOK, RunSeen
  <2> QED
    BY <1>2, <2>6 DEF Announced, ToastsOK
<1> QED
  BY <1>1, <1>2

-----------------------------------------------------------------------------
(* The steps                                                               *)

\* What is there when the visitor comes.
LEMMA InitialStage == Init => StageInv
<1> SUFFICES ASSUME Init PROVE StageInv
  OBVIOUS
<1>1. PICK scope \in Scopes :
        /\ story = scope.story
        /\ server = [r \in Runs |->
              IF r # Live
              THEN [status |-> "COMPLETED", evaluated |-> TRUE, recorded |-> Whole(r)]
              ELSE CASE scope.live = "absent" -> Absent
                     [] scope.live = "begun" -> Begun
                     [] scope.live = "handled" -> [Begun EXCEPT !.recorded = Whole(r)]]
        /\ data = [q \in Queries |-> IF scope.loaded /\ q[1] = Recorded THEN {Look(q)} ELSE {}]
        /\ failed = {}
        /\ page = [at |-> scope.at, on |-> scope.on]
        /\ token = FALSE /\ starting = "idle" /\ toasts = {}
        /\ stage = IF ShowsStage(scope.at, data, {}, scope.on)
                   THEN Mount(scope.at, data, scope.on, FALSE) ELSE Fresh
        /\ fetching = Ask([q \in Queries |-> Idle],
                          Missing(data, Observed(scope.at, data, {}, scope.on)))
  BY DEF Init
<1>2. /\ scope.story \in [Runs -> Scripts] /\ scope.at \in Pages /\ scope.on \in Runs
      /\ scope.live \in {"absent", "begun", "handled"}
  BY StageAssumption
<1>3. BackendOK
  <2>1. story \in [Runs -> Scripts]
    BY <1>1, <1>2
  <2>2. ASSUME NEW r \in Runs
        PROVE  server[r] \in Answers /\ (server[r].status = "COMPLETED" => server[r].evaluated)
    <3>1. IsFiniteSet(Whole(r)) /\ Whole(r) \subseteq Nat
      <4>1. story[r].rows \in Seq(DeliveryRows)
        BY <2>1 DEF Scripts
      <4>2. Whole(r) = 1 .. Len(story[r].rows) /\ Len(story[r].rows) \in Nat
        BY <4>1 DEF Whole
      <4> QED
        BY <4>2, FS_Interval
    <3> DEFINE w == Whole(r)
    <3> HIDE DEF w
    <3>2. /\ [status |-> "COMPLETED", evaluated |-> TRUE, recorded |-> w] \in Answers
          /\ [Begun EXCEPT !.recorded = w] \in Answers
          /\ [Begun EXCEPT !.recorded = w].status = "RUNNING"
      BY <3>1 DEF w, Begun, Absent, Answers, Statuses
    <3>3. Absent.status = "QUEUED" /\ Begun.status = "RUNNING"
      BY DEF Absent, Begun
    <3> QED
      BY <1>1, <1>2, <3>2, <3>3, NoRowsIsAnAnswer DEF w
  <2>3. server \in [Runs -> Answers]
    <3> DEFINE entry(r) ==
              IF r # Live
              THEN [status |-> "COMPLETED", evaluated |-> TRUE, recorded |-> Whole(r)]
              ELSE CASE scope.live = "absent" -> Absent
                     [] scope.live = "begun" -> Begun
                     [] scope.live = "handled" -> [Begun EXCEPT !.recorded = Whole(r)]
    <3>1. server = [r \in Runs |-> entry(r)]
      BY <1>1
    <3> HIDE DEF Answers, entry
    <3> QED
      BY <2>2, <3>1
  <2> QED
    BY <2>1, <2>2, <2>3 DEF BackendOK
<1>4. CacheOK(data) /\ FinalInCache(data)
  <2>1. CacheOK(data)
    BY <1>1, <1>3, LookTells DEF CacheOK
  <2>2. ASSUME NEW r \in Runs, NEW a \in data[<<r, "run">>]
        PROVE  Final(r, a)
    <3>1. <<r, "run">> \in Queries
      BY DEF Queries, Kinds
    <3>2. a = Look(<<r, "run">>)
      BY <1>1, <3>1
    <3> QED
      BY <1>3, <3>1, <3>2, LookTells
  <2> QED
    BY <2>1, <2>2 DEF FinalInCache
<1>5. FetchingOK(fetching) /\ FinalOnItsWay(fetching)
  <2> DEFINE f == [q \in Queries |-> Idle]
  <2>1. Idle \in [step : {"idle", "asked", "answered"}, with : Answers] /\ Idle.step = "idle"
    BY NoRowsIsAnAnswer DEF Idle
  <2>2. FetchingOK(f)
    BY <2>1 DEF FetchingOK
  <2>3. FinalOnItsWay(f)
    BY <2>1 DEF FinalOnItsWay, Queries, Kinds
  <2> HIDE DEF f
  <2>4. /\ FetchingOK(Ask(f, Missing(data, Observed(scope.at, data, {}, scope.on))))
        /\ FinalOnItsWay(Ask(f, Missing(data, Observed(scope.at, data, {}, scope.on))))
    BY <2>2, <2>3, AskKeeps
  <2> QED
    BY <1>1, <2>4 DEF f
<1>6. PageOK
  <2>1. Mount(scope.at, data, scope.on, FALSE) \in Stages
    BY <1>2, <1>4, MountIsAStage
  <2>2. stage \in Stages /\ (stage.mounted => ShowsStage(scope.at, data, {}, scope.on))
    BY <1>1, <2>1, FreshIsAStage
  <2> QED
    BY <1>1, <1>2, <2>2 DEF PageOK
<1> QED
  BY <1>1, <1>3, <1>4, <1>5, <1>6 DEF StageInv, AnswersOK, ToastsOK

\* The backend changes nothing that an answer or an announcement took as final.
Settled ==
    \A r \in Runs : server[r].status \in Over =>
        server'[r].status = server[r].status /\ server'[r].evaluated = server[r].evaluated

\* What the backend does behind the visitor's back.
LEMMA BackendKeeps ==
    ASSUME StageInv, BackendOK', Settled, UNCHANGED <<story, cacheVars, page, token, starting, stage, toasts>>
    PROVE  StageInv'
<1>1. ASSUME NEW r \in Runs, NEW a, Final(r, a)
      PROVE  Final(r, a)'
  BY <1>1 DEF Settled, Final
<1>2. FinalInCache(data)'
  BY <1>1 DEF StageInv, AnswersOK, FinalInCache, cacheVars
<1>3. FinalOnItsWay(fetching)'
  BY <1>1 DEF StageInv, AnswersOK, FinalOnItsWay, cacheVars
<1>4. CacheOK(data)' /\ FetchingOK(fetching)'
  BY DEF StageInv, AnswersOK, cacheVars, CacheOK, FetchingOK
<1>5. PageOK'
  BY DEF StageInv, PageOK, cacheVars, ShowsStage, Known, Has
<1>6. ToastsOK'
  BY DEF StageInv, ToastsOK, ToastOK, Settled
<1> QED
  BY <1>2, <1>3, <1>4, <1>5, <1>6 DEF StageInv, AnswersOK

\* A status that is final stays, and is reached with the evaluation it needs.
LEMMA BackendIsSettled ==
    ASSUME BackendOK, NEW r \in Runs, UNCHANGED story,
           RecordRow(r) \/ Evaluate(r) \/ GenerateReceipt(r) \/ MarkFailed(r)
    PROVE  BackendOK' /\ Settled
<1> USE DEF BackendOK
<1>0. server[r] \in Answers
  OBVIOUS
<1>1. CASE RecordRow(r)
  <2>1. PICK i \in Whole(r) : server' = [server EXCEPT ![r].recorded = @ \cup {i}]
    BY <1>1 DEF RecordRow
  <2>2. i \in Nat
    BY DEF Whole, Scripts
  <2> DEFINE new == [server[r] EXCEPT !.recorded = @ \cup {i}]
  <2>3. IsFiniteSet(server[r].recorded \cup {i})
    BY <1>0, FS_AddElement DEF Answers
  <2>4. new \in Answers /\ new.status = server[r].status /\ new.evaluated = server[r].evaluated
    BY <1>0, <2>2, <2>3 DEF Answers
  <2>5. server' = [server EXCEPT ![r] = new]
    BY <2>1
  <2> HIDE DEF new
  <2> QED
    BY <2>4, <2>5 DEF Settled
<1>2. CASE Evaluate(r)
  <2> DEFINE new == [server[r] EXCEPT !.evaluated = TRUE]
  <2>1. new \in Answers /\ new.status = "RUNNING"
    BY <1>0, <1>2 DEF Answers, Evaluate
  <2>2. server' = [server EXCEPT ![r] = new] /\ server[r].status = "RUNNING"
    BY <1>2 DEF Evaluate
  <2> HIDE DEF new
  <2> QED
    BY <2>1, <2>2 DEF Settled, Over
<1>3. CASE GenerateReceipt(r)
  <2> DEFINE new == [server[r] EXCEPT !.status = "COMPLETED"]
  <2>1. new \in Answers /\ new.evaluated
    BY <1>0, <1>3 DEF Answers, GenerateReceipt, Statuses
  <2>2. server' = [server EXCEPT ![r] = new] /\ server[r].status = "RUNNING"
    BY <1>3 DEF GenerateReceipt
  <2> HIDE DEF new
  <2> QED
    BY <2>1, <2>2 DEF Settled, Over
<1>4. CASE MarkFailed(r)
  <2> DEFINE new == [server[r] EXCEPT !.status = "FAILED"]
  <2>1. new \in Answers /\ new.status = "FAILED"
    BY <1>0, <1>4 DEF Answers, MarkFailed, Statuses
  <2>2. server' = [server EXCEPT ![r] = new] /\ server[r].status = "RUNNING"
    BY <1>4 DEF MarkFailed
  <2> HIDE DEF new
  <2> QED
    BY <2>1, <2>2 DEF Settled, Over
<1> QED
  BY <1>1, <1>2, <1>3, <1>4

\* StartServed puts a run there that was not.
LEMMA StartIsSettled ==
    ASSUME BackendOK, StartServed
    PROVE  BackendOK' /\ Settled
<1>1. Live \in Runs /\ server[Live].status = "QUEUED"
  BY StageAssumption DEF StartServed, Exists
<1>2. server' = [server EXCEPT ![Live] = Begun] /\ UNCHANGED story
  BY DEF StartServed
<1>3. Begun.status = "RUNNING"
  BY DEF Begun, Absent
<1> HIDE DEF Answers
<1> QED
  BY <1>1, <1>2, <1>3, NoRowsIsAnAnswer DEF BackendOK, Settled, Over

\* What another page, or the same one with other data, may show next.
StageAtPage ==
    stage \in Stages /\ (stage.mounted => ShowsStage(page.at, data, failed, page.on))

\* A page that is not shown any more takes its own query's error with it only.
LEMMA ElsewhereNothingChanges ==
    ASSUME NEW q \in Queries, NEW a, CacheOK(data), StageAtPage,
           q[1] # page.on \/ page.at = "away",
           data' = [data EXCEPT ![q] = {a}], failed' = failed \ {q}, UNCHANGED <<page, stage>>
    PROVE  StageAtPage'
<1>1. CASE page.at = "away"
  BY <1>1 DEF StageAtPage, ShowsStage
<1>2. CASE q[1] # page.on
  <2>1. q # <<page.on, "run">>
    BY <1>2
  <2>2. Known(data, page.on) => Known(data', page.on)
    BY <2>1 DEF Known, Has, CacheOK
  <2> QED
    BY <2>2 DEF StageAtPage, ShowsStage
<1> QED
  BY <1>1, <1>2

\* Whoever gets an answer, the cache, the stage and the toasts keep in order.
LEMMA UpdateKeeps ==
    ASSUME BackendOK, CacheOK(data), FinalInCache(data), PageOK, ToastsOK,
           NEW q \in Queries, NEW a \in Answers, q[2] = "run" => Final(q[1], a),
           NEW f, FetchingOK(f), FinalOnItsWay(f),
           Update(q, a, f), UNCHANGED <<serverVars, page, token>>
    PROVE  AnswersOK' /\ ToastsOK' /\ StageAtPage' /\ failed' \subseteq Queries
<1> DEFINE d == [data EXCEPT ![q] = {a}]
           errors == failed \ {q}
           r == q[1]
<1>0. r \in Runs /\ data' = d /\ failed' = errors
  BY DEF Update, Queries
<1>1. CacheOK(d)
  BY DEF CacheOK
<1>2. FinalInCache(d)
  <2>1. ASSUME NEW x \in Runs, NEW b \in d[<<x, "run">>]
        PROVE  Final(x, b)
    <3>1. CASE q = <<x, "run">>
      BY <2>1, <3>1 DEF CacheOK
    <3>2. CASE q # <<x, "run">>
      BY <2>1, <3>2 DEF CacheOK, FinalInCache, Queries, Kinds
    <3> QED
      BY <3>1, <3>2
  <2> QED
    BY <2>1 DEF FinalInCache
<1>3. \A t \in Announced(d, r) : ToastOK(t)
  BY <1>0, <1>1, <1>2, AnnouncedIsTrue
<1>4. FetchingOK(onTerminal(d, f, r)) /\ FinalOnItsWay(onTerminal(d, f, r))
  BY OnTerminalKeeps
<1>5. \A asked : /\ FetchingOK(Ask(onTerminal(d, f, r), asked))
                 /\ FinalOnItsWay(Ask(onTerminal(d, f, r), asked))
  <2> DEFINE g == onTerminal(d, f, r)
  <2> HIDE DEF g
  <2>1. FetchingOK(g) /\ FinalOnItsWay(g)
    BY <1>4 DEF g
  <2>2. \A asked : FetchingOK(Ask(g, asked)) /\ FinalOnItsWay(Ask(g, asked))
    BY <2>1, AskKeeps
  <2> QED
    BY <2>2 DEF g
<1>6. /\ StageAfter(page.at, d, errors, r) \in Stages
      /\ StageAfter(page.at, d, errors, r).mounted => ShowsStage(page.at, d, errors, r)
  BY <1>0, <1>1, StageAfterIsAStage DEF PageOK
<1>7. failed' \subseteq Queries
  BY <1>0 DEF PageOK
<1>8. CASE r # page.on \/ page.at = "away"
  <2>1. fetching' = f /\ UNCHANGED <<stage, toasts>>
    BY <1>8 DEF Update
  <2>2. StageAtPage
    BY DEF PageOK, StageAtPage
  <2>3. StageAtPage'
    BY <1>0, <1>8, <2>1, <2>2, ElsewhereNothingChanges
  <2>4. AnswersOK'
    BY <1>0, <1>1, <1>2, <2>1
       DEF AnswersOK, CacheOK, FetchingOK, FinalInCache, FinalOnItsWay, Final, serverVars
  <2>5. ToastsOK'
    BY <2>1 DEF ToastsOK, ToastOK, serverVars
  <2> QED
    BY <1>7, <2>3, <2>4, <2>5
<1>9. CASE ~(r # page.on \/ page.at = "away")
  <2>1. PICK asked : /\ stage' = StageAfter(page.at, d, errors, r)
                     /\ toasts' = Announced(d, r)
                     /\ fetching' = Ask(onTerminal(d, f, r), asked)
    BY <1>9 DEF Update
  <2> HIDE DEF d, errors
  <2>2. StageAtPage'
    BY <1>0, <1>6, <1>9, <2>1 DEF StageAtPage
  <2>3. FetchingOK(fetching') /\ FinalOnItsWay(fetching')
    BY <1>5, <2>1
  <2>4. AnswersOK'
    BY <1>0, <1>1, <1>2, <2>3
       DEF AnswersOK, CacheOK, FetchingOK, FinalInCache, FinalOnItsWay, Final, serverVars
  <2>5. ToastsOK'
    BY <1>3, <2>1 DEF ToastsOK, ToastOK, serverVars
  <2> QED
    BY <1>7, <2>2, <2>4, <2>5
<1> QED
  BY <1>8, <1>9

\* A fetch that is served, delivered, or begun by the clock.
LEMMA QueryKeeps ==
    ASSUME StageInv, NEW q \in Queries, Serve(q) \/ Deliver(q) \/ Poll(q)
    PROVE  StageInv'
<1> USE DEF StageInv
<1>0. /\ q[1] \in Runs /\ Look(q) \in Answers /\ (q[2] = "run" => Final(q[1], Look(q)))
  BY LookTells DEF Queries
<1>1. CASE Serve(q) \/ Poll(q)
  <2>1. /\ fetching' = [fetching EXCEPT ![q] = Answered(Look(q))]
        /\ UNCHANGED <<serverVars, data, failed, page, token, starting, stage, toasts>>
    BY <1>1 DEF Serve, Poll
  <2>2. FetchingOK(fetching') /\ FinalOnItsWay(fetching')
    <3>1. Answered(Look(q)) \in [step : {"idle", "asked", "answered"}, with : Answers]
      BY <1>0 DEF Answered
    <3>2. FetchingOK(fetching')
      BY <2>1, <3>1 DEF FetchingOK, AnswersOK
    <3>3. FinalOnItsWay(fetching')
      BY <1>0, <2>1 DEF FinalOnItsWay, FetchingOK, AnswersOK, Answered, Queries, Kinds
    <3> QED
      BY <3>2, <3>3
  <2>3. AnswersOK'
    BY <2>1, <2>2
       DEF AnswersOK, CacheOK, FetchingOK, FinalInCache, FinalOnItsWay, Final, serverVars
  <2> QED
    BY <2>1, <2>3 DEF BackendOK, PageOK, ShowsStage, Known, Has, ToastsOK, ToastOK, serverVars
<1>2. CASE Deliver(q)
  <2> DEFINE f == [fetching EXCEPT ![q] = Idle]
             a == fetching[q].with
  <2>1. /\ fetching[q].step = "answered" /\ Update(q, a, f)
        /\ UNCHANGED <<serverVars, page, token, starting>>
    BY <1>2 DEF Deliver
  <2>2. a \in Answers
    BY DEF AnswersOK, FetchingOK
  <2>3. q[2] = "run" => Final(q[1], a)
    BY <2>1 DEF AnswersOK, FinalOnItsWay, Queries
  <2>4. FetchingOK(f) /\ FinalOnItsWay(f)
    <3>1. Idle \in [step : {"idle", "asked", "answered"}, with : Answers] /\ Idle.step = "idle"
      BY NoRowsIsAnAnswer DEF Idle
    <3>2. FetchingOK(f)
      BY <3>1 DEF FetchingOK, AnswersOK
    <3>3. FinalOnItsWay(f)
      BY <3>1 DEF FetchingOK, FinalOnItsWay, AnswersOK, Queries, Kinds
    <3> QED
      BY <3>2, <3>3
  <2>5. CacheOK(data) /\ FinalInCache(data)
    BY DEF AnswersOK
  <2> HIDE DEF a, f
  <2>6. AnswersOK' /\ ToastsOK' /\ StageAtPage' /\ failed' \subseteq Queries
    BY <2>1, <2>2, <2>3, <2>4, <2>5, UpdateKeeps
  <2> QED
    BY <2>1, <2>6 DEF BackendOK, PageOK, StageAtPage, serverVars
<1> QED
  BY <1>1, <1>2

\* What stays when the backend, the cache and its errors do.
LEMMA CacheStays ==
    ASSUME BackendOK, CacheOK(data), FinalInCache(data), FetchingOK(fetching'), FinalOnItsWay(fetching'),
           UNCHANGED <<serverVars, data, failed>>
    PROVE  BackendOK' /\ AnswersOK'
BY DEF BackendOK, AnswersOK, CacheOK, FetchingOK, FinalInCache, FinalOnItsWay, Final, serverVars

\* Wherever the visitor goes, the page has the stage it shows.
LEMMA GoesKeeps ==
    ASSUME StageInv, NEW at \in Pages, NEW r \in Runs, NEW asked \in BOOLEAN,
           Goes(at, r, asked), UNCHANGED <<serverVars, data, failed>>
    PROVE  BackendOK' /\ AnswersOK' /\ ToastsOK' /\ StageAtPage' /\ page' = [at |-> at, on |-> r]
<1> USE DEF StageInv
<1> DEFINE shows == ShowsStage(at, data, failed, r)
           keeps == at = "run" /\ page.at = "run" /\ shows /\ stage.mounted
<1>1. PICK f :
        /\ FetchingOK(f) /\ FinalOnItsWay(f)
        /\ fetching' = IF keeps THEN onTerminal(data, f, r) ELSE f
  BY AskKeeps DEF Goes, AnswersOK
<1>2. /\ page' = [at |-> at, on |-> r]
      /\ stage' = CASE keeps -> Rendered(data, r)
                    [] ~keeps /\ shows -> Mount(at, data, r, asked)
                    [] OTHER -> Fresh
      /\ toasts' = IF keeps THEN Announced(data, r) ELSE toasts
  BY DEF Goes
<1>3. FetchingOK(fetching') /\ FinalOnItsWay(fetching')
  <2>1. FetchingOK(onTerminal(data, f, r)) /\ FinalOnItsWay(onTerminal(data, f, r))
    BY <1>1, OnTerminalKeeps
  <2> QED
    BY <1>1, <2>1
<1>4. CacheOK(data) /\ FinalInCache(data)
  BY DEF AnswersOK
<1>5. BackendOK' /\ AnswersOK'
  BY <1>3, <1>4, CacheStays
<1>6. ToastsOK'
  <2>1. \A t \in Announced(data, r) : ToastOK(t)
    BY <1>4, AnnouncedIsTrue
  <2> QED
    BY <1>2, <2>1 DEF ToastsOK, ToastOK, serverVars
<1>7. StageAtPage'
  <2>1. Mount(at, data, r, asked) \in Stages /\ Rendered(data, r) \in Stages
    BY <1>4, MountIsAStage, RenderedIsAStage DEF PageOK
  <2>2. stage' \in Stages /\ (stage'.mounted => shows)
    BY <1>2, <2>1, FreshIsAStage
  <2>3. page'.at = at /\ page'.on = r
    BY <1>2
  <2> QED
    BY <2>2, <2>3 DEF StageAtPage, ShowsStage, Known, Has
<1> QED
  BY <1>2, <1>5, <1>6, <1>7

\* What only the stage, the fetches and the visitor's clicks change.
LEMMA StageChanges ==
    ASSUME StageInv, UNCHANGED <<serverVars, data, failed, page, starting, toasts>>, token' \in BOOLEAN,
           FetchingOK(fetching'), FinalOnItsWay(fetching'),
           stage' \in Stages, stage'.mounted = stage.mounted
    PROVE  StageInv'
<1> USE DEF StageInv
<1>1. CacheOK(data) /\ FinalInCache(data)
  BY DEF AnswersOK
<1>2. BackendOK' /\ AnswersOK'
  BY <1>1, CacheStays
<1>3. PageOK'
  BY DEF PageOK, ShowsStage, Known, Has
<1>4. ToastsOK'
  BY DEF ToastsOK, ToastOK, serverVars
<1> QED
  BY <1>2, <1>3, <1>4

\* A stage that is asked to play.
LEMMA WantingIsAStage ==
    ASSUME StageInv, NEW r \in Runs
    PROVE  /\ playWhenWanted([stage EXCEPT !.wanted = TRUE], data, r) \in Stages
           /\ playWhenWanted([stage EXCEPT !.wanted = TRUE], data, r).mounted = stage.mounted
<1> DEFINE s == [stage EXCEPT !.wanted = TRUE]
<1>1. s \in Stages /\ s.mounted = stage.mounted
  BY DEF StageInv, PageOK, Stages
<1>2. CacheOK(data)
  BY DEF StageInv, AnswersOK
<1> HIDE DEF s
<1>3. playWhenWanted(s, data, r) \in Stages /\ playWhenWanted(s, data, r).mounted = stage.mounted
  BY <1>1, <1>2, PlayWhenWantedIsAStage
<1> QED
  BY <1>3 DEF s

\* Going from page to page.
LEMMA VisitKeeps ==
    ASSUME StageInv, NEW at \in Pages, NEW r \in Runs, Visit(at, r)
    PROVE  StageInv'
<1>1. BackendOK' /\ AnswersOK' /\ ToastsOK' /\ StageAtPage' /\ page' = [at |-> at, on |-> r]
  <2>1. Goes(at, r, FALSE) /\ UNCHANGED <<serverVars, data, failed>>
    BY DEF Visit
  <2> QED
    BY <2>1, GoesKeeps
<1>2. PageOK'
  BY <1>1 DEF Visit, StageInv, PageOK, StageAtPage
<1> QED
  BY <1>1, <1>2 DEF StageInv

\* Going back to the recorded run, also from a start that is awaited.
LEMMA WatchRecordedKeeps ==
    ASSUME StageInv, WatchRecorded
    PROVE  StageInv'
<1>0. Recorded \in Runs /\ "home" \in Pages
  BY StageAssumption DEF Pages
<1>1. CASE page.on = Recorded
  <2> DEFINE s == playWhenWanted([stage EXCEPT !.wanted = TRUE], data, Recorded)
  <2>1. s \in Stages /\ s.mounted = stage.mounted
    BY <1>0, WantingIsAStage
  <2> HIDE DEF s
  <2>2. stage' = s /\ UNCHANGED <<serverVars, data, failed, page, toasts, fetching>>
    BY <1>1 DEF WatchRecorded, s
  <2>3. /\ token' \in BOOLEAN /\ starting' \in {"idle", "orphan"}
    BY DEF WatchRecorded
  <2>4. BackendOK' /\ AnswersOK'
    BY <2>2, CacheStays DEF StageInv, AnswersOK
  <2>5. PageOK'
    BY <2>1, <2>2, <2>3 DEF StageInv, PageOK, ShowsStage, Known, Has
  <2>6. ToastsOK'
    BY <2>2 DEF StageInv, ToastsOK, ToastOK, serverVars
  <2> QED
    BY <2>4, <2>5, <2>6 DEF StageInv
<1>2. CASE page.on # Recorded
  <2>1. /\ Goes("home", Recorded, TRUE) /\ UNCHANGED <<serverVars, data, failed>>
        /\ token' = TRUE /\ starting' \in {"idle", "orphan"}
    BY <1>2 DEF WatchRecorded
  <2>2. BackendOK' /\ AnswersOK' /\ ToastsOK' /\ StageAtPage' /\ page' = [at |-> "home", on |-> Recorded]
    BY <1>0, <2>1, GoesKeeps
  <2>3. PageOK'
    BY <1>0, <2>1, <2>2 DEF StageInv, PageOK, StageAtPage
  <2> QED
    BY <2>2, <2>3 DEF StageInv
<1> QED
  BY <1>1, <1>2

\* The answer to a start, which takes the page to the new run unless nobody waits for it.
LEMMA StartAnsweredKeeps ==
    ASSUME StageInv, StartAnswered
    PROVE  StageInv'
<1> USE DEF StageInv
<1> DEFINE q == <<Live, "run">>
<1>0. /\ Live \in Runs /\ q \in Queries /\ "home" \in Pages
      /\ CacheOK(data) /\ FinalInCache(data) /\ FetchingOK(fetching) /\ FinalOnItsWay(fetching)
  BY StageAssumption DEF Queries, Kinds, Pages, AnswersOK
<1>1. Begun \in Answers /\ Final(Live, Begun)
  BY NoRowsIsAnAnswer DEF Final, Begun, Absent, Over
<1>2. starting' = "idle" /\ UNCHANGED <<serverVars, token>>
  BY DEF StartAnswered
<1>3. BackendOK'
  BY <1>2 DEF BackendOK, serverVars
<1>4. CASE Update(q, Begun, fetching) /\ page' = page
  <2>1. q[2] = "run" => Final(q[1], Begun)
    BY <1>1
  <2>2. UNCHANGED <<serverVars, page, token>>
    BY <1>2, <1>4
  <2>3. AnswersOK' /\ ToastsOK' /\ StageAtPage' /\ failed' \subseteq Queries
    <3> HIDE DEF q
    <3> QED
      BY <1>0, <1>1, <1>4, <2>1, <2>2, UpdateKeeps
  <2>4. PageOK'
    BY <1>2, <1>4, <2>3 DEF PageOK, StageAtPage
  <2> QED
    BY <1>3, <2>3, <2>4
<1>5. CASE ~(Update(q, Begun, fetching) /\ page' = page)
  <2>1. /\ starting = "pending"
        /\ page' = [page EXCEPT !.on = Live]
        /\ data' = [data EXCEPT ![q] = {Begun}]
        /\ failed' = failed \ {q}
        /\ stage' = Mount("home", data', Live, token)
        /\ fetching' = Ask(fetching, Missing(data', Observed("home", data', failed', Live)))
        /\ UNCHANGED toasts
    BY <1>5 DEF StartAnswered
  <2>2. page.at = "home" /\ page'.at = "home" /\ page' \in [at : Pages, on : Runs]
    BY <1>0, <2>1 DEF PageOK
  <2>3. CacheOK(data')
    BY <1>0, <1>1, <2>1 DEF CacheOK
  <2>4. FinalInCache(data')
    BY <1>0, <1>1, <2>1 DEF CacheOK, FinalInCache, Queries, Kinds
  <2>5. FetchingOK(fetching') /\ FinalOnItsWay(fetching')
    BY <1>0, <2>1, AskKeeps
  <2>6. AnswersOK'
    BY <1>2, <2>3, <2>4, <2>5
       DEF AnswersOK, CacheOK, FetchingOK, FinalInCache, FinalOnItsWay, Final, serverVars
  <2>7. stage' \in Stages
    <3>1. token \in BOOLEAN
      BY DEF PageOK
    <3>2. Mount("home", data', Live, token) \in Stages
      BY <1>0, <2>3, <3>1, MountIsAStage
    <3> QED
      BY <2>1, <3>2
  <2>8. PageOK'
    BY <1>2, <2>1, <2>2, <2>7 DEF PageOK, ShowsStage
  <2>9. ToastsOK'
    BY <1>2, <2>1 DEF ToastsOK, ToastOK, serverVars
  <2> QED
    BY <1>3, <2>6, <2>8, <2>9
<1> QED
  BY <1>4, <1>5

\* A fetch that fails may take the stage from its page, which it leaves to the message.
LEMMA FetchFailsKeeps ==
    ASSUME StageInv, NEW q \in Queries, FetchFails(q)
    PROVE  StageInv'
<1> USE DEF StageInv
<1>1. /\ fetching' = [fetching EXCEPT ![q] = Idle] /\ failed' = failed \cup {q}
      /\ stage' = IF q[1] = page.on /\ ~ShowsStage(page.at, data, failed', q[1]) THEN Fresh ELSE stage
      /\ UNCHANGED <<serverVars, data, page, token, starting, toasts>>
  BY DEF FetchFails
<1>2. FetchingOK(fetching') /\ FinalOnItsWay(fetching')
  <2>1. Idle \in [step : {"idle", "asked", "answered"}, with : Answers] /\ Idle.step = "idle"
    BY NoRowsIsAnAnswer DEF Idle
  <2>2. FetchingOK(fetching')
    BY <1>1, <2>1 DEF FetchingOK, AnswersOK
  <2>3. FinalOnItsWay(fetching')
    BY <1>1, <2>1 DEF FetchingOK, FinalOnItsWay, AnswersOK, Queries, Kinds
  <2> QED
    BY <2>2, <2>3
<1>3. AnswersOK'
  BY <1>1, <1>2 DEF AnswersOK, CacheOK, FetchingOK, FinalInCache, FinalOnItsWay, Final, serverVars
<1>4. stage' \in Stages
  BY <1>1, FreshIsAStage DEF PageOK
<1>5. stage'.mounted => ShowsStage(page.at, data, failed', page.on)
  <2>1. CASE q[1] = page.on
    BY <1>1, <2>1, FreshIsAStage
  <2>2. CASE q[1] # page.on
    BY <1>1, <2>2 DEF PageOK, ShowsStage
  <2> QED
    BY <2>1, <2>2
<1>6. PageOK'
  BY <1>1, <1>4, <1>5 DEF PageOK, ShowsStage, Known, Has
<1> QED
  BY <1>1, <1>3, <1>6 DEF BackendOK, ToastsOK, ToastOK, serverVars

\* A tick goes at most to the end of the schedule.
LEMMA TickIsAStage ==
    ASSUME stage \in Stages, Tick
    PROVE  stage' \in Stages /\ stage'.mounted = stage.mounted
<1>1. PICK c \in stage.cursor + 1 .. stage.times :
        stage' = [stage EXCEPT !.cursor = c, !.status = IF c = stage.times THEN "done" ELSE @]
  BY DEF Tick
<1>2. c \in Nat /\ c <= stage.times
  BY DEF Stages
<1> DEFINE moved == [stage EXCEPT !.cursor = c]
<1>3. moved \in Stages /\ moved.mounted = stage.mounted
  BY <1>2 DEF Stages
<1>4. stage' = [moved EXCEPT !.status = IF c = stage.times THEN "done" ELSE stage.status]
  BY <1>1
<1>5. stage.status \in {"idle", "playing", "done"}
  BY DEF Stages
<1> HIDE DEF moved
<1> QED
  BY <1>3, <1>4, <1>5 DEF Stages

\* The control bar's buttons and the page's scrolling play what there is.
LEMMA ClickIsAStage ==
    ASSUME StageInv, NEW other \in BOOLEAN, Skip \/ PlayClick \/ changeSpeed(other) \/ ScrollIntoView
    PROVE  stage' \in Stages /\ stage'.mounted = stage.mounted
<1>0. stage \in Stages /\ CacheOK(data) /\ page.on \in Runs /\ Recorded \in Runs
  BY StageAssumption DEF StageInv, AnswersOK, PageOK
<1> DEFINE s == [stage EXCEPT !.played = TRUE]
           t == [stage EXCEPT !.wanted = TRUE, !.played = TRUE]
<1>1. s \in Stages /\ s.mounted = stage.mounted
  BY <1>0 DEF Stages
<1>2. t \in Stages /\ t.mounted = stage.mounted
  BY <1>0 DEF Stages
<1> HIDE DEF s, t
<1>3. CASE Skip
  BY <1>0, <1>3 DEF Skip, Clicked, Stages
<1>4. CASE PlayClick
  <2>1. play(s, data, page.on) \in Stages /\ play(s, data, page.on).mounted = s.mounted
    BY <1>0, <1>1, PlayIsAStage
  <2> QED
    BY <1>1, <1>4, <2>1 DEF PlayClick, Clicked, s
<1>5. CASE changeSpeed(other)
  <2>1. playWhenWanted(t, data, page.on) \in Stages /\ playWhenWanted(t, data, page.on).mounted = t.mounted
    BY <1>0, <1>2, PlayWhenWantedIsAStage
  <2> QED
    BY <1>2, <1>5, <2>1 DEF changeSpeed, Clicked, t
<1>6. CASE ScrollIntoView
  <2>1. play(s, data, Recorded) \in Stages /\ play(s, data, Recorded).mounted = s.mounted
    BY <1>0, <1>1, PlayIsAStage
  <2> QED
    BY <1>1, <1>6, <2>1 DEF ScrollIntoView, Clicked, s
<1> QED
  BY <1>3, <1>4, <1>5, <1>6

\* The clock, and the buttons of the player.
LEMMA ClickKeeps ==
    ASSUME StageInv, NEW other \in BOOLEAN,
           Tick \/ Skip \/ PlayClick \/ changeSpeed(other) \/ ScrollIntoView
    PROVE  StageInv'
<1>1. stage \in Stages /\ FetchingOK(fetching) /\ FinalOnItsWay(fetching) /\ token \in BOOLEAN
  BY DEF StageInv, AnswersOK, PageOK
<1>2. UNCHANGED <<serverVars, data, failed, page, starting, toasts>> /\ UNCHANGED <<fetching, token>>
  BY DEF Tick, Skip, PlayClick, changeSpeed, ScrollIntoView, Clicked, cacheVars
<1>3. stage' \in Stages /\ stage'.mounted = stage.mounted
  BY <1>1, TickIsAStage, ClickIsAStage
<1>4. token' \in BOOLEAN /\ FetchingOK(fetching') /\ FinalOnItsWay(fetching')
  BY <1>1, <1>2
<1> QED
  BY <1>2, <1>3, <1>4, StageChanges

\* The buttons that ask for a replay.
LEMMA AskReplayKeeps ==
    ASSUME StageInv, SeeWhatGoesWrong \/ ReplayProtected
    PROVE  StageInv'
<1>1. /\ token' = TRUE
      /\ stage' = playWhenWanted([stage EXCEPT !.wanted = TRUE], data, page.on)
      /\ UNCHANGED <<serverVars, data, failed, page, starting, toasts>> /\ UNCHANGED fetching
  BY DEF SeeWhatGoesWrong, ReplayProtected, AskReplay, cacheVars
<1>2. FetchingOK(fetching') /\ FinalOnItsWay(fetching')
  BY <1>1 DEF StageInv, AnswersOK
<1>3. page.on \in Runs
  BY DEF StageInv, PageOK
<1>4. stage' \in Stages /\ stage'.mounted = stage.mounted
  BY <1>1, <1>3, WantingIsAStage
<1>5. token' \in BOOLEAN
  BY <1>1
<1>6. UNCHANGED <<serverVars, data, failed, page, starting, toasts>>
  BY <1>1
<1> QED
  BY <1>2, <1>4, <1>5, <1>6, StageChanges

\* "Try again".
LEMMA RetryKeeps ==
    ASSUME StageInv, Retry
    PROVE  StageInv'
<1>1. FetchingOK(fetching) /\ FinalOnItsWay(fetching) /\ stage \in Stages /\ token \in BOOLEAN
  BY DEF StageInv, AnswersOK, PageOK
<1>2. FetchingOK(fetching') /\ FinalOnItsWay(fetching')
  BY <1>1, RefetchKeeps DEF Retry
<1>3. UNCHANGED <<serverVars, data, failed, page, starting, toasts>> /\ UNCHANGED <<token, stage>>
  BY DEF Retry
<1> QED
  BY <1>1, <1>2, <1>3, StageChanges

\* A start that is asked for, refused, or was given up.
LEMMA StartingKeeps ==
    ASSUME StageInv, GoLive \/ StartRefused
    PROVE  StageInv'
<1>1. /\ UNCHANGED <<serverVars, data, failed>> /\ UNCHANGED <<fetching, page, token, stage, toasts>>
      /\ starting' \in {"idle", "pending", "orphan", "error"}
      /\ starting' = "pending" => page.at = "home"
  BY DEF GoLive, StartRefused, cacheVars
<1>2. BackendOK' /\ AnswersOK'
  <2>1. FetchingOK(fetching') /\ FinalOnItsWay(fetching')
    BY <1>1 DEF StageInv, AnswersOK
  <2> QED
    BY <1>1, <2>1, CacheStays DEF StageInv, AnswersOK
<1>3. PageOK'
  BY <1>1 DEF StageInv, PageOK, ShowsStage, Known, Has
<1>4. ToastsOK'
  BY <1>1 DEF StageInv, ToastsOK, ToastOK, serverVars
<1> QED
  BY <1>2, <1>3, <1>4 DEF StageInv

\* The invariant is inductive: one step for each kind of action.
LEMMA StageStep == StageInv /\ [Next]_vars => StageInv'
<1> SUFFICES ASSUME StageInv, [Next]_vars PROVE StageInv'
  OBVIOUS
<1>1. CASE Backend
  <2>1. PICK r \in Runs : RecordRow(r) \/ Evaluate(r) \/ GenerateReceipt(r) \/ MarkFailed(r)
    BY <1>1 DEF Backend
  <2>2. UNCHANGED <<story, cacheVars, page, token, starting, stage, toasts>>
    BY <1>1 DEF Backend
  <2>3. BackendOK' /\ Settled
    BY <2>1, <2>2, BackendIsSettled DEF StageInv
  <2> QED
    BY <2>2, <2>3, BackendKeeps
<1>2. CASE Ticks
  BY <1>2, ClickKeeps DEF Ticks
<1>3. CASE Starts
  <2>1. CASE StartServed
    <3>1. BackendOK' /\ Settled
      BY <2>1, StartIsSettled DEF StageInv
    <3>2. UNCHANGED <<story, cacheVars, page, token, starting, stage, toasts>>
      BY <2>1 DEF StartServed
    <3> QED
      BY <3>1, <3>2, BackendKeeps
  <2> QED
    BY <1>3, <2>1, StartAnsweredKeeps DEF Starts
<1>4. CASE Visitor
  <2>1. CASE \E at \in Pages, r \in Runs : Visit(at, r)
    BY <2>1, VisitKeeps
  <2>2. CASE WatchRecorded
    BY <2>2, WatchRecordedKeeps
  <2>3. CASE GoLive
    BY <2>3, StartingKeeps
  <2>4. CASE Retry
    BY <2>4, RetryKeeps
  <2>5. CASE SeeWhatGoesWrong \/ ReplayProtected
    BY <2>5, AskReplayKeeps
  <2>6. CASE \E other \in BOOLEAN : Skip \/ PlayClick \/ changeSpeed(other) \/ ScrollIntoView
    BY <2>6, ClickKeeps
  <2> QED
    BY <1>4, <2>1, <2>2, <2>3, <2>4, <2>5, <2>6 DEF Visitor
<1>5. CASE Fault
  BY <1>5, FetchFailsKeeps, StartingKeeps DEF Fault
<1>6. CASE \E q \in Queries : Query(q)
  BY <1>6, QueryKeeps DEF Query
<1>7. CASE UNCHANGED vars
  BY <1>7 DEF vars, StageInv, BackendOK, AnswersOK, CacheOK, FetchingOK, FinalInCache,
       FinalOnItsWay, Final, PageOK, ShowsStage, Known, Has, ToastsOK, ToastOK, serverVars, cacheVars
<1> QED
  BY <1>1, <1>2, <1>3, <1>4, <1>5, <1>6, <1>7 DEF Next

-----------------------------------------------------------------------------
(* The theorems                                                            *)

\* Whatever the visitor clicks and whichever requests fail, the cache, the
\* fetches, the stage and the announcements fit the run (RunStage.tsx,
\* useReplay.ts, queries.ts).
THEOREM StageInvariant == Spec => []StageInv
BY InitialStage, StageStep, PTL DEF Spec

\* A stage is mounted only on a page that shows one, of a run that is known,
\* and its replay is never beyond the schedule it took.
THEOREM StageIsWellFormed == Spec => []StageTypeOK
<1>1. StageInv => StageTypeOK
  <2> SUFFICES ASSUME StageInv PROVE StageTypeOK
    OBVIOUS
  <2> USE DEF StageInv
  <2>1. /\ story \in [Runs -> Scripts]
        /\ server \in [Runs -> [status : Statuses, evaluated : BOOLEAN, recorded : SUBSET Nat]]
    BY DEF BackendOK, Answers
  <2>2. ASSUME NEW q \in Queries
        PROVE  Cardinality(data[q]) <= 1 /\ fetching[q].step \in {"idle", "asked", "answered"}
    <3>1. data[q] = {} \/ \E a \in data[q] : data[q] = {a}
      BY DEF AnswersOK, CacheOK
    <3>2. Cardinality({}) = 0 /\ \A a : Cardinality({a}) = 1
      BY FS_EmptySet, FS_Singleton
    <3>3. Cardinality(data[q]) = 0 \/ Cardinality(data[q]) = 1
      BY <3>1, <3>2, Zenon
    <3> QED
      BY <3>3 DEF AnswersOK, FetchingOK
  <2>3. /\ stage.status \in {"idle", "playing", "done"} /\ stage.cursor \in 0 .. stage.times
    BY DEF PageOK, Stages
  <2> QED
    BY <2>1, <2>2, <2>3 DEF PageOK, StageTypeOK
<1> QED
  BY <1>1, StageInvariant, PTL

\* A toast that announced how a run ended is right for ever, although it was
\* made of an answer that may be old (RunStage.tsx, onTerminal): a run that is
\* over keeps its status and its verdict.
THEOREM ToastsAreTrue == Spec => []ToastsTellTheTruth
<1>1. StageInv => ToastsTellTheTruth
  <2> SUFFICES ASSUME StageInv, NEW t \in toasts
               PROVE  LET run == RunRecord(t.run, story[t.run], server[t.run].status, server[t.run].evaluated)
                      IN  t.says = CASE run.status = "FAILED" -> "without a verdict"
                                     [] run.status = "COMPLETED" /\ run.verdict = "PASS" -> "verified"
                                     [] run.status = "COMPLETED" /\ run.verdict = "FAIL" -> "failed"
                                     [] OTHER -> "nothing yet"
    BY DEF ToastsTellTheTruth
  <2> DEFINE run == RunRecord(t.run, story[t.run], server[t.run].status, server[t.run].evaluated)
  <2>1. /\ t.run \in Runs /\ server[t.run].status \in Over /\ t.says = toastOf(run)
    BY DEF StageInv, ToastsOK, ToastOK
  <2>2. run.status = server[t.run].status
    BY DEF RunRecord
  <2>3. run.status = "FAILED" \/ run.status = "COMPLETED"
    BY <2>1, <2>2 DEF Over
  <2>4. run.status = "COMPLETED" => run.verdict = "PASS" \/ run.verdict = "FAIL"
    <3>1. run.status = "COMPLETED" => server[t.run].evaluated
      BY <2>1, <2>2 DEF StageInv, BackendOK
    <3>2. server[t.run].evaluated => run.verdict = verdictOf(evaluate(story[t.run].rows))
      BY DEF RunRecord
    <3>3. \A s : verdictOf(s) = "PASS" \/ verdictOf(s) = "FAIL"
      BY DEF verdictOf
    <3> QED
      BY <3>1, <3>2, <3>3
  <2> HIDE DEF run
  <2>5. t.says = CASE run.status = "FAILED" -> "without a verdict"
                   [] run.status = "COMPLETED" /\ run.verdict = "PASS" -> "verified"
                   [] run.status = "COMPLETED" /\ run.verdict = "FAIL" -> "failed"
                   [] OTHER -> "nothing yet"
    BY <2>1, <2>3, <2>4 DEF toastOf
  <2> QED
    BY <2>5 DEF run
<1> QED
  BY <1>1, StageInvariant, PTL

-----------------------------------------------------------------------------
(* The rows                                                                *)

\* The backend: the rows recorded are rows of the script, and with a verdict they are
\* all of them; what refuses a repeat in the script is a payment.
Recordings ==
    \A r \in Runs :
        /\ Resolved(story[r].rows)
        /\ server[r].recorded \subseteq Whole(r)
        /\ server[r].evaluated => server[r].recorded = Whole(r)
        /\ server[r].status = "QUEUED" => server[r].recorded = {}
\* An answer was true once; one that is on its way is no older than the one it replaces.
RowsCached(q) == \A a \in data[q] : a.recorded \subseteq server[q[1]].recorded
RowsOnTheirWay(q) ==
    fetching[q].step = "answered" =>
        /\ fetching[q].with.recorded \subseteq server[q[1]].recorded
        /\ \A a \in data[q] : a.recorded \subseteq fetching[q].with.recorded
\* The queries for deliveries.
RowQueries == {q \in Queries : q[2] = "rows"}

\* The second half of the invariant.
RowsInv == Recordings /\ \A q \in RowQueries : RowsCached(q) /\ RowsOnTheirWay(q)

\* What a step does to a query of rows: it leaves it alone or begins it anew; or looks the
\* rows up; or puts them in the cache.
Passes(q) == data'[q] = data[q] /\ (fetching'[q] = fetching[q] \/ fetching'[q].step # "answered")
Serves(q) == data'[q] = data[q] /\ fetching'[q] = Answered(Look(q))
Delivers(q) ==
    fetching[q].step = "answered" /\ data'[q] = {fetching[q].with} /\ fetching'[q].step # "answered"

\* Asking changes a fetch to one that has no answer yet.
Quieter(f, g) == \A q \in Queries : g[q] = f[q] \/ g[q].step # "answered"

\* Asking, once or more, is all that the effects of a page do to fetches.
LEMMA AskingIsQuiet ==
    /\ \A f, asked : Quieter(f, Ask(f, asked))
    /\ \A f, d, r : Quieter(f, onTerminal(d, f, r))
<1>1. Asked.step # "answered"
  BY DEF Asked
<1> QED
  BY <1>1 DEF Quieter, Ask, onTerminal, RefetchedOver

LEMMA QuietTwice ==
    ASSUME NEW f, NEW g, NEW h, Quieter(f, g), Quieter(g, h)
    PROVE  Quieter(f, h)
BY DEF Quieter

\* So an answer that is put in the cache changes only its own query there.
LEMMA UpdateIsQuiet ==
    ASSUME NEW q, NEW a, NEW f, Update(q, a, f)
    PROVE  Quieter(f, fetching') /\ data' = [data EXCEPT ![q] = {a}]
<1>1. data' = [data EXCEPT ![q] = {a}]
  BY DEF Update
<1>2. \/ fetching' = f
      \/ \E d, r, asked : fetching' = Ask(onTerminal(d, f, r), asked)
  BY DEF Update
<1>3. Quieter(f, f)
  BY DEF Quieter
<1>4. ASSUME NEW d, NEW r, NEW asked PROVE Quieter(f, Ask(onTerminal(d, f, r), asked))
  <2> DEFINE g == onTerminal(d, f, r)
  <2>1. Quieter(f, g) /\ Quieter(g, Ask(g, asked))
    <3>1. Quieter(f, g)
      BY AskingIsQuiet
    <3> HIDE DEF g
    <3>2. Quieter(g, Ask(g, asked))
      BY AskingIsQuiet
    <3> QED BY <3>1, <3>2
  <2> HIDE DEF g
  <2>2. Quieter(f, Ask(g, asked))
    BY <2>1, QuietTwice
  <2> QED BY <2>2 DEF g
<1> QED BY <1>1, <1>2, <1>3, <1>4

\* Nor does a new page put an answer anywhere.
LEMMA GoesIsQuiet ==
    ASSUME NEW at, NEW r, NEW asked, Goes(at, r, asked)
    PROVE  Quieter(fetching, fetching')
<1>1. PICK missed : fetching' = Ask(fetching, missed)
               \/ fetching' = onTerminal(data, Ask(fetching, missed), r)
  BY DEF Goes
<1> DEFINE f == Ask(fetching, missed)
<1>2. Quieter(fetching, f)
  BY AskingIsQuiet
<1> HIDE DEF f
<1>3. Quieter(f, onTerminal(data, f, r))
  BY AskingIsQuiet
<1>4. Quieter(fetching, onTerminal(data, f, r))
  BY <1>2, <1>3, QuietTwice
<1> QED BY <1>1, <1>2, <1>4 DEF f

\* A step of the visitor, of the network or of the clock: rows are asked for,
\* answered with what there is, or taken as they came.
LEMMA QueryOfRows ==
    ASSUME StageInv, NEW q \in RowQueries,
           \/ \E p \in Queries : Serve(p) \/ Deliver(p) \/ Poll(p) \/ FetchFails(p)
           \/ StartAnswered \/ Visitor \/ Tick \/ StartRefused \/ UNCHANGED vars
    PROVE  UNCHANGED serverVars /\ (Passes(q) \/ Serves(q) \/ Delivers(q))
<1>0. q \in Queries /\ FetchingOK(fetching) /\ CacheOK(data)
  BY DEF RowQueries, StageInv, AnswersOK
<1>1. CASE \E p \in Queries : Serve(p) \/ Poll(p)
  <2>1. PICK p \in Queries : Serve(p) \/ Poll(p)
    BY <1>1
  <2>2. /\ fetching' = [fetching EXCEPT ![p] = Answered(Look(p))]
        /\ UNCHANGED <<serverVars, data>>
    BY <2>1 DEF Serve, Poll
  <2>3. CASE p = q
    BY <1>0, <2>2, <2>3 DEF Serves, FetchingOK
  <2>4. CASE p # q
    BY <1>0, <2>2, <2>4 DEF Passes, FetchingOK
  <2> QED BY <2>2, <2>3, <2>4
<1>2. CASE \E p \in Queries : Deliver(p)
  <2>1. PICK p \in Queries : Deliver(p)
    BY <1>2
  <2> DEFINE f == [fetching EXCEPT ![p] = Idle]
  <2>2. /\ fetching[p].step = "answered" /\ UNCHANGED serverVars
        /\ Update(p, fetching[p].with, f)
    BY <2>1 DEF Deliver
  <2>3. Quieter(f, fetching') /\ data' = [data EXCEPT ![p] = {fetching[p].with}]
    <3> HIDE DEF f
    <3> QED BY <2>2, UpdateIsQuiet
  <2>4. CASE p = q
    <3>1. f[q].step # "answered"
      BY <1>0, <2>4 DEF FetchingOK, Idle
    <3> HIDE DEF f
    <3>2. fetching'[q].step # "answered"
      BY <1>0, <2>3, <3>1 DEF Quieter
    <3> QED BY <1>0, <2>2, <2>3, <2>4, <3>2 DEF Delivers, CacheOK
  <2>5. CASE p # q
    <3>1. f[q] = fetching[q]
      BY <1>0, <2>5 DEF FetchingOK
    <3> HIDE DEF f
    <3>2. fetching'[q] = fetching[q] \/ fetching'[q].step # "answered"
      BY <1>0, <2>3, <3>1 DEF Quieter
    <3> QED BY <1>0, <2>2, <2>3, <2>5, <3>2 DEF Passes, CacheOK
  <2> QED BY <2>4, <2>5
<1>3. CASE \E p \in Queries : FetchFails(p)
  <2>1. PICK p \in Queries : FetchFails(p)
    BY <1>3
  <2>2. fetching' = [fetching EXCEPT ![p] = Idle] /\ UNCHANGED <<serverVars, data>>
    BY <2>1 DEF FetchFails
  <2> QED BY <1>0, <2>2 DEF Passes, FetchingOK, Idle
<1>4. CASE StartAnswered
  <2> DEFINE p == <<Live, "run">>
  <2>1. p # q
    BY DEF RowQueries
  <2>2. UNCHANGED serverVars
    BY <1>4 DEF StartAnswered
  <2>3. \/ Update(p, Begun, fetching)
        \/ \E asked : fetching' = Ask(fetching, asked) /\ data' = [data EXCEPT ![p] = {Begun}]
    BY <1>4 DEF StartAnswered
  <2>4. Quieter(fetching, fetching') /\ data' = [data EXCEPT ![p] = {Begun}]
    <3> HIDE DEF p
    <3>1. CASE Update(p, Begun, fetching)
      BY <3>1, UpdateIsQuiet
    <3>2. CASE \E asked : fetching' = Ask(fetching, asked) /\ data' = [data EXCEPT ![p] = {Begun}]
      BY <3>2, AskingIsQuiet
    <3> QED BY <2>3, <3>1, <3>2
  <2> QED BY <1>0, <2>1, <2>2, <2>4 DEF Passes, Quieter, CacheOK
<1>5. CASE Visitor \/ Tick \/ StartRefused \/ UNCHANGED vars
  <2>1. Quieter(fetching, fetching') /\ UNCHANGED <<serverVars, data>>
    <3>0. Quieter(fetching, fetching)
      BY DEF Quieter
    <3>1. CASE \E at \in Pages, r \in Runs : Visit(at, r)
      BY <3>1, GoesIsQuiet DEF Visit
    <3>2. CASE WatchRecorded
      BY <3>0, <3>2, GoesIsQuiet DEF WatchRecorded
    <3>3. CASE Retry
      <4>1. Asked.step # "answered"
        BY DEF Asked
      <4> QED BY <3>3, <4>1 DEF Retry, RefetchedOver, Quieter
    <3>4. CASE \E other \in BOOLEAN : \/ GoLive \/ Skip \/ PlayClick \/ SeeWhatGoesWrong \/ ReplayProtected
                                      \/ changeSpeed(other) \/ ScrollIntoView \/ Tick \/ StartRefused
                                      \/ UNCHANGED vars
      <4>1. UNCHANGED <<serverVars, cacheVars>>
        BY <3>4 DEF GoLive, Skip, PlayClick, SeeWhatGoesWrong, ReplayProtected, AskReplay, changeSpeed,
           ScrollIntoView, Clicked, Tick, StartRefused, vars
      <4> QED BY <3>0, <4>1 DEF cacheVars
    <3> QED BY <1>5, <3>1, <3>2, <3>3, <3>4 DEF Visitor
  <2> QED BY <1>0, <2>1 DEF Passes, Quieter
<1> QED BY <1>1, <1>2, <1>3, <1>4, <1>5

\* The backend only adds to a run's rows, and adds none after the verdict.
OnlyAdds ==
    \A r \in Runs : server[r].recorded \subseteq server'[r].recorded

\* A row once recorded stays, and the evaluation waits for the last one.
LEMMA BackendRecords ==
    ASSUME BackendOK, Recordings,
           \/ \E r \in Runs : RecordRow(r) \/ Evaluate(r) \/ GenerateReceipt(r) \/ MarkFailed(r)
           \/ StartServed,
           UNCHANGED story
    PROVE  Recordings' /\ OnlyAdds
<1> USE DEF BackendOK, Recordings
<1>0. \A r \in Runs : Whole(r)' = Whole(r) /\ server[r] \in Answers
  BY DEF Whole
<1>1. ASSUME NEW r \in Runs, RecordRow(r) \/ Evaluate(r) \/ GenerateReceipt(r) \/ MarkFailed(r)
      PROVE  Recordings' /\ OnlyAdds
  <2>1. CASE RecordRow(r)
    <3>1. PICK i \in Whole(r) \ server[r].recorded :
            Exists(r) /\ server' = [server EXCEPT ![r].recorded = @ \cup {i}]
      BY <2>1 DEF RecordRow
    <3> DEFINE new == [server[r] EXCEPT !.recorded = @ \cup {i}]
    <3>2. /\ new.recorded = server[r].recorded \cup {i}
          /\ new.status = server[r].status /\ new.evaluated = server[r].evaluated
      BY <1>0 DEF Answers
    <3>3. server' = [server EXCEPT ![r] = new]
      BY <3>1
    <3> HIDE DEF new
    <3> QED BY <1>0, <3>1, <3>2, <3>3 DEF OnlyAdds, Exists
  <2>2. CASE Evaluate(r)
    <3> DEFINE new == [server[r] EXCEPT !.evaluated = TRUE]
    <3>1. new.recorded = server[r].recorded /\ new.status = server[r].status
      BY <1>0 DEF Answers
    <3>2. server' = [server EXCEPT ![r] = new] /\ server[r].recorded = Whole(r)
      BY <2>2 DEF Evaluate
    <3> HIDE DEF new
    <3> QED BY <1>0, <3>1, <3>2 DEF OnlyAdds
  <2>3. CASE GenerateReceipt(r) \/ MarkFailed(r)
    <3>1. PICK over \in Over : server' = [server EXCEPT ![r].status = over]
      BY <2>3 DEF GenerateReceipt, MarkFailed, Over
    <3> DEFINE new == [server[r] EXCEPT !.status = over]
    <3>2. /\ new.recorded = server[r].recorded /\ new.evaluated = server[r].evaluated
          /\ new.status # "QUEUED"
      BY <1>0 DEF Answers, Over
    <3>3. server' = [server EXCEPT ![r] = new]
      BY <3>1
    <3> HIDE DEF new
    <3> QED BY <1>0, <3>2, <3>3 DEF OnlyAdds
  <2> QED BY <1>1, <2>1, <2>2, <2>3
<1>2. CASE StartServed
  <2>1. Live \in Runs /\ server[Live].status = "QUEUED"
    BY <1>2, StageAssumption DEF StartServed, Exists
  <2>2. server' = [server EXCEPT ![Live] = Begun]
    BY <1>2 DEF StartServed
  <2>3. Begun.recorded = {} /\ ~Begun.evaluated /\ Begun.status = "RUNNING"
    BY DEF Begun, Absent
  <2> QED BY <1>0, <2>1, <2>2, <2>3 DEF OnlyAdds
<1> QED BY <1>1, <1>2

\* In the beginning nothing is on its way, and what is cached was just fetched.
LEMMA InitialRows == Init => RowsInv
<1> SUFFICES ASSUME Init PROVE RowsInv
  OBVIOUS
<1>0. StageInv
  BY InitialStage
<1>1. PICK scope \in Scopes :
        /\ story = scope.story
        /\ server = [r \in Runs |->
              IF r # Live
              THEN [status |-> "COMPLETED", evaluated |-> TRUE, recorded |-> Whole(r)]
              ELSE CASE scope.live = "absent" -> Absent
                     [] scope.live = "begun" -> Begun
                     [] scope.live = "handled" -> [Begun EXCEPT !.recorded = Whole(r)]]
        /\ data = [q \in Queries |-> IF scope.loaded /\ q[1] = Recorded THEN {Look(q)} ELSE {}]
        /\ fetching = Ask([q \in Queries |-> Idle],
                          Missing(data, Observed(scope.at, data, {}, scope.on)))
  BY DEF Init
<1>2. scope.live \in {"absent", "begun", "handled"} /\ \A r \in Runs : Resolved(scope.story[r].rows)
  BY StageAssumption
<1>3. Recordings
  <2>1. ASSUME NEW r \in Runs
        PROVE  /\ server[r].recorded \subseteq Whole(r)
               /\ server[r].evaluated => server[r].recorded = Whole(r)
               /\ server[r].status = "QUEUED" => server[r].recorded = {}
    <3>1. CASE r # Live
      BY <1>1, <3>1
    <3>2. CASE r = Live
      <4>1. /\ Absent.recorded = {} /\ ~Absent.evaluated
            /\ Begun.recorded = {} /\ ~Begun.evaluated
            /\ [Begun EXCEPT !.recorded = Whole(r)].recorded = Whole(r)
            /\ [Begun EXCEPT !.recorded = Whole(r)].status = "RUNNING"
        BY DEF Absent, Begun
      <4>2. server[r] \in {Absent, Begun, [Begun EXCEPT !.recorded = Whole(r)]}
        <5>1. server[r] = CASE scope.live = "absent" -> Absent
                            [] scope.live = "begun" -> Begun
                            [] scope.live = "handled" -> [Begun EXCEPT !.recorded = Whole(r)]
          BY <1>1, <3>2
        <5> QED BY <1>2, <5>1
      <4> QED BY <4>1, <4>2
    <3> QED BY <3>1, <3>2
  <2> QED BY <1>1, <1>2, <2>1 DEF Recordings
<1>4. ASSUME NEW q \in RowQueries
      PROVE  RowsCached(q) /\ RowsOnTheirWay(q)
  <2>1. q \in Queries /\ q[2] = "rows" /\ q[1] \in Runs
    BY DEF RowQueries, Queries
  <2>2. Look(q).recorded = server[q[1]].recorded
    BY <1>0, <2>1 DEF Look, StageInv, BackendOK, Answers
  <2>3. data[q] \subseteq {Look(q)}
    BY <1>1, <2>1
  <2>4. fetching[q].step # "answered"
    BY <1>1, <2>1 DEF Ask, Idle, Asked
  <2> QED BY <2>2, <2>3, <2>4 DEF RowsCached, RowsOnTheirWay
<1> QED BY <1>3, <1>4 DEF RowsInv

\* The second half is inductive, given the first.
LEMMA RowsStep == StageInv /\ RowsInv /\ [Next]_vars => RowsInv'
<1> SUFFICES ASSUME StageInv, RowsInv, [Next]_vars PROVE RowsInv'
  OBVIOUS
<1>0. \A q \in RowQueries : q \in Queries /\ q[2] = "rows" /\ q[1] \in Runs
  BY DEF RowQueries, Queries
<1>1. CASE Backend \/ StartServed
  <2>1. /\ Recordings' /\ OnlyAdds
    BY <1>1, BackendRecords DEF Backend, StartServed, StageInv, RowsInv
  <2>2. UNCHANGED <<data, fetching>>
    BY <1>1 DEF Backend, StartServed, cacheVars
  <2>3. ASSUME NEW q \in RowQueries PROVE RowsCached(q)' /\ RowsOnTheirWay(q)'
    <3>1. server[q[1]].recorded \subseteq server'[q[1]].recorded
      BY <1>0, <2>1 DEF OnlyAdds
    <3> QED BY <2>2, <3>1 DEF RowsInv, RowsCached, RowsOnTheirWay
  <2> QED BY <2>1, <2>3 DEF RowsInv, RowQueries, Queries
<1>2. CASE ~(Backend \/ StartServed)
  <2>1. \A q \in RowQueries : UNCHANGED serverVars /\ (Passes(q) \/ Serves(q) \/ Delivers(q))
    BY <1>2, QueryOfRows DEF Next, Query, Fault, Ticks, Starts
  <2>2. UNCHANGED serverVars
    <3>1. <<Live, "rows">> \in RowQueries
      BY StageAssumption DEF RowQueries, Queries, Kinds
    <3> QED BY <2>1, <3>1
  <2>3. Recordings'
    BY <2>2 DEF RowsInv, Recordings, serverVars, Whole
  <2>4. ASSUME NEW q \in RowQueries PROVE RowsCached(q)' /\ RowsOnTheirWay(q)'
    <3>1. RowsCached(q) /\ RowsOnTheirWay(q) /\ server' = server
      BY <2>2 DEF RowsInv, serverVars
    <3>2. CASE Passes(q)
      BY <3>1, <3>2 DEF Passes, RowsCached, RowsOnTheirWay
    <3>3. CASE Serves(q)
      <4>1. Look(q).recorded = server[q[1]].recorded
        BY <1>0 DEF Look, StageInv, BackendOK, Answers
      <4>2. fetching'[q].with.recorded = server[q[1]].recorded
        BY <3>3, <4>1 DEF Serves, Answered
      <4> QED BY <3>1, <3>3, <4>2 DEF Serves, RowsCached, RowsOnTheirWay
    <3>4. CASE Delivers(q)
      BY <3>1, <3>4 DEF Delivers, RowsCached, RowsOnTheirWay
    <3> QED BY <2>1, <3>2, <3>3, <3>4
  <2> QED BY <2>3, <2>4 DEF RowsInv, RowQueries, Queries
<1> QED BY <1>1, <1>2

\* The inductive invariant of the rows: the backend only adds to a run's rows and
\* evaluates when it has all of them; a page has some of those that the backend has
\* now; and a fetch that was served brings at least what it replaces (useDeliveries
\* in queries.ts, record_outcome and evaluate in the backend).
THEOREM RowsInvariant == Spec => [](StageInv /\ RowsInv)
<1>1. Init => StageInv /\ RowsInv
  BY InitialStage, InitialRows
<1>2. StageInv /\ RowsInv /\ [Next]_vars => (StageInv /\ RowsInv)'
  BY StageStep, RowsStep
<1> QED BY <1>1, <1>2, PTL DEF Spec

-----------------------------------------------------------------------------
(* What the theater shows                                                  *)

\* What is known of a run, and of its script, as far as a page shows it.
LEMMA RunSeenIsOfTheScript ==
    ASSUME NEW d, NEW r
    PROVE  LET run == RunSeen(d, r)
               a == Get(d, r, "run")
               e == evaluate(story[r].rows)
           IN  /\ run.run_id = r /\ run.processor = story[r].processor
               /\ run.fingerprint = story[r].fingerprint /\ run.status = a.status
               /\ run.expected_deliveries = Len(story[r].rows)
               /\ a.evaluated => run.verdict = verdictOf(e) /\ run.summary = e
               /\ ~a.evaluated => run.verdict = None
BY DEF RunSeen, RunRecord

\* A run that is seen to be over with a verdict has all of its rows recorded.
LEMMA VerdictIsOfTheWhole ==
    ASSUME StageInv, RowsInv, NEW r \in Runs, Terminal(data, r), Get(data, r, "run").evaluated
    PROVE  /\ story[r].rows \in Rows /\ Resolved(story[r].rows)
           /\ server[r].evaluated /\ server[r].recorded = Whole(r)
<1>1. "run" \in Kinds /\ CacheOK(data)
  BY DEF Kinds, StageInv, AnswersOK
<1>2. Get(data, r, "run") \in data[<<r, "run">>]
  BY <1>1, GetIsCached DEF Terminal, Known
<1>3. server[r].evaluated
  BY <1>2 DEF StageInv, AnswersOK, FinalInCache, Final, Terminal
<1>4. story[r].rows \in Rows
  BY DEF StageInv, BackendOK, Scripts, Rows
<1> QED BY <1>3, <1>4 DEF RowsInv, Recordings

\* Whatever is cached, late or failed: a stage that has come to the end of the rows
\* of a run with a verdict shows the tiles, legend, bars and reasons that the
\* evaluator counted, for every number of students and rows and all amounts.  What
\* it has may then not be older than the verdict, and deriveTheater counts what
\* evaluate does (deriveTheater.ts, evaluator.py, student_state.py).
THEOREM TheaterAgrees == Spec => []TheaterAgreesWithVerdict
<1>1. StageInv /\ RowsInv => TheaterAgreesWithVerdict
  <2> DEFINE r == page.on
             run == RunSeen(data, r)
             rows == SeenRows(r)
             students == SeenTiles(r)
             s == run.summary
             all == RunTheater(run, {students}, {rows}, cursor, complete, {}, FALSE)
             state == CHOOSE x \in all.state : TRUE
             why == WhyItFailed(run, rows)
             climax == Climax(run)
  <2> SUFFICES ASSUME StageInv, RowsInv, Watching(r), Loaded(r), run.verdict # None, ShowsAll(r)
               PROVE  /\ all.tiles = {state.tiles} /\ state.tiles = students
                      /\ all.legend = {[paid_once |-> s.paid_once, paid_twice |-> s.double_paid,
                                        unpaid |-> s.unpaid, pending |-> 0]}
                      /\ BudgetBar(state).first + BudgetBar(state).repeat = s.spent
                      /\ BudgetBar(state).repeat = climax.misallocated
                      /\ Counters(run, state).arrived[1] = s.deliveries
                      /\ Counters(run, state).payments[1] = s.ledger_effects
                      /\ Counters(run, state).twice = climax.paidTwice
                      /\ Counters(run, state).zero = climax.unpaid
                      /\ state.repeatsRefused = climax.repeatsRefused
                      /\ FlowStrip(run, state, TRUE).refused + FlowStrip(run, state, TRUE).payments = s.deliveries
                      /\ run.verdict = "FAIL" =>
                            /\ (why.doublePaid # {}) = (climax.paidTwice > 0)
                            /\ (why.unpaid # {}) = (climax.unpaid > 0) /\ why.zero = climax.unpaid
                            /\ why.doublePaid \subseteq In(students, "paid_twice")
                            /\ why.unpaid \subseteq In(students, "unpaid")
                            /\ climax.sentence # "a check failed"
    BY DEF TheaterAgreesWithVerdict
  <2>1. r \in Runs /\ Terminal(data, r) /\ stage.status = "done" /\ complete = TRUE
    BY DEF StageInv, PageOK, ShowsAll, complete
  <2>2. Get(data, r, "run").evaluated
    BY RunSeenIsOfTheScript
  <2>3. rows \in Rows /\ Resolved(rows) /\ rows = story[r].rows
    <3>1. story[r].rows \in Rows /\ Resolved(story[r].rows) /\ server[r].recorded = DOMAIN story[r].rows
      BY <2>1, <2>2, VerdictIsOfTheWhole DEF Whole
    <3> QED BY <3>1, AllRowsInOrder DEF ShowsAll, SeenRows
  <2>4. students = studentTiles(rows, TRUE)
    <3>1. server[r].evaluated /\ server[r].recorded = DOMAIN story[r].rows
      BY <2>1, <2>2, VerdictIsOfTheWhole DEF Whole
    <3> QED BY <2>3, <3>1, AllRowsInOrder DEF ShowsAll, SeenTiles
  <2>5. cursor = Len(rows)
    BY <2>1 DEF cursor
  <2>6. s = evaluate(rows) /\ run.verdict = verdictOf(s)
    BY <2>2, <2>3, RunSeenIsOfTheScript
  <2> HIDE DEF rows, students, run, s
  <2>7. /\ all.state = {deriveTheater(rows, Len(rows))} /\ all.tiles = {students}
        /\ all.legend = {countStates(students)}
    BY <2>1, <2>3, <2>4, <2>5, TheaterOfAVerdict
  <2>8. state = deriveTheater(rows, Len(rows))
    BY <2>7
  <2> HIDE DEF all, state
  <2>9. /\ state.tiles = students
        /\ state.arrived = s.deliveries /\ state.payments = s.ledger_effects
        /\ state.paidTwice = s.double_paid /\ state.unpaid = s.unpaid
        /\ state.repeatsRefused = s.duplicates_suppressed
        /\ state.budgetRefusals = s.budget_exhausted
        /\ state.spentFirst + state.spentRepeat = s.spent
        /\ state.spentRepeat = s.misallocated
    BY <2>3, <2>4, <2>6, <2>8, TheaterOfTheWhole
  <2>10. /\ In(students, "paid_twice") = s.double_paid_ids /\ In(students, "unpaid") = s.unpaid_ids
         /\ countStates(students) = [paid_once |-> s.paid_once, paid_twice |-> s.double_paid,
                                     unpaid |-> s.unpaid, pending |-> 0]
    BY <2>3, <2>4, <2>6, CountsOfPayments
  <2>11. /\ BudgetBar(state).first = state.spentFirst /\ BudgetBar(state).repeat = state.spentRepeat
         /\ Counters(run, state).arrived[1] = state.arrived
         /\ Counters(run, state).payments[1] = state.payments
         /\ Counters(run, state).twice = state.paidTwice /\ Counters(run, state).zero = state.unpaid
         /\ FlowStrip(run, state, TRUE).refused = state.repeatsRefused + state.budgetRefusals
         /\ FlowStrip(run, state, TRUE).payments = state.payments
    BY DEF BudgetBar, Counters, FlowStrip
  <2>12. /\ climax.paidTwice = s.double_paid /\ climax.unpaid = s.unpaid
         /\ climax.repeatsRefused = s.duplicates_suppressed /\ climax.misallocated = s.misallocated
         /\ climax.sentence = IF run.verdict = "PASS" THEN "exactly one payment each" ELSE failSentence(s)
    BY DEF Climax, s
  <2> HIDE DEF climax
  <2>13. FlowStrip(run, state, TRUE).refused + FlowStrip(run, state, TRUE).payments = s.deliveries
    <3>1. /\ s.deliveries = Len(rows)
          /\ s.ledger_effects = Cardinality(WithOutcome(rows, "COMMITTED"))
          /\ s.duplicates_suppressed = Cardinality(WithOutcome(rows, "DUPLICATE_SUPPRESSED"))
          /\ s.budget_exhausted = Cardinality(WithOutcome(rows, "BUDGET_EXHAUSTED"))
      BY <2>6 DEF evaluate
    <3>2. /\ s.ledger_effects \in Nat /\ s.duplicates_suppressed \in Nat /\ s.budget_exhausted \in Nat
          /\ s.ledger_effects + s.duplicates_suppressed + s.budget_exhausted = s.deliveries
      BY <2>3, <3>1, OutcomesAddUp DEF RowOutcomes
    <3> DEFINE refused == FlowStrip(run, state, TRUE).refused
               payments == FlowStrip(run, state, TRUE).payments
    <3>3. refused = s.duplicates_suppressed + s.budget_exhausted /\ payments = s.ledger_effects
      BY <2>9, <2>11, Zenon
    <3> HIDE DEF refused, payments
    <3>4. refused + payments = s.deliveries
      BY <3>2, <3>3
    <3> QED BY <3>4, Zenon DEF refused, payments
  <2>14. ASSUME run.verdict = "FAIL"
         PROVE  /\ (why.doublePaid # {}) = (climax.paidTwice > 0)
                /\ (why.unpaid # {}) = (climax.unpaid > 0) /\ why.zero = climax.unpaid
                /\ why.doublePaid \subseteq In(students, "paid_twice")
                /\ why.unpaid \subseteq In(students, "unpaid")
                /\ climax.sentence # "a check failed"
    <3> DEFINE facts == inspect(rows)
    <3>1. /\ facts.doublePaid \subseteq s.double_paid_ids
          /\ (facts.doublePaid # {}) = (s.double_paid > 0)
          /\ {rows[i].entitlement : i \in facts.unpaid} \subseteq s.unpaid_ids
          /\ (facts.unpaid # {}) = (s.unpaid > 0)
          /\ facts.unpaidStudents = s.unpaid
      BY <2>3, <2>6, ExamplesExplain
    <3>2. /\ why.doublePaid = facts.doublePaid /\ why.zero = facts.unpaidStudents
          /\ why.unpaid = {rows[i].entitlement : i \in facts.unpaid}
      BY DEF WhyItFailed
    <3> HIDE DEF facts, why
    <3>3. (why.unpaid # {}) = (facts.unpaid # {})
      BY <3>2
    <3>4. climax.sentence # "a check failed"
      <4>1. s.double_paid \in Nat /\ s.unpaid \in Nat
        BY <2>3, <2>6, StudentsAddUp
      <4>2. ~(s.double_paid = 0 /\ s.unpaid = 0)
        <5>1. verdictOf(evaluate(rows)) = IF evaluate(rows).double_paid = 0 /\ evaluate(rows).unpaid = 0 THEN "PASS" ELSE "FAIL"
          BY <2>3, FailuresAreNamed
        <5> QED BY <2>6, <2>14, <5>1
      <4>3. failSentence(s) # "a check failed"
        BY <4>1, <4>2 DEF failSentence
      <4> QED BY <2>12, <2>14, <4>3
    <3> QED BY <2>10, <2>12, <3>1, <3>2, <3>3, <3>4
  <2> QED BY <2>7, <2>9, <2>10, <2>11, <2>12, <2>13, <2>14
<1> QED BY <1>1, RowsInvariant, PTL

\* A tile of more payments ranks no lower.
LEMMA TilesRankByPayments ==
  ASSUME NEW m \in Nat, NEW n \in Nat, m <= n, NEW b \in BOOLEAN, NEW c \in BOOLEAN, b => c
  PROVE  Rank(tileState(m, b)) <= Rank(tileState(n, c))
<1>1. Rank("pending") = 0 /\ Rank("unpaid") = 1 /\ Rank("paid_once") = 2 /\ Rank("paid_twice") = 3
  BY DEF Rank
<1>2. m >= 2 \/ m = 1 \/ m = 0
  OBVIOUS
<1>3. CASE m >= 2
  BY <1>1, <1>3 DEF tileState
<1>4. CASE m = 1
  BY <1>1, <1>4 DEF tileState
<1>5. CASE m = 0
  BY <1>1, <1>5 DEF tileState
<1> QED BY <1>2, <1>3, <1>4, <1>5

\* No step takes rows from the cache, nor changes what the processors make of a run.
LEMMA RowsSeenOnlyGrow ==
    ASSUME StageInv, RowsInv, [Next]_vars, CacheOK(data'), NEW r \in Runs, Has(data, r, "rows")
    PROVE  /\ story' = story /\ Has(data', r, "rows")
           /\ Get(data, r, "rows").recorded \subseteq Get(data', r, "rows").recorded
<1> DEFINE q == <<r, "rows">>
<1>0. q \in RowQueries /\ q \in Queries /\ q[1] = r /\ "rows" \in Kinds
  BY DEF RowQueries, Queries, Kinds
<1>1. Get(data, r, "rows") \in data[q] /\ \A a, b \in data[q] : a = b
  BY <1>0, GetIsCached DEF StageInv, AnswersOK, CacheOK
<1>2. CASE Backend \/ StartServed
  BY <1>2 DEF Backend, StartServed, cacheVars, Has, Get
<1>3. CASE ~(Backend \/ StartServed)
  <2>1. UNCHANGED serverVars /\ (Passes(q) \/ Serves(q) \/ Delivers(q))
    BY <1>0, <1>3, QueryOfRows DEF Next, Query, Fault, Ticks, Starts
  <2>2. story' = story
    BY <2>1 DEF serverVars
  <2>3. CASE data'[q] = data[q]
    BY <2>2, <2>3 DEF Has, Get
  <2>4. CASE Delivers(q)
    <3>1. Has(data', r, "rows")
      BY <2>4 DEF Delivers, Has
    <3>2. Get(data', r, "rows") \in data'[q]
      BY <1>0, <3>1, GetIsCached
    <3>3. Get(data', r, "rows") = fetching[q].with
      BY <2>4, <3>2 DEF Delivers
    <3>4. Get(data, r, "rows").recorded \subseteq fetching[q].with.recorded
      BY <1>0, <1>1, <2>4 DEF Delivers, RowsInv, RowsOnTheirWay
    <3> QED BY <2>2, <3>1, <3>3, <3>4
  <2> QED BY <2>1, <2>3, <2>4 DEF Passes, Serves
<1> QED BY <1>2, <1>3

\* The rows that a page has of a run are rows of its script.
LEMMA RowsSeenAreRecorded ==
    ASSUME StageInv, RowsInv, NEW r \in Runs, Has(data, r, "rows")
    PROVE  /\ story[r].rows \in Rows
           /\ Get(data, r, "rows").recorded \in SUBSET DOMAIN story[r].rows
<1>1. <<r, "rows">> \in RowQueries /\ <<r, "rows">>[1] = r /\ "rows" \in Kinds
  BY DEF RowQueries, Queries, Kinds
<1>2. Get(data, r, "rows") \in data[<<r, "rows">>]
  BY <1>1, GetIsCached DEF StageInv, AnswersOK
<1>3. Get(data, r, "rows").recorded \subseteq server[r].recorded
  BY <1>1, <1>2 DEF RowsInv, RowsCached
<1>4. server[r].recorded \subseteq DOMAIN story[r].rows
  BY DEF RowsInv, Recordings, Whole
<1> QED BY <1>3, <1>4 DEF StageInv, BackendOK, Scripts, Rows

\* While a run goes on and is watched, no new answer, nor anything else, takes a tile
\* of the live stage back: polled rows may be old, but are never fewer than those
\* on show (useDeliveries in queries.ts, tileState in deriveTheater.ts).
THEOREM LiveTilesAdvance == Spec => TilesOnlyAdvance
<1>1. /\ StageInv /\ RowsInv /\ (StageInv /\ RowsInv)' /\ [Next]_vars
      => [\A r \in Runs : (Watching(r) /\ Watching(r)' /\ Loaded(r) /\ Running(data, r) /\ Running(data', r)) =>
            \A e \in Entitlements :
               Rank(deriveTheater(SeenRows(r), cursor).tiles[e])
                  <= Rank(deriveTheater(SeenRows(r)', cursor').tiles[e])]_<<data, page, stage>>
  <2> SUFFICES ASSUME StageInv, RowsInv, StageInv', RowsInv', [Next]_vars, NEW r \in Runs,
                      Watching(r), Watching(r)', Loaded(r), Running(data, r), Running(data', r),
                      NEW e \in Entitlements
               PROVE  Rank(deriveTheater(SeenRows(r), cursor).tiles[e])
                        <= Rank(deriveTheater(SeenRows(r)', cursor').tiles[e])
    OBVIOUS
  <2> DEFINE rows == story[r].rows
             P == Get(data, r, "rows").recorded
             Q == Get(data', r, "rows").recorded
  <2>1. Has(data, r, "rows") /\ page.on = r /\ page'.on = r
    BY DEF Loaded, Watching
  <2>2. CacheOK(data')
    BY DEF StageInv, AnswersOK, CacheOK
  <2>3. story' = story /\ Has(data', r, "rows") /\ P \subseteq Q
    BY <2>1, <2>2, RowsSeenOnlyGrow
  <2>4. rows \in Rows /\ P \in SUBSET DOMAIN rows
    BY <2>1, RowsSeenAreRecorded
  <2>5. Q \in SUBSET DOMAIN rows
    <3>1. <<r, "rows">> \in RowQueries /\ <<r, "rows">>[1] = r /\ "rows" \in Kinds
      BY DEF RowQueries, Queries, Kinds
    <3>2. Get(data', r, "rows") \in data'[<<r, "rows">>]
      BY <2>2, <2>3, <3>1, GetIsCached
    <3>3. Q \subseteq server'[r].recorded
      BY <3>1, <3>2 DEF RowsInv, RowsCached
    <3>4. server'[r].recorded \subseteq DOMAIN rows
      BY <2>3 DEF RowsInv, Recordings, Whole
    <3> QED BY <3>3, <3>4
  <2>6. SeenRows(r) = RowsAt(rows, P) /\ SeenRows(r)' = RowsAt(rows, Q)
    BY <2>3 DEF SeenRows, Get
  <2>7. cursor = Len(SeenRows(r)) /\ cursor' = Len(SeenRows(r)')
    BY <2>1 DEF cursor
  <2> HIDE DEF rows, P, Q
  <2>8. /\ deriveTheater(SeenRows(r), cursor).tiles[e]
             = tileState(Paid(RowsAt(rows, P), e), Refused(RowsAt(rows, P), e))
        /\ deriveTheater(SeenRows(r)', cursor').tiles[e]
             = tileState(Paid(RowsAt(rows, Q), e), Refused(RowsAt(rows, Q), e))
    <3>1. RowsAt(rows, P) \in Rows /\ RowsAt(rows, Q) \in Rows
      BY <2>4, <2>5, RowsAtPositions
    <3> QED BY <2>6, <2>7, <3>1, TileOfAllRows
  <2>9. /\ Paid(RowsAt(rows, P), e) \in Nat /\ Paid(RowsAt(rows, Q), e) \in Nat
        /\ Paid(RowsAt(rows, P), e) <= Paid(RowsAt(rows, Q), e)
        /\ Refused(RowsAt(rows, P), e) => Refused(RowsAt(rows, Q), e)
        /\ Refused(RowsAt(rows, P), e) \in BOOLEAN /\ Refused(RowsAt(rows, Q), e) \in BOOLEAN
    BY <2>3, <2>4, <2>5, MoreRowsPayMore DEF Refused
  <2> QED BY <2>8, <2>9, TilesRankByPayments
<1> QED BY <1>1, RowsInvariant, PTL DEF Spec, TilesOnlyAdvance

-----------------------------------------------------------------------------
(* What the pages say                                                      *)

\* Every page that shows figures of a run that is done shows the evaluator's.
LEMMA FiguresOfADoneRun ==
  ASSUME NEW rows \in Rows, NEW run, Done(run, rows)
  PROVE  FiguresAgree(run, rows)
<1> DEFINE s == run.summary
           tiles == studentTiles(rows, TRUE)
           metric == METRIC_ROWS(run)
           receipt == ReceiptPage(run, rows)
           counts == CountsTable(receipt.summary)
<1>1. s = evaluate(rows) /\ run.verdict = verdictOf(s) /\ run.status = "COMPLETED"
  BY DEF Done
<1>2. run.verdict \in {"PASS", "FAIL"} /\ run.verdict # None
  BY <1>1, VerdictIsNotNull
<1>3. /\ s.double_paid \in Nat /\ (s.double_paid = 0 <=> s.double_paid_ids = {})
      /\ s.unpaid \in Nat /\ (s.unpaid = 0 <=> s.unpaid_ids = {})
      /\ s.paid_once \in Nat /\ s.ledger_effects \in Nat
      /\ s.paid_once + s.double_paid + s.unpaid = s.eligible
  BY <1>1, StudentsAddUp
<1>4. /\ run.verdict = IF s.double_paid = 0 /\ s.unpaid = 0 THEN "PASS" ELSE "FAIL"
      /\ s.double_paid = 0 => s.misallocated = 0 /\ s.spent <= TotalBudget
  <2>1. LET x == evaluate(rows)
        IN  /\ verdictOf(x) = IF x.double_paid = 0 /\ x.unpaid = 0 THEN "PASS" ELSE "FAIL"
            /\ x.double_paid = 0 => x.misallocated = 0 /\ x.spent <= TotalBudget
    BY FailuresAreNamed
  <2> HIDE DEF s
  <2> QED BY <1>1, <2>1
<1>5. /\ In(tiles, "paid_twice") = s.double_paid_ids /\ In(tiles, "unpaid") = s.unpaid_ids
      /\ countStates(tiles) = [paid_once |-> s.paid_once, paid_twice |-> s.double_paid,
                               unpaid |-> s.unpaid, pending |-> 0]
  BY <1>1, CountsOfPayments
<1>6. /\ s.deliveries = Len(rows) /\ s.duplicates_suppressed \in Nat /\ s.budget_exhausted \in Nat
      /\ s.ledger_effects + s.duplicates_suppressed + s.budget_exhausted = Len(rows)
  <2>1. /\ s.deliveries = Len(rows)
        /\ s.ledger_effects = Cardinality(WithOutcome(rows, "COMMITTED"))
        /\ s.duplicates_suppressed = Cardinality(WithOutcome(rows, "DUPLICATE_SUPPRESSED"))
        /\ s.budget_exhausted = Cardinality(WithOutcome(rows, "BUDGET_EXHAUSTED"))
    BY <1>1 DEF evaluate
  <2> HIDE DEF s
  <2> QED BY <2>1, OutcomesAddUp DEF RowOutcomes
<1>7. /\ receipt.shows = "receipt" /\ receipt.verdict = run.verdict /\ receipt.summary = s
  <2> HIDE DEF s
  <2>1. receipt.shows = "receipt" /\ receipt.verdict = verdictOf(evaluate(rows)) /\ receipt.summary = evaluate(rows)
    BY <1>1 DEF ReceiptPage
  <2> QED BY <1>1, <2>1
<1>8. /\ metric.deliveries = s.deliveries
      /\ metric.paid_once = <<s.paid_once, s.eligible>>
      /\ metric.one_payment = IF s.double_paid = 0 THEN "PASS" ELSE "FAIL"
      /\ metric.every_paid[1] = IF s.unpaid = 0 THEN "PASS" ELSE "FAIL"
      /\ metric.budget_guard = IF s.spent <= TotalBudget THEN "PASS" ELSE "FAIL"
  <2>1. /\ checks(s)["one_payment_per_entitlement"] = (s.double_paid = 0)
        /\ checks(s)["every_eligible_paid"] = (s.unpaid = 0)
        /\ checks(s)["budget_guard"] = (s.spent <= TotalBudget)
    <3> HIDE DEF s
    <3> QED BY DEF checks
  <2> QED BY <2>1 DEF METRIC_ROWS
<1>9. Side(run).figures = <<s.double_paid, s.unpaid, s.misallocated>>
  BY DEF Side
<1>10. GridCard(run, {tiles}).counts = {countStates(tiles)}
  <2> HIDE DEF tiles
  <2> QED BY DEF GridCard
<1>11. /\ counts.effects = s.ledger_effects /\ counts.refused = s.duplicates_suppressed
       /\ counts.broke = s.budget_exhausted
       /\ counts.once = s.paid_once /\ counts.twice = s.double_paid /\ counts.zero = s.unpaid
  <2> HIDE DEF receipt, s
  <2> QED BY <1>7 DEF CountsTable
<1>12. /\ ServicePath(run, 0).process = {s.deliveries}
       /\ ServicePath(run, 0).record = {<<s.ledger_effects, s.duplicates_suppressed + s.budget_exhausted>>}
  BY <1>2 DEF ServicePath
<1>13. \A e \in Entitlements : (HistoryRows({run}, statusOf(run), {e}) # {}) = (e \in affected(tiles))
  BY SearchFindsTheAffected
<1>14. /\ RunOutcomeBadge(run) = run.verdict
       /\ statusOf(run) = IF VerificationPill(run).says = "Integrity verified" THEN "passed" ELSE "failed"
       /\ VerificationPill(run).receipt = TRUE
  BY <1>1, <1>2 DEF RunOutcomeBadge, statusOf, VerificationPill, is_terminal
<1> HIDE DEF s, tiles, metric, receipt, counts
<1>15. (run.verdict = "PASS") = ("FAIL" \notin {metric.one_payment, metric.every_paid[1], metric.budget_guard})
  BY <1>4, <1>8
<1>16. run.verdict = "PASS" => affected(tiles) = {} /\ Side(run).figures = <<0, 0, 0>>
  BY <1>3, <1>4, <1>5, <1>9 DEF affected
<1>17. GridCard(run, {tiles}).counts =
         {[paid_once |-> metric.paid_once[1], paid_twice |-> Side(run).figures[1],
           unpaid |-> Side(run).figures[2], pending |-> 0]}
  BY <1>5, <1>8, <1>9, <1>10
<1>18. counts.effects + counts.refused + counts.broke = Len(rows)
  BY <1>6, <1>11
<1>19. counts.once + counts.twice + counts.zero = metric.paid_once[2]
  BY <1>3, <1>8, <1>11
<1>20. \A processed \in ServicePath(run, 0).record : processed[1] + processed[2] = Len(rows)
  <2>1. \A a, b, c \in Nat : a + (b + c) = a + b + c
    OBVIOUS
  <2>2. s.ledger_effects + (s.duplicates_suppressed + s.budget_exhausted) = Len(rows)
    BY <1>3, <1>6, <2>1
  <2> QED BY <1>12, <2>2
<1>21. ServicePath(run, 0).process = {metric.deliveries}
  BY <1>8, <1>12
<1>22. VerificationPill(run).receipt = (receipt.shows = "receipt")
  BY <1>7, <1>14
<1> QED
  BY <1>7, <1>13, <1>14, <1>15, <1>16, <1>17, <1>18, <1>19, <1>20, <1>21, <1>22
     DEF FiguresAgree, s, tiles, metric, receipt, counts

\* The drawers of its students say what its grid and its figures say.
LEMMA StudentsOfADoneRun ==
  ASSUME NEW rows \in Rows, Resolved(rows), NEW run, Done(run, rows)
  PROVE  StudentsAgree(run, rows)
<1> DEFINE drawer(e) == StudentDrawer(student_detail(run, rows, e), {})
           received == [e \in Entitlements |-> drawer(e).figures[1]]
<1>1. Total(received, Entitlements) = METRIC_ROWS(run).effects
  <2>1. \A e \in Entitlements : received[e] = Paid(rows, e)
    BY DrawerOfAStudent
  <2> HIDE DEF received
  <2>2. Total(received, Entitlements) = Cardinality(WithOutcome(rows, "COMMITTED"))
    BY <2>1, PaymentsCount
  <2>3. METRIC_ROWS(run).effects = run.summary.ledger_effects
    BY DEF METRIC_ROWS
  <2>4. run.summary.ledger_effects = Cardinality(WithOutcome(rows, "COMMITTED"))
    BY DEF Done, evaluate
  <2> QED BY <2>2, <2>3, <2>4
<1>2. ASSUME NEW e \in Entitlements
      PROVE  /\ \A column \in drawer(e).columns :
                   /\ column.received = drawer(e).figures[1]
                   /\ (drawer(e).status = "paid_twice") = (\E i \in DOMAIN column.results : column.results[i] = "twice")
             /\ drawer(e).cause \in
                   {<<"the repeats used the budget", inspect(rows).repeatPayments>>,
                    <<"pays every instruction">>, <<"the record already existed">>, <<>>}
             /\ studentTiles(rows, TRUE)[e] = "unpaid" =>
                   /\ drawer(e).whyNothing
                   /\ drawer(e).paidMeanwhile = In(studentTiles(rows, TRUE), "paid_twice")
  BY DrawerOfAStudent
<1> QED BY <1>1, <1>2 DEF StudentsAgree

\* The badge over the grid of a pair.
LEMMA BadgeOfAPair ==
  ASSUME NEW rows \in Rows, NEW run, Done(run, rows),
         NEW other, other.run_id \in Runs, story[other.run_id].rows \in Rows, Done(other, story[other.run_id].rows),
         other.fingerprint = run.fingerprint, other.processor # run.processor,
         other.processor \in {"vulnerable", "protected"}, run.processor \in {"vulnerable", "protected"},
         NEW swap \in BOOLEAN
  PROVE  BadgeIsOfTheGrid(run, studentTiles(rows, TRUE), other, swap)
<1> DEFINE theirs == story[other.run_id].rows
           tiles == studentTiles(rows, TRUE)
           t2 == studentTiles(theirs, TRUE)
           alternate == [run |-> other, tiles |-> {t2}]
           shown == RunTheater(run, {tiles}, {}, 0, TRUE, {alternate}, swap)
           badge == ProcessorToggle(swap, run, other)
<1>1. /\ run.verdict # None /\ other.verdict # None
      /\ run.summary = evaluate(rows) /\ other.summary = evaluate(theirs)
      /\ other.verdict = verdictOf(evaluate(theirs))
  BY VerdictIsNotNull DEF Done
<1>2. /\ In(tiles, "paid_twice") = evaluate(rows).double_paid_ids /\ In(tiles, "unpaid") = evaluate(rows).unpaid_ids
      /\ In(t2, "paid_twice") = evaluate(theirs).double_paid_ids /\ In(t2, "unpaid") = evaluate(theirs).unpaid_ids
  BY CountsOfPayments
<1>3. /\ evaluate(rows).double_paid = Cardinality(evaluate(rows).double_paid_ids)
      /\ evaluate(rows).unpaid = Cardinality(evaluate(rows).unpaid_ids)
      /\ evaluate(theirs).double_paid = Cardinality(evaluate(theirs).double_paid_ids)
      /\ evaluate(theirs).unpaid = Cardinality(evaluate(theirs).unpaid_ids)
  BY DEF evaluate
<1>4. other.verdict = "FAIL" => affected(t2) # {}
  <2>1. LET s == evaluate(theirs)
        IN  verdictOf(s) = IF s.double_paid = 0 /\ s.unpaid = 0 THEN "PASS" ELSE "FAIL"
    BY FailuresAreNamed
  <2>2. LET s == evaluate(theirs)
        IN  (s.double_paid = 0 <=> s.double_paid_ids = {}) /\ (s.unpaid = 0 <=> s.unpaid_ids = {})
    BY StudentsAddUp
  <2> HIDE DEF t2, theirs
  <2> QED BY <1>1, <1>2, <2>1, <2>2 DEF affected
<1> HIDE DEF tiles, t2, theirs
<1>5. /\ alternate.run = other /\ alternate.tiles = {t2}
      /\ {a \in {alternate} : a.run.fingerprint = run.fingerprint} = {alternate}
  OBVIOUS
<1>6. /\ {a.run : a \in {alternate}} = {other} /\ UNION {a.tiles : a \in {alternate}} = {t2}
  BY <1>5
<1> HIDE DEF alternate
<1>7. /\ shown.shown = IF swap THEN other ELSE run
      /\ shown.tiles = IF swap THEN {t2} ELSE {tiles}
      /\ shown.glow = "fail" => swap /\ other.verdict = "FAIL"
  <2> DEFINE paired == {a \in {alternate} : a.run.fingerprint = run.fingerprint}
             swapped == swap /\ paired # {}
             shownRun == IF swapped THEN CHOOSE r \in {a.run : a \in paired} : TRUE ELSE run
  <2>1. paired = {alternate}
    BY <1>5
  <2> HIDE DEF paired
  <2>2. swapped = swap /\ shownRun = IF swap THEN other ELSE run
    BY <1>6, <2>1
  <2>3. shown.shown = shownRun
    BY DEF RunTheater, paired
  <2>4. shown.tiles = IF swapped THEN UNION {a.tiles : a \in paired} ELSE {tiles}
    BY <1>1 DEF RunTheater, paired
  <2>5. shown.glow = CASE swapped /\ shownRun.verdict = "FAIL" -> "fail"
                       [] paired # {} /\ ~swapped /\ shownRun.verdict = "PASS" -> "pass"
                       [] OTHER -> "none"
    BY DEF RunTheater, paired
  <2> HIDE DEF shown, swapped, shownRun
  <2>6. shown.glow = "fail" => swapped /\ shownRun.verdict = "FAIL"
    BY <2>5
  <2> QED BY <1>6, <2>1, <2>2, <2>3, <2>4, <2>6
<1>8. badge.of = IF swap THEN other ELSE run
  BY DEF ProcessorToggle
<1>9. badge.of.processor = "vulnerable" =>
         badge.figures = <<badge.of.summary.double_paid, badge.of.summary.unpaid>>
  BY DEF ProcessorToggle
<1> HIDE DEF shown, badge
<1>10. badge.of = shown.shown
  BY <1>7, <1>8
<1>11. shown.glow = "fail" => \E t \in shown.tiles : affected(t) # {}
  BY <1>4, <1>7
<1>12. ASSUME badge.of.processor = "vulnerable", NEW t \in shown.tiles
       PROVE  badge.figures = <<Cardinality(In(t, "paid_twice")), Cardinality(In(t, "unpaid"))>>
  <2>1. CASE swap
    BY <1>1, <1>2, <1>3, <1>7, <1>8, <1>9, <1>12, <2>1
  <2>2. CASE ~swap
    BY <1>1, <1>2, <1>3, <1>7, <1>8, <1>9, <1>12, <2>2
  <2> QED BY <2>1, <2>2
<1> QED BY <1>10, <1>11, <1>12 DEF BadgeIsOfTheGrid, shown, badge, alternate, t2, theirs, tiles

\* A run that the visitor has seen end is done.
LEMMA ShownIsDone ==
    ASSUME StageInv, RowsInv, NEW r \in Runs, Shown(r)
    PROVE  /\ story[r].rows \in Rows /\ Resolved(story[r].rows)
           /\ Done(RunSeen(data, r), story[r].rows)
<1> DEFINE a == Get(data, r, "run")
<1>1. "run" \in Kinds /\ CacheOK(data)
  BY DEF Kinds, StageInv, AnswersOK
<1>2. a \in data[<<r, "run">>] /\ a.status = "COMPLETED"
  BY <1>1, GetIsCached DEF Shown, Known
<1>3. Final(r, a)
  BY <1>2 DEF StageInv, AnswersOK, FinalInCache
<1>4. a.evaluated
  <2>1. server[r].status = "COMPLETED" /\ a.evaluated = server[r].evaluated
    BY <1>2, <1>3 DEF Final, Over
  <2> QED BY <2>1 DEF StageInv, BackendOK
<1>5. Terminal(data, r)
  BY <1>2 DEF Terminal, Shown, Over
<1>6. Done(RunSeen(data, r), story[r].rows)
  BY <1>2, <1>4, RunSeenIsOfTheScript DEF Done
<1> QED BY <1>4, <1>5, <1>6, VerdictIsOfTheWhole

\* The runs that a visitor has seen to their end.
SeenToEnd == {RunSeen(data, r) : r \in {x \in Runs : Shown(x)}}

\* GET /runs lists them, each once.
LEMMA ListedRuns ==
    Lists(Listed, Cardinality(SeenToEnd), SeenToEnd) /\ Range(Listed) = SeenToEnd
<1>1. IsFiniteSet(SeenToEnd)
  <2> DEFINE R == {x \in Runs : Shown(x)}
  <2>1. IsFiniteSet(R)
    BY StageAssumption, FS_Subset
  <2> HIDE DEF R
  <2> DEFINE f == [r \in R |-> RunSeen(data, r)]
  <2>2. SeenToEnd = {f[r] : r \in R}
    BY DEF SeenToEnd, R
  <2>3. f \in Surjection(R, SeenToEnd)
    <3>1. f \in [R -> SeenToEnd] /\ \A x \in SeenToEnd : \E r \in R : f[r] = x
      BY <2>2
    <3> HIDE DEF f
    <3> QED BY <3>1 DEF Surjection
  <2> QED BY <2>1, <2>3, FS_Surjection
<1>2. Listed = SetToSeq(SeenToEnd)
  BY DEF Listed, SeenToEnd
<1>3. Lists(Listed, Cardinality(SeenToEnd), SeenToEnd)
  BY <1>1, <1>2, SequenceOfSet, FS_CardinalityType DEF Lists
<1> QED BY <1>3, RangeOfAList

\* Every page that pairs the run with another one pairs it with a run of the same test,
\* and tells them apart.
LEMMA PairOfADoneRun ==
    ASSUME StageInv, RowsInv, NEW r \in Runs, Shown(r)
    PROVE  PairAgrees(RunSeen(data, r), story[r].rows)
<1> DEFINE run == RunSeen(data, r)
           rows == story[r].rows
           L == SeenToEnd
           n == Cardinality(L)
           Of(p) == {x \in L : x.fingerprint = run.fingerprint /\ x.processor = p /\ evaluated(x)}
           pair == pairFor(Listed, run.fingerprint)
           SiblingsOf(x) == {y \in L : /\ y.run_id # x.run_id /\ y.fingerprint = x.fingerprint
                                       /\ y.processor # x.processor /\ evaluated(y)}
           siblings == useSiblingRun(run, Listed)
<1>1. ASSUME NEW x \in L
      PROVE  /\ x.run_id \in Runs /\ x = RunSeen(data, x.run_id)
             /\ x.processor \in {"vulnerable", "protected"} /\ evaluated(x)
             /\ story[x.run_id].rows \in Rows /\ Resolved(story[x.run_id].rows) /\ Done(x, story[x.run_id].rows)
  <2>1. PICK o \in Runs : Shown(o) /\ x = RunSeen(data, o)
    BY DEF SeenToEnd
  <2>2. x.run_id = o /\ x.processor = story[o].processor
    BY <2>1, RunSeenIsOfTheScript
  <2>3. story[o].processor \in {"vulnerable", "protected"}
    BY DEF StageInv, BackendOK, Scripts
  <2>4. story[o].rows \in Rows /\ Resolved(story[o].rows) /\ Done(x, story[o].rows)
    BY <2>1, ShownIsDone
  <2> QED BY <2>1, <2>2, <2>3, <2>4, DoneIsEvaluated
<1>2. run \in L /\ run.run_id = r
  BY RunSeenIsOfTheScript DEF SeenToEnd
<1>3. \A W \in SUBSET L : find(Listed, W) \subseteq W /\ (find(Listed, W) = {} <=> W = {})
  <2> HIDE DEF L
  <2> SUFFICES ASSUME NEW W \in SUBSET L PROVE find(Listed, W) \subseteq W /\ (find(Listed, W) = {} <=> W = {})
    OBVIOUS
  <2>1. Lists(Listed, n, L)
    BY ListedRuns DEF L
  <2> HIDE DEF n
  <2> QED BY <2>1, FindOfAList
<1>4. /\ pair.unprotected = find(Listed, Of("vulnerable")) /\ pair.protected = find(Listed, Of("protected"))
      /\ pair.matched = \E a \in pair.unprotected, b \in pair.protected : a.fingerprint = b.fingerprint
  BY ListedRuns DEF pairFor
<1>5. \A x : useSiblingRun(x, Listed) = find(Listed, SiblingsOf(x))
  BY ListedRuns DEF useSiblingRun
<1> HIDE DEF L, pair, run, siblings
<1>6. /\ pair.unprotected \subseteq Of("vulnerable") /\ (pair.unprotected = {} <=> Of("vulnerable") = {})
      /\ pair.protected \subseteq Of("protected") /\ (pair.protected = {} <=> Of("protected") = {})
  BY <1>3, <1>4
<1>7. \A x : useSiblingRun(x, Listed) \subseteq SiblingsOf(x) /\ (useSiblingRun(x, Listed) = {} <=> SiblingsOf(x) = {})
  <2> SUFFICES ASSUME NEW x PROVE useSiblingRun(x, Listed) \subseteq SiblingsOf(x)
                                  /\ (useSiblingRun(x, Listed) = {} <=> SiblingsOf(x) = {})
    OBVIOUS
  <2>1. SiblingsOf(x) \in SUBSET L
    OBVIOUS
  <2> HIDE DEF SiblingsOf
  <2> QED BY <1>3, <1>5, <2>1
<1>8. (Of("vulnerable") # {} /\ Of("protected") # {}) <=> SiblingsOf(run) # {}
  <2>1. run \in Of(run.processor) /\ run.processor \in {"vulnerable", "protected"}
    BY <1>1, <1>2
  <2>2. ASSUME Of("vulnerable") # {}, Of("protected") # {} PROVE SiblingsOf(run) # {}
    <3>1. PICK p \in {"vulnerable", "protected"} : p # run.processor
      OBVIOUS
    <3>2. PICK x \in Of(p) : TRUE
      BY <2>2
    <3>3. x \in L /\ x.processor # run.processor /\ x.fingerprint = run.fingerprint /\ evaluated(x)
      BY <3>1, <3>2
    <3>4. x.run_id # run.run_id
      BY <1>1, <1>2, <3>3
    <3> QED BY <3>3, <3>4
  <2>3. ASSUME NEW x \in SiblingsOf(run) PROVE Of("vulnerable") # {} /\ Of("protected") # {}
    <3>1. x \in Of(x.processor) /\ x.processor \in {"vulnerable", "protected"} /\ x.processor # run.processor
      BY <1>1
    <3> QED BY <2>1, <3>1
  <2> QED BY <2>2, <2>3
<1>9. pair.matched <=> pair.unprotected # {} /\ pair.protected # {}
  BY <1>4, <1>6
<1>10. (SameTestCard(pair).says = "match") = (siblings # {})
  <2>1. SameTestCard(pair).says = "match" <=> pair.matched
    BY <1>4, <1>9 DEF SameTestCard
  <2>2. siblings # {} <=> SiblingsOf(run) # {}
    BY <1>7 DEF siblings
  <2> QED BY <1>6, <1>8, <1>9, <2>1, <2>2
<1>11. \A b \in pair.protected : \A a \in ProveActions(b, pair).a : MatchBanner(a, b) = "only the processor changed"
  <2> SUFFICES ASSUME NEW b \in pair.protected, NEW a \in ProveActions(b, pair).a
               PROVE  MatchBanner(a, b) = "only the processor changed"
    OBVIOUS
  <2>1. a \in pair.unprotected /\ a.fingerprint = b.fingerprint
    BY DEF ProveActions
  <2>2. a.processor = "vulnerable" /\ b.processor = "protected"
    BY <1>6, <2>1
  <2> QED BY <2>1, <2>2 DEF MatchBanner
<1>12. ASSUME NEW other \in siblings, NEW swap \in BOOLEAN
       PROVE  /\ useSiblingRun(other, Listed) # {}
              /\ \A back \in useSiblingRun(other, Listed) : MatchBanner(back, run) = "same test, same processor"
              /\ BadgeIsOfTheGrid(run, studentTiles(rows, TRUE), other, swap)
  <2>1. other \in SiblingsOf(run)
    BY <1>7 DEF siblings
  <2>2. other \in L /\ other.fingerprint = run.fingerprint /\ other.processor # run.processor
        /\ other.run_id # run.run_id
    BY <2>1
  <2>3. run \in SiblingsOf(other)
    BY <1>1, <1>2, <2>2
  <2>4. useSiblingRun(other, Listed) # {}
    BY <1>7, <2>3
  <2>5. ASSUME NEW back \in useSiblingRun(other, Listed) PROVE MatchBanner(back, run) = "same test, same processor"
    <3>1. back \in SiblingsOf(other)
      BY <1>7
    <3>2. back \in L /\ back.fingerprint = run.fingerprint /\ back.processor # other.processor
      BY <2>2, <3>1
    <3>3. back.processor = run.processor
      BY <1>1, <1>2, <2>2, <3>2
    <3> QED BY <3>2, <3>3 DEF MatchBanner
  <2>6. BadgeIsOfTheGrid(run, studentTiles(rows, TRUE), other, swap)
    <3>1. rows \in Rows /\ Done(run, rows)
      BY <1>1, <1>2
    <3>2. /\ other.run_id \in Runs /\ story[other.run_id].rows \in Rows /\ Done(other, story[other.run_id].rows)
          /\ other.processor \in {"vulnerable", "protected"} /\ run.processor \in {"vulnerable", "protected"}
      BY <1>1, <1>2, <2>2
    <3> QED BY <2>2, <3>1, <3>2, BadgeOfAPair
  <2> QED BY <2>4, <2>5, <2>6
<1> QED BY <1>10, <1>11, <1>12 DEF PairAgrees, pair, siblings, run

\* All pages say the same of a run that the visitor has seen to its end: figures,
\* badges, student grid, drawers, receipt, search and comparison agree with each
\* other and with the rows, for every script whose refusals are explained, for all
\* amounts, any number of students, and any set of runs in the list.
THEOREM PagesTellOneThing == Spec => []PagesAgree
<1>1. StageInv /\ RowsInv => PagesAgree
  <2> SUFFICES ASSUME StageInv, RowsInv, NEW r \in Runs, Shown(r)
               PROVE  /\ FiguresAgree(RunSeen(data, r), story[r].rows)
                      /\ StudentsAgree(RunSeen(data, r), story[r].rows)
                      /\ PairAgrees(RunSeen(data, r), story[r].rows)
    BY DEF PagesAgree
  <2>1. /\ story[r].rows \in Rows /\ Resolved(story[r].rows)
        /\ Done(RunSeen(data, r), story[r].rows)
    BY ShownIsDone
  <2> QED BY <2>1, FiguresOfADoneRun, StudentsOfADoneRun, PairOfADoneRun
<1> QED BY <1>1, RowsInvariant, PTL
=============================================================================
