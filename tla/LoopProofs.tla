----------------------------- MODULE LoopProofs ------------------------------
(***************************************************************************)
(* Theorems about the programs around the cascade, for any codes, command  *)
(* lines and installed tools.                                              *)
(***************************************************************************)
EXTENDS MCLoop, FiniteSetTheorems, SequenceTheorems, WellFoundedInduction, TLAPS

-----------------------------------------------------------------------------
(* The cascade, as the driver (E) and the cascade runner (C) run it.         *)

Least(I) == CHOOSE x \in I : \A y \in I : x =< y
Greatest(I) == CHOOSE x \in I : \A y \in I : x >= y

\* A set of numbers with a member has a least one.
LEMMA LeastElement ==
    ASSUME NEW I, I \subseteq Nat, I # {}
    PROVE  Least(I) \in I /\ \A n \in I : Least(I) <= n
<1> DEFINE R == OpToRel(<, Nat)
<1>1. IsWellFoundedOn(R, Nat)
  BY NatLessThanWellFounded
<1>2. \A m, n \in Nat : m < n => <<m, n>> \in R
  BY DEF OpToRel
<1> HIDE DEF R
<1>3. PICK n \in I : \A m \in I : <<m, n>> \notin R
  BY <1>1, WFMin
<1>4. \A m \in I : ~(m < n) /\ m \in Nat /\ n \in Nat
  BY <1>2, <1>3, Zenon
<1>5. n \in I /\ \A m \in I : n <= m
  BY <1>4
<1>6. QED
  BY <1>5 DEF Least

FailedIn(reports) == {i \in DOMAIN reports : ~reports[i].passed}

\* What is kept of them when the first failure ends the run.
CutAtFailure(reports) ==
    IF FailedIn(reports) # {} THEN SubSeq(reports, 1, Least(FailedIn(reports))) ELSE reports

\* Reports of n levels of which the first k passed: the one after them is the last.
Shaped(reports, n, k) ==
    /\ k \in 0 .. n
    /\ DOMAIN reports = 1 .. (IF k = n THEN n ELSE k + 1)
    /\ \A i \in 1 .. k : reports[i].passed
    /\ k < n => ~reports[k + 1].passed

\* What the first failure cuts off (the loop in run_on_crate).
LEMMA CutShapes ==
    ASSUME NEW n \in Nat, NEW f, DOMAIN f = 1 .. n
    PROVE  \E k \in 0 .. n :
              Shaped(CutAtFailure(f), n, k) /\ \A i \in 1 .. k : CutAtFailure(f)[i] = f[i]
<1> DEFINE reports == CutAtFailure(f)
<1>0. reports = IF FailedIn(f) # {} THEN SubSeq(f, 1, Least(FailedIn(f))) ELSE f
  BY DEF CutAtFailure
<1> HIDE DEF reports
<1>1. FailedIn(f) \subseteq 1 .. n
  BY DEF FailedIn
<1>2. CASE FailedIn(f) = {}
  <2>1. reports = f
    BY <1>0, <1>2
  <2>2. \A i \in 1 .. n : f[i].passed
    BY <1>2 DEF FailedIn
  <2>3. n \in 0 .. n /\ ~(n < n)
    OBVIOUS
  <2>4. DOMAIN reports = 1 .. (IF n = n THEN n ELSE n + 1)
    BY <2>1
  <2>5. Shaped(reports, n, n)
    BY <2>1, <2>2, <2>3, <2>4, Zenon DEF Shaped
  <2>6. QED
    BY <2>1, <2>3, <2>5, Zenon DEF reports
<1>3. CASE FailedIn(f) # {}
  <2> DEFINE m == Least(FailedIn(f))
             T == {f[i] : i \in 1 .. n}
  <2>1. m \in 1 .. n
    <3>1. FailedIn(f) \subseteq Nat
      BY <1>1
    <3>2. m \in FailedIn(f)
      BY <1>3, <3>1, LeastElement
    <3>3. QED
      BY <1>1, <3>2
  <2>0. ~f[m].passed /\ \A j \in 1 .. n : ~f[j].passed => m <= j
    <3>1. FailedIn(f) \subseteq Nat
      BY <1>1
    <3>2. m \in FailedIn(f) /\ \A j \in FailedIn(f) : m <= j
      BY <1>3, <3>1, LeastElement
    <3> HIDE DEF m
    <3>3. QED
      BY <3>2 DEF FailedIn
  <2> HIDE DEF m
  <2>2. \A i \in 1 .. m : f[i] \in T
    BY <2>1
  <2> HIDE DEF T
  <2>3. /\ SubSeq(f, 1, m) \in Seq(T) /\ Len(SubSeq(f, 1, m)) = m
        /\ \A i \in 1 .. m : SubSeq(f, 1, m)[i] = f[i]
    <3>1. /\ SubSeq(f, 1, m) \in Seq(T)
          /\ Len(SubSeq(f, 1, m)) = IF 1 <= m THEN m - 1 + 1 ELSE 0
          /\ \A i \in 1 .. m - 1 + 1 : SubSeq(f, 1, m)[i] = f[1 + i - 1]
      BY <2>1, <2>2, SubSeqProperties
    <3>2. m - 1 + 1 = m /\ 1 <= m /\ \A i \in 1 .. m : 1 + i - 1 = i
      BY <2>1
    <3>3. QED
      BY <3>1, <3>2
  <2>4. reports = SubSeq(f, 1, m)
    BY <1>0, <1>3 DEF m
  <2>5. DOMAIN reports = 1 .. m /\ \A i \in 1 .. m : reports[i] = f[i]
    BY <2>3, <2>4, LenProperties
  <2>6. m - 1 \in 0 .. n /\ (m - 1) + 1 = m /\ m - 1 # n
    BY <2>1
  <2>7. \A i \in 1 .. m - 1 : reports[i] = f[i] /\ f[i].passed
    <3>1. \A i \in 1 .. m - 1 : i \in 1 .. m /\ i \in 1 .. n /\ ~(m <= i)
      BY <2>1
    <3>2. QED
      BY <2>0, <2>5, <3>1, Zenon
  <2>8. ~reports[(m - 1) + 1].passed
    <3>1. m \in 1 .. m
      BY <2>1
    <3>2. QED
      BY <2>0, <2>5, <2>6, <3>1, Zenon
  <2>9. Shaped(reports, n, m - 1)
    BY <2>5, <2>6, <2>7, <2>8 DEF Shaped
  <2>10. QED
    BY <2>6, <2>7, <2>9, Zenon DEF reports
<1>4. QED
  BY <1>2, <1>3 DEF reports

\* What is computed from such reports.
LEMMA ShapeMeasures ==
    ASSUME NEW n \in Nat, NEW k, NEW reports, Shaped(reports, n, k)
    PROVE  /\ (FailedIn(reports) = {}) <=> (k = n)
           /\ DOMAIN reports \ FailedIn(reports) = 1 .. k
           /\ Cardinality(DOMAIN reports \ FailedIn(reports)) = k
           /\ k # 0 => 1 .. k # {} /\ Greatest(1 .. k) = k
           /\ k = 0 => 1 .. k = {}
<1>1. k \in 0 .. n
  BY DEF Shaped
<1>2. DOMAIN reports \ FailedIn(reports) = 1 .. k
  BY <1>1 DEF Shaped, FailedIn
<1>3. (FailedIn(reports) = {}) <=> (k = n)
  BY <1>1 DEF Shaped, FailedIn
<1>4. Cardinality(1 .. k) = k
  BY <1>1, FS_Interval
<1>5. ASSUME k # 0 PROVE 1 .. k # {} /\ Greatest(1 .. k) = k
  <2>1. k \in 1 .. k /\ \A y \in 1 .. k : k >= y
    BY <1>1, <1>5
  <2>2. \A x \in 1 .. k : (\A y \in 1 .. k : x >= y) => x = k
    BY <1>1, <2>1
  <2>3. QED
    BY <2>1, <2>2 DEF Greatest
<1>6. k = 0 => 1 .. k = {}
  OBVIOUS
<1>7. QED
  BY <1>2, <1>3, <1>4, <1>5, <1>6, Zenon

-----------------------------------------------------------------------------
(* The cascade runner.                                                       *)

\* The levels up to one are the first ones (EvaluatorLevel::all, up to max_level).
LEMMA RunnerLevels ==
    ASSUME NEW level \in C!LevelNames
    PROVE  /\ C!Rank(level) \in 1 .. 7
           /\ DOMAIN C!LevelsUpTo(level) = 1 .. C!Rank(level)
           /\ \A i \in 1 .. C!Rank(level) : C!LevelsUpTo(level)[i] = C!Levels[i]
<1>1. DOMAIN C!Levels = 1 .. 7
  BY DEF C!Levels
<1>2. C!Rank(level) \in 1 .. 7
  <2>1. \E i \in DOMAIN C!Levels : C!Levels[i] = level
    BY DEF C!LevelNames
  <2>2. QED
    BY <1>1, <2>1 DEF C!Rank
<1> DEFINE n == C!Rank(level)
<1> HIDE DEF n
<1>3. n \in 1 .. 7
  BY <1>2 DEF n
<1>4. \A i \in 1 .. n : C!Levels[i] \in C!LevelNames
  BY <1>1, <1>3 DEF C!LevelNames
<1>5. /\ SubSeq(C!Levels, 1, n) \in Seq(C!LevelNames)
      /\ Len(SubSeq(C!Levels, 1, n)) = IF 1 <= n THEN n - 1 + 1 ELSE 0
      /\ \A i \in 1 .. n - 1 + 1 : SubSeq(C!Levels, 1, n)[i] = C!Levels[1 + i - 1]
  BY <1>3, <1>4, SubSeqProperties
<1>6. n - 1 + 1 = n /\ 1 <= n /\ \A i \in 1 .. n : 1 + i - 1 = i
  BY <1>3
<1>7. DOMAIN SubSeq(C!Levels, 1, n) = 1 .. n
  BY <1>5, <1>6, LenProperties
<1>8. \A i \in 1 .. n : SubSeq(C!Levels, 1, n)[i] = C!Levels[i]
  BY <1>5, <1>6
<1>9. QED
  BY <1>2, <1>7, <1>8 DEF n, C!LevelsUpTo

\* A level whose tool is always there is run when it is evaluated.
LEMMA RunnerEvaluates ==
    ASSUME NEW x, NEW tools, NEW i \in 1 .. 7, C!Levels[i] \notin C!OptionalTools
    PROVE  C!Evaluate(C!Levels[i], x, tools).ran
<1>1. C!Levels[i] \in {"rustc", "miri", "loom", "dst", "stateright"}
  BY DEF C!Levels, C!OptionalTools
<1>2. QED
  BY <1>1 DEF C!Evaluate, C!RunRustc, C!RunMiri, C!RunLoom, C!RunDst, C!RunStateright,
              C!PassIf, C!Pass, C!Fail

\* A verdict on a code whose first k levels passed, those from the start level on
\* because they were evaluated.
RunnerVerdict(r, x, max, start, tools) ==
    \E k \in 0 .. C!Rank(max) :
        /\ Shaped(r.results, C!Rank(max), k)
        /\ r.all_passed \in BOOLEAN
        /\ r.all_passed <=> (k = C!Rank(max))
        /\ \A i \in 1 .. k :
              i >= C!Rank(start) => r.results[i] = C!Evaluate(C!Levels[i], x, tools)

\* A run from some level on (run_on_crate_from_level).
LEMMA RunnerShapes ==
    ASSUME NEW x, NEW max \in C!LevelNames, NEW start \in C!LevelNames,
           NEW tools
    PROVE  RunnerVerdict(C!RunFromLevel(x, [maxLevel |-> max, failFast |-> TRUE], start,
                                        tools), x, max, start, tools)
<1> DEFINE n == C!Rank(max)
           levels == C!LevelsUpTo(max)
           f == [i \in DOMAIN levels |->
                    IF i < C!Rank(start) THEN C!Skip(levels[i])
                    ELSE C!Evaluate(levels[i], x, tools)]
           cut == CutAtFailure(f)
           r == C!RunFromLevel(x, [maxLevel |-> max, failFast |-> TRUE], start, tools)
<1>1. n \in 1 .. 7 /\ n \in Nat /\ DOMAIN levels = 1 .. n /\ \A i \in 1 .. n : levels[i] = C!Levels[i]
  BY RunnerLevels
<1>2. r.results = cut /\ r.all_passed = (FailedIn(cut) = {})
  <2>1. r = C!FromResults(C!Cut(f, TRUE))
    BY DEF C!RunFromLevel
  <2> HIDE DEF f, r
  <2>2. C!Cut(f, TRUE) = cut
    BY DEF C!Cut, C!Failed, C!Min, FailedIn, Least, CutAtFailure
  <2> HIDE DEF cut
  <2>3. r = C!FromResults(cut)
    BY <2>1, <2>2, Zenon
  <2>4. C!Failed(cut) = FailedIn(cut)
    BY DEF C!Failed, FailedIn
  <2>5. r.results = cut /\ r.all_passed = (C!Failed(cut) = {})
    <3> DEFINE first == IF C!Failed(cut) = {} THEN 0 ELSE C!Min(C!Failed(cut))
               all == C!Failed(cut) = {}
    <3>1. r = [results |-> cut, all_passed |-> all, first_failure |-> first]
      BY <2>3 DEF C!FromResults
    <3> HIDE DEF first, all
    <3>2. r.results = cut /\ r.all_passed = all
      BY <3>1
    <3>3. QED
      BY <3>2 DEF all
  <2>6. QED
    BY <2>4, <2>5
<1>3. DOMAIN f = 1 .. n
  BY <1>1
<1>4. ASSUME NEW i \in 1 .. n
      PROVE  ~(i < C!Rank(start)) => f[i] = C!Evaluate(C!Levels[i], x, tools)
  BY <1>1, <1>4
<1> HIDE DEF f, n, levels
<1>6. PICK k \in 0 .. n : Shaped(cut, n, k) /\ \A i \in 1 .. k : cut[i] = f[i]
  BY <1>1, <1>3, CutShapes
<1> HIDE DEF cut
<1>7. (FailedIn(cut) = {}) <=> (k = n)
  BY <1>1, <1>6, ShapeMeasures, Zenon
<1>8. \A i \in 1 .. k : i \in 1 .. n /\ (i >= C!Rank(start) => ~(i < C!Rank(start)))
  BY <1>1, <1>6, RunnerLevels
<1>9. r.all_passed \in BOOLEAN /\ (r.all_passed <=> (k = n))
  BY <1>2, <1>7
<1>10. QED
  BY <1>9, <1>2, <1>4, <1>6, <1>7, <1>8, Zenon DEF n, RunnerVerdict

\* How far the reports of n levels reach when the first k passed (level_reached).
LEMMA RunnerReaches ==
    ASSUME NEW reports, NEW n \in Nat, NEW k, Shaped(reports, n, k)
    PROVE  C!LevelReached(reports) = k
<1>1. C!Passed(reports) = 1 .. k
  <2>1. DOMAIN reports \ FailedIn(reports) = 1 .. k
    BY ShapeMeasures, Zenon
  <2>2. QED
    BY <2>1 DEF C!Passed, C!Failed, FailedIn
<1>2. CASE k = 0
  BY <1>1, <1>2, ShapeMeasures DEF C!LevelReached
<1>3. CASE k # 0
  <2>1. 1 .. k # {} /\ Greatest(1 .. k) = k
    BY <1>3, ShapeMeasures, Zenon
  <2>2. C!Max(1 .. k) = k
    BY <2>1, Zenon DEF C!Max, Greatest
  <2>3. QED
    BY <1>1, <2>1, <2>2 DEF C!LevelReached
<1>4. QED
  BY <1>2, <1>3

\* The program that could not write its crate, or read its file, reaches nothing.
LEMMA RunnerFails ==
    /\ C!SetupFailed.all_passed = FALSE /\ C!LevelReached(C!SetupFailed.results) = 0
    /\ C!Passed(C!SetupFailed.results) = {}
<1> DEFINE reports == <<C!Fail("setup")>>
<1>1. C!SetupFailed.results = reports
  BY DEF C!SetupFailed, C!FromResults
<1>2. DOMAIN reports = {1} /\ ~reports[1].passed
  BY DEF C!Fail
<1> HIDE DEF reports
<1>3. C!Failed(reports) = {1} /\ C!Passed(reports) = {}
  BY <1>2 DEF C!Failed, C!Passed
<1>4. C!SetupFailed.all_passed = FALSE
  BY <1>3 DEF C!SetupFailed, C!FromResults, reports
<1>5. QED
  BY <1>1, <1>3, <1>4 DEF C!LevelReached

\* The cascade runner stores a report of that shape.
LEMMA RunnerEvaluated ==
    ASSUME C!Evaluated
    PROVE  C!ReachedWasRun'
<1>1. PICK x \in RunnerCodes, max \in MaxLevels \cap C!LevelNames,
           start \in StartLevels \cap C!LevelNames :
        \E r \in C!Verdicts(x, max, start) :
            report' = [kind |-> "report", start |-> start, max |-> max,
                       level |-> C!LevelReached(r.results), result |-> r]
  BY DEF C!Evaluated
<1>2. PICK r \in C!Verdicts(x, max, start) :
            report' = [kind |-> "report", start |-> start, max |-> max,
                       level |-> C!LevelReached(r.results), result |-> r]
  BY <1>1
<1>3. /\ report'.start = start /\ report'.max = max /\ report'.result = r
      /\ report'.level = C!LevelReached(r.results)
  BY <1>2
<1> SUFFICES
      /\ \A i \in 1 .. C!LevelReached(r.results) :
            i >= C!Rank(start) /\ C!Levels[i] \notin C!OptionalTools =>
                r.results[i].ran /\ r.results[i].passed
      /\ r.all_passed => C!LevelReached(r.results) = C!Rank(max)
  BY <1>3 DEF C!ReachedWasRun
<1>4. CASE r = C!SetupFailed
  <2>1. 1 .. C!LevelReached(r.results) = {} /\ ~r.all_passed
    BY <1>4, RunnerFails
  <2>2. QED
    BY <2>1
<1>5. CASE r # C!SetupFailed
  <2> DEFINE y == [x EXCEPT !.proofFile = FALSE]
             n == C!Rank(max)
  <2>1. r = C!RunFromLevel(y, [maxLevel |-> max, failFast |-> TRUE], start, RunnerTools)
    BY <1>5 DEF C!Verdicts
  <2> HIDE DEF y
  <2>2. n \in 1 .. 7 /\ n \in Nat
    BY RunnerLevels
  <2>3. PICK k \in 0 .. n :
          /\ Shaped(r.results, n, k)
          /\ r.all_passed <=> (k = n)
          /\ \A i \in 1 .. k :
                i >= C!Rank(start) => r.results[i] = C!Evaluate(C!Levels[i], y, RunnerTools)
    <3>1. max \in C!LevelNames /\ start \in C!LevelNames
      OBVIOUS
    <3>2. QED
      BY <2>1, <3>1, RunnerShapes DEF n, RunnerVerdict
  <2> HIDE DEF n
  <2>4. C!LevelReached(r.results) = k
    BY <2>2, <2>3, RunnerReaches
  <2>5. \A i \in 1 .. k : i \in 1 .. 7 /\ r.results[i].passed
    BY <2>2, <2>3 DEF Shaped
  <2>6. ASSUME NEW i \in 1 .. k, i >= C!Rank(start), C!Levels[i] \notin C!OptionalTools
        PROVE  r.results[i].ran
    BY <2>3, <2>5, <2>6, RunnerEvaluates
  <2>7. QED
    BY <2>3, <2>4, <2>5, <2>6 DEF n
<1>6. QED
  BY <1>4, <1>5

\* What the cascade runner prints as reached was run and passed, or trusted to the
\* checkpoint it was started from, or belongs to a tool that may be missing.
THEOREM RunnerReportsWhatRan == Spec => []C!ReachedWasRun
<1>1. Init => C!ReachedWasRun
  BY DEF Init, C!Init, C!NotRun, C!ReachedWasRun
<1>2. C!ReachedWasRun /\ [Next]_vars => C!ReachedWasRun'
  <2> SUFFICES ASSUME C!ReachedWasRun, [Next]_vars PROVE C!ReachedWasRun'
    OBVIOUS
  <2>1. C!Next \/ UNCHANGED report
    BY DEF Next, vars, programs
  <2>2. CASE C!Evaluated
    BY <2>2, RunnerEvaluated
  <2>3. CASE C!UnknownLevel
    BY <2>3 DEF C!UnknownLevel, C!ReachedWasRun
  <2>4. CASE C!Unreadable
    <3>1. report'.level = 0 /\ 1 .. report'.level = {} /\ ~report'.result.all_passed
      BY <2>4 DEF C!Unreadable, C!FromResults
    <3>2. QED
      BY <3>1 DEF C!ReachedWasRun
  <2>5. CASE UNCHANGED report
    BY <2>5 DEF C!ReachedWasRun
  <2>6. QED
    BY <2>1, <2>2, <2>3, <2>4, <2>5 DEF C!Next
<1>3. QED
  BY <1>1, <1>2, PTL DEF Spec

-----------------------------------------------------------------------------
GuaranteeNames == {"Blocking", "ObstructionFree", "LockFree", "WaitFree"}

-----------------------------------------------------------------------------
(* The generator.                                                            *)

\* The guarantees are ordered (Ordinal of Progress).
LEMMA GeneratorOrdinals == \A g \in GuaranteeNames : G!Ordinal(g) \in 0 .. 3
<1> SUFFICES ASSUME NEW g \in GuaranteeNames PROVE G!Ordinal(g) \in 0 .. 3
  OBVIOUS
<1>1. DOMAIN G!Guarantees = 1 .. 4
  BY DEF G!Guarantees
<1>2. \E i \in 1 .. 4 : G!Guarantees[i] = g
  BY DEF GuaranteeNames, G!Guarantees
<1>3. (CHOOSE i \in DOMAIN G!Guarantees : G!Guarantees[i] = g) \in 1 .. 4
  BY <1>1, <1>2
<1>4. QED
  BY <1>3 DEF G!Ordinal

\* Whatever marks a text has, it has a guarantee (analyze_progress).
LEMMA GeneratorGuarantees ==
    ASSUME NEW x, x.marks \subseteq MarkNames
    PROVE  G!Guarantee(x) \in GuaranteeNames
BY DEF G!Guarantee, G!AnalyzeProgress, MarkNames, GuaranteeNames

\* What the generator was answered and what the cascade made of it.
Verdicts ==
    UNION {G!RunOnCode(x, y.cascade, GeneratorTools) : x \in GeneratorCodes, y \in GeneratorConfigs}

\* A passed attempt that no other passed attempt surpasses.
BestAttempt(x, verdict, guarantee) ==
    /\ \E i \in G!Passing : attempts[i].code = x /\ attempts[i].result = verdict
    /\ G!Guarantee(x) = guarantee
    /\ \A i \in G!Passing : G!AtLeast(guarantee, G!Guarantee(attempts[i].code))

GeneratorInv ==
    /\ gConfig \in GeneratorConfigs
    /\ attempts \in Seq([code : GeneratorCodes, result : Verdicts])
    /\ gPhase = "correctness" => G!Passing = {}
    /\ gPhase = "performance" => BestAttempt(code, result, progress)
    /\ (gPhase \in {"answered", "exited"} /\ answer.kind = "result" /\ answer.success) =>
          /\ BestAttempt(answer.code, answer.result, answer.progress)
          /\ G!AtLeast(answer.progress, gConfig.minimum)
    /\ exit = "success" =>
          gPhase = "exited" /\ answer.kind = "result" /\ answer.success /\ output = answer.code

\* What an attempt adds to the record: the attempts that passed before, and itself
\* if it did.
LEMMA AttemptsGrow ==
    ASSUME GeneratorInv, NEW x \in GeneratorCodes, NEW r \in Verdicts,
           attempts' = Append(attempts, [code |-> x, result |-> r])
    PROVE  LET n == Len(attempts) + 1
           IN  /\ attempts' \in Seq([code : GeneratorCodes, result : Verdicts])
               /\ \A i \in DOMAIN attempts : attempts'[i] = attempts[i] /\ i # n
               /\ attempts'[n].code = x /\ attempts'[n].result = r
               /\ G!Passing' = G!Passing \cup (IF r.all_passed THEN {n} ELSE {})
<1> DEFINE n == Len(attempts) + 1
           e == [code |-> x, result |-> r]
           T == [code : GeneratorCodes, result : Verdicts]
<1>1. e \in T /\ attempts \in Seq(T)
  BY DEF GeneratorInv
<1> HIDE DEF T
<1>2. /\ attempts' \in Seq(T) /\ DOMAIN attempts = 1 .. Len(attempts) /\ Len(attempts) \in Nat
      /\ DOMAIN attempts' = 1 .. n
      /\ \A i \in DOMAIN attempts : attempts'[i] = attempts[i]
      /\ attempts'[n] = e
  BY <1>1
<1> HIDE DEF e
<1>3. e.code = x /\ e.result = r
  BY DEF e
<1>4. DOMAIN attempts' = DOMAIN attempts \cup {n} /\ n \notin DOMAIN attempts
  BY <1>2
<1>5. G!Passing' = G!Passing \cup (IF r.all_passed THEN {n} ELSE {})
  BY <1>2, <1>3, <1>4 DEF G!Passing
<1>6. QED
  BY <1>2, <1>3, <1>4, <1>5 DEF T

\* The guarantees of all codes can be compared.
LEMMA GeneratorCompares ==
    ASSUME GeneratorInv
    PROVE  /\ \A x \in GeneratorCodes :
                 G!Guarantee(x) \in GuaranteeNames /\ G!Ordinal(G!Guarantee(x)) \in 0 .. 3
           /\ \A i \in DOMAIN attempts : attempts[i].code \in GeneratorCodes
<1>1. \A x \in GeneratorCodes :
          G!Guarantee(x) \in GuaranteeNames /\ G!Ordinal(G!Guarantee(x)) \in 0 .. 3
  BY GeneratorAssumption, GeneratorGuarantees, GeneratorOrdinals
<1> DEFINE T == [code : GeneratorCodes, result : Verdicts]
<1>2. attempts \in Seq(T)
  BY DEF GeneratorInv
<1>3. \A e \in T : e.code \in GeneratorCodes
  OBVIOUS
<1> HIDE DEF T
<1>4. \A i \in DOMAIN attempts : attempts[i] \in T
  BY <1>2
<1>5. QED
  BY <1>1, <1>3, <1>4

\* Every answered request brings one of the codes.
LEMMA GeneratorAsks ==
    ASSUME NEW x \in G!Answered
    PROVE  x \in GeneratorCodes
BY DEF G!Answered, G!RequestCode, G!Replies, G!Texts, G!ExtractCodeBlock

\* Every verdict the generator is handed is one of its cascade.
LEMMA GeneratorVerdicts ==
    ASSUME GeneratorInv, NEW x \in G!Answered,
           NEW r \in G!RunOnCode(x, gConfig.cascade, GeneratorTools)
    PROVE  x \in GeneratorCodes /\ r \in Verdicts
BY GeneratorAsks DEF Verdicts, GeneratorInv

\* The first phase ends with the first attempt that passes.
LEMMA CorrectnessKeeps ==
    ASSUME GeneratorInv, G!CorrectnessAttempt
    PROVE  GeneratorInv'
<1>1. PICK x \in G!Answered :
         \E r \in G!RunOnCode(x, gConfig.cascade, GeneratorTools) :
            /\ attempts' = Append(attempts, [code |-> x, result |-> r])
            /\ code' = x /\ result' = r
            /\ IF r.all_passed
               THEN gPhase' = "performance" /\ progress' = G!Guarantee(x) /\ attempt' = 0
               ELSE attempt' = attempt + 1 /\ UNCHANGED <<gPhase, progress>>
  BY DEF G!CorrectnessAttempt
<1>2. PICK r \in G!RunOnCode(x, gConfig.cascade, GeneratorTools) :
            /\ attempts' = Append(attempts, [code |-> x, result |-> r])
            /\ code' = x /\ result' = r
            /\ IF r.all_passed
               THEN gPhase' = "performance" /\ progress' = G!Guarantee(x) /\ attempt' = 0
               ELSE attempt' = attempt + 1 /\ UNCHANGED <<gPhase, progress>>
  BY <1>1
<1>3. gPhase = "correctness" /\ gConfig' = gConfig /\ exit' = exit
  BY DEF G!CorrectnessAttempt
<1>4. x \in GeneratorCodes /\ r \in Verdicts
  BY GeneratorVerdicts
<1>5. G!Passing = {} /\ exit # "success"
  BY <1>3 DEF GeneratorInv
<1> DEFINE n == Len(attempts) + 1
<1>6. /\ attempts' \in Seq([code : GeneratorCodes, result : Verdicts])
      /\ attempts'[n].code = x /\ attempts'[n].result = r
      /\ G!Passing' = IF r.all_passed THEN {n} ELSE {}
  BY <1>2, <1>4, <1>5, AttemptsGrow
<1>7. G!Ordinal(G!Guarantee(x)) \in 0 .. 3
  BY <1>4, GeneratorCompares
<1>8. ASSUME r.all_passed PROVE BestAttempt(code, result, progress)'
  <2>1. code' = x /\ result' = r /\ progress' = G!Guarantee(x)
    BY <1>2, <1>8
  <2>2. G!Guarantee(code)' = G!Guarantee(x)
    BY <2>1 DEF G!Guarantee
  <2>3. G!AtLeast(progress', G!Guarantee(attempts'[n].code))
    BY <1>6, <1>7, <2>1 DEF G!AtLeast
  <2>4. QED
    BY <1>6, <1>8, <2>1, <2>2, <2>3 DEF BestAttempt
<1>9. CASE r.all_passed
  BY <1>2, <1>3, <1>5, <1>6, <1>8, <1>9 DEF GeneratorInv
<1>10. CASE ~r.all_passed
  BY <1>2, <1>3, <1>5, <1>6, <1>10 DEF GeneratorInv
<1>11. QED
  BY <1>9, <1>10

\* The second phase keeps the best attempt, or replaces it by one that is better than
\* all that passed before.
LEMMA PerfKeeps ==
    ASSUME GeneratorInv, G!PerfAttempt
    PROVE  GeneratorInv'
<1>1. PICK x \in G!Answered :
         \E r \in G!RunOnCode(x, gConfig.cascade, GeneratorTools) :
            /\ attempts' = Append(attempts, [code |-> x, result |-> r])
            /\ IF r.all_passed /\ G!Ordinal(G!Guarantee(x)) > G!Ordinal(progress)
               THEN code' = x /\ progress' = G!Guarantee(x) /\ result' = r
               ELSE UNCHANGED <<code, progress, result>>
  BY DEF G!PerfAttempt
<1>2. PICK r \in G!RunOnCode(x, gConfig.cascade, GeneratorTools) :
            /\ attempts' = Append(attempts, [code |-> x, result |-> r])
            /\ IF r.all_passed /\ G!Ordinal(G!Guarantee(x)) > G!Ordinal(progress)
               THEN code' = x /\ progress' = G!Guarantee(x) /\ result' = r
               ELSE UNCHANGED <<code, progress, result>>
  BY <1>1
<1>3. /\ gPhase = "performance" /\ gConfig' = gConfig /\ exit' = exit /\ gPhase' = gPhase
      /\ exit # "success"
  BY DEF G!PerfAttempt, GeneratorInv
<1>4. x \in GeneratorCodes /\ r \in Verdicts
  BY GeneratorVerdicts
<1> DEFINE n == Len(attempts) + 1
<1>5. /\ attempts' \in Seq([code : GeneratorCodes, result : Verdicts])
      /\ \A i \in DOMAIN attempts : attempts'[i] = attempts[i] /\ i # n
      /\ attempts'[n].code = x /\ attempts'[n].result = r
      /\ G!Passing' = G!Passing \cup (IF r.all_passed THEN {n} ELSE {})
  BY <1>2, <1>4, AttemptsGrow
<1>6. BestAttempt(code, result, progress)
  BY <1>3 DEF GeneratorInv
<1>7. PICK k \in G!Passing : attempts[k].code = code /\ attempts[k].result = result
  BY <1>6 DEF BestAttempt
<1>8. G!Passing \subseteq DOMAIN attempts
  BY DEF G!Passing
<1>9. /\ G!Guarantee(code) = progress /\ code \in GeneratorCodes
      /\ G!Ordinal(progress) \in 0 .. 3 /\ G!Ordinal(G!Guarantee(x)) \in 0 .. 3
  BY <1>4, <1>6, <1>7, <1>8, GeneratorCompares DEF BestAttempt
<1>10. \A i \in G!Passing : /\ attempts'[i] = attempts[i]
                            /\ G!AtLeast(progress, G!Guarantee(attempts[i].code))
                            /\ G!Ordinal(G!Guarantee(attempts[i].code)) \in 0 .. 3
  BY <1>5, <1>6, <1>8, GeneratorCompares DEF BestAttempt
<1>11. BestAttempt(code, result, progress)'
  <2>1. CASE r.all_passed /\ G!Ordinal(G!Guarantee(x)) > G!Ordinal(progress)
    <3>1. code' = x /\ progress' = G!Guarantee(x) /\ result' = r
      BY <1>2, <2>1
    <3>2. \A i \in G!Passing : G!AtLeast(progress', G!Guarantee(attempts'[i].code))
      BY <1>9, <1>10, <2>1, <3>1 DEF G!AtLeast
    <3>3. G!AtLeast(progress', G!Guarantee(attempts'[n].code))
      BY <1>5, <1>9, <3>1 DEF G!AtLeast
    <3>4. G!Guarantee(code)' = progress'
      BY <3>1 DEF G!Guarantee
    <3>5. QED
      BY <1>5, <2>1, <3>1, <3>2, <3>3, <3>4 DEF BestAttempt
  <2>2. CASE ~(r.all_passed /\ G!Ordinal(G!Guarantee(x)) > G!Ordinal(progress))
    <3>1. code' = code /\ progress' = progress /\ result' = result
      BY <1>2, <2>2
    <3>2. k \in G!Passing' /\ attempts'[k].code = code' /\ attempts'[k].result = result'
      BY <1>5, <1>7, <1>10, <3>1
    <3>3. r.all_passed => G!AtLeast(progress', G!Guarantee(attempts'[n].code))
      BY <1>5, <1>9, <2>2, <3>1 DEF G!AtLeast
    <3>4. \A i \in G!Passing : G!AtLeast(progress', G!Guarantee(attempts'[i].code))
      BY <1>10, <3>1
    <3>5. G!Guarantee(code)' = progress'
      BY <1>9, <3>1 DEF G!Guarantee
    <3>6. QED
      BY <1>5, <3>2, <3>3, <3>4, <3>5 DEF BestAttempt
  <2>3. QED
    BY <2>1, <2>2
<1>12. QED
  BY <1>3, <1>5, <1>11 DEF GeneratorInv

\* The record of attempts is closed: what was best stays so.
LEMMA BestStays ==
    ASSUME UNCHANGED attempts, NEW x, NEW r, NEW p
    PROVE  BestAttempt(x, r, p)' <=> BestAttempt(x, r, p)
BY DEF BestAttempt, G!Passing

\* Every step of the generator keeps its invariant.
LEMMA GeneratorSteps ==
    ASSUME GeneratorInv, [G!Next]_generator
    PROVE  GeneratorInv'
<1>1. CASE G!CorrectnessAttempt
  BY <1>1, CorrectnessKeeps
<1>2. CASE G!PerfAttempt
  BY <1>2, PerfKeeps
<1>3. CASE G!RequestFails
  <2>1. /\ answer'.kind = "error" /\ gPhase' = "answered" /\ gPhase \in {"correctness", "performance"}
        /\ UNCHANGED <<gConfig, attempts, exit>>
    BY <1>3 DEF G!RequestFails, G!Asking
  <2>2. QED
    BY <2>1 DEF GeneratorInv
<1>4. CASE G!GiveUp
  <2>1. /\ answer'.kind = "result" /\ ~answer'.success /\ gPhase' = "answered" /\ gPhase = "correctness"
        /\ UNCHANGED <<gConfig, attempts, exit>>
    BY <1>4 DEF G!GiveUp
  <2>2. QED
    BY <2>1 DEF GeneratorInv
<1>5. CASE G!Complete
  <2>1. /\ answer' = [kind |-> "result", success |-> G!AtLeast(progress, gConfig.minimum),
                      code |-> code, progress |-> progress, result |-> result]
        /\ gPhase' = "answered" /\ gPhase = "performance"
        /\ UNCHANGED <<gConfig, attempts, exit>>
    BY <1>5 DEF G!Complete
  <2>2. /\ answer'.code = code /\ answer'.progress = progress /\ answer'.result = result
        /\ answer'.success => G!AtLeast(progress, gConfig.minimum)
    BY <2>1
  <2>3. BestAttempt(code, result, progress)
    BY <2>1 DEF GeneratorInv
  <2>4. BestAttempt(answer.code, answer.result, answer.progress)'
    BY <2>1, <2>2, <2>3, BestStays
  <2>5. answer'.success => G!AtLeast(answer'.progress, gConfig'.minimum)
    BY <2>1, <2>2
  <2>6. QED
    BY <2>1, <2>4, <2>5 DEF GeneratorInv
<1>6. CASE G!Exit
  <2>1. /\ gPhase = "answered" /\ gPhase' = "exited" /\ UNCHANGED <<gConfig, attempts, answer>>
        /\ exit' = "success" => answer.kind = "result" /\ answer.success /\ output' = answer.code
    BY <1>6 DEF G!Exit
  <2>2. (answer.kind = "result" /\ answer.success) =>
            BestAttempt(answer.code, answer.result, answer.progress)'
    BY <2>1, BestStays DEF GeneratorInv
  <2>3. QED
    BY <2>1, <2>2 DEF GeneratorInv
<1>7. CASE UNCHANGED generator
  <2>1. UNCHANGED <<gConfig, attempts, gPhase, code, result, progress, answer, exit, output>>
    BY <1>7 DEF generator
  <2>2. QED
    BY <2>1 DEF GeneratorInv, BestAttempt, G!Passing
<1>8. QED
  BY <1>1, <1>2, <1>3, <1>4, <1>5, <1>6, <1>7 DEF G!Next

LEMMA GeneratorStarts == Init => GeneratorInv
BY DEF Init, G!Init, GeneratorInv, G!Passing

LEMMA GeneratorSucceeds == GeneratorInv => SuccessIsBest
BY DEF GeneratorInv, BestAttempt, SuccessIsBest, G!SuccessIsBest, G!Guarantee

\* A step of the loop's programs is one of the generator or leaves it alone.
THEOREM GeneratorReturnsBest == Spec => []SuccessIsBest
<1>1. Init => GeneratorInv
  BY GeneratorStarts
<1>2. GeneratorInv /\ [Next]_vars => GeneratorInv'
  <2> SUFFICES ASSUME GeneratorInv, [Next]_vars PROVE GeneratorInv'
    OBVIOUS
  <2>1. [G!Next]_generator
    BY DEF Next, vars, programs
  <2>2. QED
    BY <2>1, GeneratorSteps
<1>3. GeneratorInv => SuccessIsBest
  BY GeneratorSucceeds
<1>4. QED
  BY <1>1, <1>2, <1>3, PTL DEF Spec

-----------------------------------------------------------------------------
(* The driver's cascade is the runner's.                                     *)

\* The two instances of Cascade have the same definitions: level by level.
LEMMA SameLevels == \A l : E!LevelsUpTo(l) = C!LevelsUpTo(l)
  BY Zenon DEF C!LevelsUpTo, E!LevelsUpTo, C!Rank, E!Rank, C!Levels, E!Levels

\* What a level makes of a code.
LEMMA SameEvaluations == \A l, x, t : E!Evaluate(l, x, t) = C!Evaluate(l, x, t)
  BY Zenon DEF C!Evaluate, E!Evaluate, C!RunRustc, C!RunMiri, C!RunLoom, C!RunDst, C!RunStateright,
    C!RunKani, C!RunVerus, C!Skip, C!Pass, C!Fail, C!PassIf,
    E!RunRustc, E!RunMiri, E!RunLoom, E!RunDst, E!RunStateright,
    E!RunKani, E!RunVerus, E!Skip, E!Pass, E!Fail, E!PassIf

\* What the reports add up to.
LEMMA SameReports == \A r : E!FromResults(r) = C!FromResults(r)
  BY Zenon DEF E!FromResults, C!FromResults, E!Failed, C!Failed, E!Min, C!Min

\* What a failure cuts off.
LEMMA SameCuts == \A r, f : E!Cut(r, f) = C!Cut(r, f)
  BY Zenon DEF E!Cut, C!Cut, E!Failed, C!Failed, E!Min, C!Min

\* What a run of the levels stores.
LEMMA SameRuns == \A x, c, s, t : E!RunFromLevel(x, c, s, t) = C!RunFromLevel(x, c, s, t)
<1> TAKE x, c, s, t
<1> DEFINE levels == C!LevelsUpTo(c.maxLevel)
           e == [i \in DOMAIN levels |-> IF i < C!Rank(s) THEN E!Skip(levels[i])
                                         ELSE E!Evaluate(levels[i], x, t)]
           f == [i \in DOMAIN levels |-> IF i < C!Rank(s) THEN C!Skip(levels[i])
                                         ELSE C!Evaluate(levels[i], x, t)]
<1>1. \A l : E!Skip(l) = C!Skip(l) /\ E!Rank(l) = C!Rank(l)
  BY Zenon DEF E!Skip, C!Skip, E!Rank, C!Rank, C!Levels, E!Levels
<1>2. e = f
  <2> HIDE DEF levels
  <2>1. QED
    BY <1>1, SameEvaluations
<1>3. E!RunFromLevel(x, c, s, t) = E!FromResults(E!Cut(e, c.failFast))
  BY <1>1, SameLevels, Zenon DEF E!RunFromLevel
<1>4. C!RunFromLevel(x, c, s, t) = C!FromResults(C!Cut(f, c.failFast))
  BY Zenon DEF C!RunFromLevel
<1> HIDE DEF e, f
<1>5. QED
  BY <1>2, <1>3, <1>4, SameReports, SameCuts

\* What the cascade says of a code.
LEMMA SameVerdicts == \A x, c, t : E!RunOnCode(x, c, t) = C!RunOnCode(x, c, t)
  BY Zenon, SameRuns, SameReports DEF E!RunOnCode, C!RunOnCode, E!RunCascade, C!RunCascade, E!SetupFailed, C!SetupFailed, E!Fail, C!Fail

\* How far reports reach, and which levels passed.
LEMMA SameMeasures == \A r : E!LevelReached(r) = C!LevelReached(r) /\ E!Passed(r) = C!Passed(r)
  BY Zenon DEF E!LevelReached, C!LevelReached, E!Passed, C!Passed, E!Failed, C!Failed, E!Max, C!Max

\* The count a score is made of.
LEMMA SameCardinality == \A I : E!Cardinality(I) = Cardinality(I)
  BY Zenon DEF E!Cardinality, Cardinality

\* What a guarantee is worth.
LEMMA SameOrdinals == \A r : E!Ordinal(r) = C!Ordinal(r) /\ G!Ordinal(r) = C!Ordinal(r)
  BY Zenon DEF E!Ordinal, C!Ordinal, G!Ordinal, E!Guarantees, C!Guarantees, G!Guarantees

-----------------------------------------------------------------------------
(* The driver.                                                               *)

\* What a verdict amounts to: how far it came, and whether that was all the way.
LEMMA VerdictMeasures ==
    ASSUME NEW x, NEW max \in C!LevelNames, NEW tools,
           NEW r \in C!RunOnCode(x, [maxLevel |-> max, failFast |-> TRUE], tools)
    PROVE  \E k \in 0 .. C!Rank(max) :
              /\ C!LevelReached(r.results) = k
              /\ Cardinality(C!Passed(r.results)) = k
              /\ r.all_passed \in BOOLEAN
              /\ r.all_passed <=> (k = C!Rank(max))
<1>1. C!Rank(max) \in 1 .. 7
  BY RunnerLevels
<1>2. CASE r = C!SetupFailed
  <2>1. r.all_passed = FALSE /\ C!LevelReached(r.results) = 0 /\ C!Passed(r.results) = {}
    BY <1>2, RunnerFails
  <2>2. Cardinality(C!Passed(r.results)) = 0
    BY <2>1, FS_EmptySet
  <2>3. 0 \in 0 .. C!Rank(max) /\ 0 # C!Rank(max)
    BY <1>1
  <2>4. QED
    BY <2>1, <2>2, <2>3, Zenon
<1>3. CASE r # C!SetupFailed
  <2> DEFINE y == [x EXCEPT !.proofFile = FALSE]
             n == C!Rank(max)
  <2>1. r = C!RunFromLevel(y, [maxLevel |-> max, failFast |-> TRUE], "rustc", tools)
    BY <1>3 DEF C!RunOnCode, C!RunCascade
  <2> HIDE DEF y
  <2>2. "rustc" \in C!LevelNames
    BY DEF C!LevelNames, C!Levels
  <2>3. RunnerVerdict(r, y, max, "rustc", tools)
    BY <2>1, <2>2, RunnerShapes
  <2>4. PICK k \in 0 .. n : /\ Shaped(r.results, n, k)
                            /\ r.all_passed \in BOOLEAN
                            /\ r.all_passed <=> (k = n)
    BY <2>3 DEF RunnerVerdict
  <2>5. n \in Nat
    BY <1>1
  <2> HIDE DEF n
  <2>6. C!LevelReached(r.results) = k
    BY <2>4, <2>5, RunnerReaches
  <2>7. DOMAIN r.results \ FailedIn(r.results) = 1 .. k
    BY <2>4, <2>5, ShapeMeasures
  <2>8. C!Passed(r.results) = 1 .. k /\ Cardinality(1 .. k) = k
    <3>1. C!Passed(r.results) = 1 .. k
      BY <2>7 DEF C!Passed, C!Failed, FailedIn
    <3>2. k \in Nat
      BY <2>5
    <3>3. Cardinality(1 .. k) = k
      BY <3>2, FS_Interval
    <3>4. QED
      BY <3>1, <3>3
  <2>9. QED
    BY <2>4, <2>6, <2>8 DEF n
<1>4. QED
  BY <1>2, <1>3

\* Candidates as the driver scores them; one that passed every level has at least
\* the weight of all levels, and one that did not has less.
Candidates == [score : Nat, correct : BOOLEAN, model : 0 .. E!EnsembleSize(eConfig)]

Fair(c) == c.correct <=> c.score >= 110 * E!Rank(eConfig.cascade.maxLevel)

\* No guarantee is worth a level (the weights in evaluate_code).
LEMMA DriverScores ==
    ASSUME eConfig \in DriverConfigs, NEW x \in DriverCodes,
           NEW author \in 0 .. E!EnsembleSize(eConfig), NEW c \in E!Evaluations(x, author)
    PROVE  c \in Candidates /\ Fair(c) /\ c.model = author
<1> DEFINE max == eConfig.cascade.maxLevel
<1>1. eConfig.cascade = [maxLevel |-> max, failFast |-> TRUE] /\ max \in C!LevelNames
  <2>1. E!LevelNames = C!LevelNames
    BY Zenon DEF E!LevelNames, C!LevelNames, E!Levels, C!Levels
  <2>2. eConfig.cascade \in [maxLevel : E!LevelNames, failFast : {TRUE}]
    BY DriverAssumption
  <2>3. QED
    BY <2>1, <2>2
<1>2. PICK r \in E!RunOnCode(x, eConfig.cascade, DriverTools) :
         c = [score |-> E!Score(r, E!AnalyzeProgress(x.marks)), correct |-> r.all_passed,
              model |-> author]
  BY DEF E!Evaluations
<1> HIDE DEF max
<1>3. r \in C!RunOnCode(x, [maxLevel |-> max, failFast |-> TRUE], DriverTools)
  BY <1>1, SameVerdicts
<1> DEFINE n == C!Rank(max)
<1>4. PICK k \in 0 .. n : /\ C!LevelReached(r.results) = k
                          /\ Cardinality(C!Passed(r.results)) = k
                          /\ r.all_passed \in BOOLEAN
                          /\ r.all_passed <=> (k = n)
  BY <1>1, <1>3, VerdictMeasures
<1>5. n \in 1 .. 7
  BY <1>1, RunnerLevels
<1> DEFINE g == E!AnalyzeProgress(x.marks)
<1>6. g \in GuaranteeNames
  BY DriverAssumption DEF E!AnalyzeProgress, MarkNames, GuaranteeNames
<1> HIDE DEF g
<1>7. E!Ordinal(g) \in 0 .. 3
  <2>1. E!Ordinal(g) = G!Ordinal(g)
    BY SameOrdinals
  <2>2. QED
    BY <1>6, <2>1, GeneratorOrdinals
<1>8. E!Rank(max) = n
  BY DEF E!Rank, C!Rank, E!Levels, C!Levels
<1> HIDE DEF n
<1>9. E!Score(r, g) = 110 * k + 25 * E!Ordinal(g)
  <2>1. E!LevelReached(r.results) = k /\ Cardinality(E!Passed(r.results)) = k
    BY <1>4, SameMeasures
  <2>2. E!Score(r, g) = 100 * k + 10 * k + 25 * E!Ordinal(g)
    BY <2>1, SameCardinality DEF E!Score
  <2>3. QED
    BY <1>5, <1>7, <2>2
<1>10. E!Score(r, g) \in Nat /\ (E!Score(r, g) >= 110 * n <=> k = n)
  BY <1>5, <1>7, <1>9
<1>11. c.score = E!Score(r, g) /\ c.correct = r.all_passed /\ c.model = author
  BY <1>2 DEF g
<1>12. c \in Candidates
  BY <1>2, <1>4, <1>10 DEF Candidates, g
<1>13. Fair(c)
  BY <1>4, <1>8, <1>10, <1>11 DEF Fair, max
<1>14. QED
  BY <1>11, <1>12, <1>13

-----------------------------------------------------------------------------
(* Islands: sorted, cut to size, and exchanged.                              *)

\* Best first.
Ranked(members) ==
    \A i, j \in DOMAIN members : i < j => members[i].score >= members[j].score

\* The parts of a candidate.
LEMMA CandidateScores == \A c \in Candidates : c.score \in Nat /\ c.model \in 0 .. E!EnsembleSize(eConfig)
BY DEF Candidates

\* On a sorted island those that are as good as a candidate stand in front.
LEMMA BetterFirst ==
    ASSUME NEW members \in Seq(Candidates), Ranked(members), NEW c \in Candidates
    PROVE  \E p \in 0 .. Len(members) :
              {j \in DOMAIN members : members[j].score >= c.score} = 1 .. p
<1> DEFINE better == {j \in DOMAIN members : members[j].score >= c.score}
           L == Len(members)
           rest == {j \in 1 .. L + 1 : j \notin better}
<1>1. L \in Nat /\ DOMAIN members = 1 .. L /\ \A i \in 1 .. L : members[i] \in Candidates
  BY LenProperties, ElementOfSeq
<1>2. \A i \in 1 .. L : members[i].score \in Nat /\ c.score \in Nat
  BY <1>1, CandidateScores
<1>3. better \subseteq 1 .. L
  BY <1>1
<1>4. \A i, j \in 1 .. L : i < j /\ j \in better => i \in better
  <2> TAKE i, j \in 1 .. L
  <2> HAVE i < j /\ j \in better
  <2>1. members[i].score >= members[j].score /\ members[j].score >= c.score
    BY <1>1 DEF Ranked
  <2>2. members[i].score >= c.score
    BY <1>2, <2>1
  <2>3. QED
    BY <1>1, <2>2
<1> HIDE DEF better, L
<1>5. rest \subseteq Nat /\ L + 1 \in rest
  BY <1>1, <1>3
<1> DEFINE m == Least(rest)
<1>6. m \in rest /\ \A n \in rest : m <= n
  BY <1>5, LeastElement, Zenon
<1> HIDE DEF m
<1>7. m \in 1 .. L + 1 /\ m \notin better /\ \A n \in 1 .. L + 1 : n \notin better => m <= n
  BY <1>6
<1>8. m - 1 \in 0 .. L
  BY <1>1, <1>7
<1>9. better = 1 .. (m - 1)
  <2>1. ASSUME NEW n \in better PROVE n \in 1 .. (m - 1)
    <3>1. n \in 1 .. L /\ n # m
      BY <1>3, <1>7, <2>1
    <3>2. ~(m < n)
      <4>1. SUFFICES ASSUME m < n PROVE FALSE
        OBVIOUS
      <4>2. m \in 1 .. L
        BY <1>1, <1>7, <3>1, <4>1
      <4>3. m \in better
        BY <1>4, <2>1, <3>1, <4>1, <4>2, Zenon
      <4>4. QED
        BY <1>7, <4>3
    <3>3. QED
      BY <1>1, <1>7, <3>1, <3>2
  <2>2. ASSUME NEW n \in 1 .. (m - 1) PROVE n \in better
    <3>1. n \in 1 .. L + 1 /\ ~(m <= n)
      BY <1>1, <1>7
    <3>2. QED
      BY <1>7, <3>1, Zenon
  <2>3. QED
    BY <2>1, <2>2
<1>10. QED
  BY <1>8, <1>9 DEF better, L

\* A stable insertion into a sorted island (push and sort_by).
LEMMA SortedInserts ==
    ASSUME NEW members \in Seq(Candidates), Ranked(members), NEW c \in Candidates
    PROVE  \E p \in 0 .. Len(members) :
              /\ E!Sorted(members, c) \in Seq(Candidates)
              /\ Len(E!Sorted(members, c)) = Len(members) + 1
              /\ \A j \in 1 .. Len(members) + 1 :
                    E!Sorted(members, c)[j] =
                        IF j <= p THEN members[j] ELSE IF j = p + 1 THEN c ELSE members[j - 1]
              /\ \A j \in 1 .. Len(members) : j <= p <=> members[j].score >= c.score
<1> DEFINE L == Len(members)
<1>1. L \in Nat /\ DOMAIN members = 1 .. L /\ \A i \in 1 .. L : members[i] \in Candidates
  BY LenProperties, ElementOfSeq
<1>2. PICK p \in 0 .. L : {j \in DOMAIN members : members[j].score >= c.score} = 1 .. p
  BY BetterFirst
<1>0. L = Len(members)
  OBVIOUS
<1> HIDE DEF L
<1>3. \A j \in 1 .. L : j <= p <=> members[j].score >= c.score
  <2> TAKE j \in 1 .. L
  <2>1. j \in {i \in DOMAIN members : members[i].score >= c.score} <=> members[j].score >= c.score
    BY <1>1
  <2>2. j \in 1 .. p <=> j <= p
    BY <1>1, <1>2
  <2>3. QED
    BY <1>2, <2>1, <2>2
<1>4. E!Cardinality({j \in DOMAIN members : members[j].score >= c.score}) = p
  <2>1. Cardinality(1 .. p) = p
    BY <1>1, FS_Interval
  <2>2. QED
    BY <1>2, <2>1, SameCardinality
<1> DEFINE front == SubSeq(members, 1, p)
           back == SubSeq(members, p + 1, L)
<1>5. E!Sorted(members, c) = (front \o <<c>>) \o back
  <2> DEFINE q == p + 1
  <2>1. q - 1 = p
    BY <1>1
  <2>2. E!Sorted(members, c) = E!InsertAt(members, q, c)
    BY <1>4 DEF E!Sorted
  <2>3. back = SubSeq(members, q, Len(members))
    BY DEF L
  <2> HIDE DEF q, front, back
  <2>4. E!InsertAt(members, q, c) = (SubSeq(members, 1, q - 1) \o <<c>>) \o back
    BY <2>3 DEF E!InsertAt
  <2>5. SubSeq(members, 1, q - 1) = front
    BY <2>1 DEF front
  <2>6. QED
    BY <2>2, <2>4, <2>5
<1>6. /\ front \in Seq(Candidates) /\ Len(front) = p
      /\ \A j \in 1 .. p : front[j] = members[j]
  <2>1. \A j \in 1 .. p : members[j] \in Candidates
    BY <1>1
  <2>2. /\ front \in Seq(Candidates) /\ Len(front) = IF 1 <= p THEN p - 1 + 1 ELSE 0
        /\ \A j \in 1 .. p - 1 + 1 : front[j] = members[1 + j - 1]
    BY <1>1, <2>1, SubSeqProperties
  <2>3. (IF 1 <= p THEN p - 1 + 1 ELSE 0) = p /\ p - 1 + 1 = p /\ \A j \in 1 .. p : 1 + j - 1 = j
    BY <1>1
  <2>4. QED
    BY <2>2, <2>3
<1>7. /\ back \in Seq(Candidates) /\ Len(back) = L - p
      /\ \A j \in 1 .. L - p : back[j] = members[p + j]
  <2>1. \A j \in p + 1 .. L : members[j] \in Candidates
    BY <1>1
  <2>2. /\ back \in Seq(Candidates) /\ Len(back) = IF p + 1 <= L THEN L - (p + 1) + 1 ELSE 0
        /\ \A j \in 1 .. L - (p + 1) + 1 : back[j] = members[(p + 1) + j - 1]
    BY <1>1, <2>1, SubSeqProperties
  <2>3. /\ (IF p + 1 <= L THEN L - (p + 1) + 1 ELSE 0) = L - p /\ L - (p + 1) + 1 = L - p
        /\ \A j \in 1 .. L - p : (p + 1) + j - 1 = p + j
    BY <1>1
  <2>4. QED
    BY <2>2, <2>3
<1> HIDE DEF front, back
<1>8. /\ front \o <<c>> \in Seq(Candidates) /\ Len(front \o <<c>>) = p + 1
      /\ \A j \in 1 .. p + 1 : (front \o <<c>>)[j] = IF j <= p THEN members[j] ELSE c
  <2>1. <<c>> \in Seq(Candidates) /\ Len(<<c>>) = 1 /\ <<c>>[1] = c
    OBVIOUS
  <2>2. /\ front \o <<c>> \in Seq(Candidates) /\ Len(front \o <<c>>) = p + 1
        /\ \A j \in 1 .. p + 1 :
              (front \o <<c>>)[j] = IF j <= p THEN front[j] ELSE <<c>>[j - p]
    BY <1>6, <2>1, ConcatProperties
  <2>3. \A j \in 1 .. p + 1 : (j <= p => j \in 1 .. p) /\ (~(j <= p) => j - p = 1)
    BY <1>1
  <2>4. QED
    BY <1>6, <2>1, <2>2, <2>3
<1> DEFINE s == E!Sorted(members, c)
           t == front \o <<c>>
<1>9. s = t \o back
  BY <1>5
<1> HIDE DEF s, t
<1>10. t \in Seq(Candidates) /\ Len(t) = p + 1
       /\ \A j \in 1 .. p + 1 : t[j] = IF j <= p THEN members[j] ELSE c
  BY <1>8 DEF t
<1>11. /\ s \in Seq(Candidates) /\ Len(s) = (p + 1) + (L - p)
       /\ \A j \in 1 .. (p + 1) + (L - p) :
             s[j] = IF j <= p + 1 THEN t[j] ELSE back[j - (p + 1)]
  <2>1. /\ s \in Seq(Candidates) /\ Len(s) = Len(t) + Len(back)
        /\ \A j \in 1 .. Len(t) + Len(back) :
              s[j] = IF j <= Len(t) THEN t[j] ELSE back[j - Len(t)]
    BY <1>7, <1>9, <1>10, ConcatProperties, Zenon
  <2>2. QED
    BY <1>7, <1>10, <2>1
<1>12. (p + 1) + (L - p) = L + 1
  BY <1>1
<1>13. ASSUME NEW j \in 1 .. L + 1
       PROVE  s[j] = IF j <= p THEN members[j] ELSE IF j = p + 1 THEN c ELSE members[j - 1]
  <2>1. CASE j <= p + 1
    <3>1. j \in 1 .. p + 1 /\ (j <= p \/ j = p + 1) /\ (j <= p => j # p + 1)
      BY <1>1, <2>1
    <3>2. QED
      BY <1>10, <1>11, <1>12, <2>1, <3>1
  <2>2. CASE ~(j <= p + 1)
    <3>1. /\ j - (p + 1) \in 1 .. L - p /\ p + (j - (p + 1)) = j - 1
          /\ ~(j <= p) /\ j # p + 1
      BY <1>1, <2>2
    <3>2. QED
      BY <1>7, <1>11, <1>12, <2>2, <3>1
  <2>3. QED
    BY <2>1, <2>2
<1>14. QED
  BY <1>3, <1>11, <1>12, <1>13 DEF s, L

\* What an island is after a candidate was pushed, sorted in and the rest cut off:
\* the best of it is its former best, or a candidate that is strictly better.
LEMMA PushKeeps ==
    ASSUME NEW members \in Seq(Candidates), Ranked(members), NEW c \in Candidates,
           eConfig.population \in Nat
    PROVE  LET s == E!PushSortTruncate(members, c)
           IN  /\ s \in Seq(Candidates) /\ Ranked(s)
               /\ \A j \in 1 .. Len(s) : s[j] = c \/ \E i \in 1 .. Len(members) : s[j] = members[i]
               /\ Len(s) = E!Smaller(eConfig.population, Len(members) + 1)
               /\ eConfig.population > 0 =>
                     /\ s # <<>>
                     /\ s[1] = IF members # <<>> /\ members[1].score >= c.score
                               THEN members[1] ELSE c
<1> DEFINE L == Len(members)
           z == E!Sorted(members, c)
           m == E!Smaller(eConfig.population, Len(z))
           s == E!PushSortTruncate(members, c)
<1>1. L \in Nat /\ DOMAIN members = 1 .. L /\ \A i \in 1 .. L : members[i] \in Candidates
  BY LenProperties, ElementOfSeq
<1>2. PICK p \in 0 .. L :
        /\ z \in Seq(Candidates) /\ Len(z) = L + 1
        /\ \A j \in 1 .. L + 1 :
              z[j] = IF j <= p THEN members[j] ELSE IF j = p + 1 THEN c ELSE members[j - 1]
        /\ \A j \in 1 .. L : j <= p <=> members[j].score >= c.score
  BY SortedInserts
<1>3. s = SubSeq(z, 1, m)
  BY DEF E!PushSortTruncate, E!Truncate
<1> HIDE DEF z, s
<1>4. m \in 0 .. L + 1 /\ (eConfig.population > 0 => m > 0)
  BY <1>1, <1>2 DEF E!Smaller
<1>5. m = E!Smaller(eConfig.population, L + 1)
  BY <1>2
<1> HIDE DEF m
<1>6. /\ s \in Seq(Candidates) /\ Len(s) = m /\ DOMAIN s = 1 .. m
      /\ \A j \in 1 .. m : s[j] = z[j]
  <2>1. \A j \in 1 .. m : z[j] \in Candidates
    <3>1. \A j \in 1 .. m : j \in 1 .. Len(z)
      BY <1>1, <1>2, <1>4
    <3>2. QED
      BY <1>2, <3>1, ElementOfSeq
  <2>2. /\ s \in Seq(Candidates) /\ Len(s) = IF 1 <= m THEN m - 1 + 1 ELSE 0
        /\ \A j \in 1 .. m - 1 + 1 : s[j] = z[1 + j - 1]
    BY <1>3, <1>4, <2>1, SubSeqProperties
  <2>3. (IF 1 <= m THEN m - 1 + 1 ELSE 0) = m /\ m - 1 + 1 = m /\ \A j \in 1 .. m : 1 + j - 1 = j
    BY <1>1, <1>4
  <2>4. QED
    BY <2>2, <2>3, LenProperties
<1>7. \A i \in 1 .. L : members[i].score \in Nat /\ c.score \in Nat
  BY <1>1, CandidateScores
<1>8. Ranked(s)
  <2> SUFFICES ASSUME NEW i \in 1 .. m, NEW j \in 1 .. m, i < j PROVE z[i].score >= z[j].score
    BY <1>6 DEF Ranked
  <2>1. i \in 1 .. L + 1 /\ j \in 1 .. L + 1 /\ i \in Nat /\ j \in Nat
    BY <1>1, <1>4
  <2>2. CASE i <= p
    <3>1. i \in 1 .. L /\ z[i] = members[i] /\ members[i].score >= c.score
      BY <1>1, <1>2, <2>1, <2>2
    <3>2. CASE j = p + 1
      <4>1. z[j] = c
        BY <1>1, <1>2, <2>1, <3>2
      <4>2. QED
        BY <3>1, <4>1
    <3>3. CASE j # p + 1
      <4>1. PICK k \in 1 .. L : z[j] = members[k] /\ (i < k \/ i = k)
        <5>1. CASE j <= p
          <6>1. j \in 1 .. L /\ z[j] = members[j]
            BY <1>1, <1>2, <2>1, <5>1
          <6>2. QED
            BY <6>1
        <5>2. CASE ~(j <= p)
          <6>1. j - 1 \in 1 .. L /\ (i < j - 1 \/ i = j - 1) /\ z[j] = members[j - 1]
            BY <1>1, <1>2, <2>1, <2>2, <3>3, <5>2
          <6>2. QED
            BY <6>1
        <5>3. QED
          BY <5>1, <5>2
      <4>2. members[i].score >= members[k].score
        BY <1>1, <1>7, <3>1, <4>1 DEF Ranked
      <4>3. QED
        BY <3>1, <4>1, <4>2
    <3>4. QED
      BY <3>2, <3>3
  <2>3. CASE i = p + 1
    <3>1. z[i] = c /\ z[j] = members[j - 1] /\ j - 1 \in 1 .. L /\ ~(j - 1 <= p)
      BY <1>1, <1>2, <2>1, <2>3
    <3>2. ~(members[j - 1].score >= c.score)
      BY <1>2, <3>1
    <3>3. QED
      BY <1>7, <3>1, <3>2
  <2>4. CASE ~(i <= p) /\ i # p + 1
    <3>1. /\ z[i] = members[i - 1] /\ z[j] = members[j - 1]
          /\ i - 1 \in 1 .. L /\ j - 1 \in 1 .. L /\ i - 1 < j - 1
      BY <1>1, <1>2, <2>1, <2>4
    <3>2. QED
      BY <1>1, <3>1 DEF Ranked
  <2>5. QED
    BY <2>2, <2>3, <2>4
<1>9. ASSUME NEW j \in 1 .. m
      PROVE  z[j] = c \/ \E i \in 1 .. L : z[j] = members[i]
  <2>1. j \in 1 .. L + 1
    BY <1>1, <1>4
  <2>2. j <= p => j \in 1 .. L
    BY <1>1, <2>1
  <2>3. ~(j <= p) /\ j # p + 1 => j - 1 \in 1 .. L
    BY <1>1, <2>1
  <2>4. QED
    BY <1>2, <2>1, <2>2, <2>3
<1>10. ASSUME eConfig.population > 0
       PROVE  /\ s # <<>>
              /\ s[1] = IF members # <<>> /\ members[1].score >= c.score THEN members[1] ELSE c
  <2>1. 1 \in 1 .. m /\ 1 \in 1 .. L + 1 /\ m > 0
    BY <1>1, <1>4, <1>10
  <2>2. s # <<>> /\ s[1] = z[1]
    BY <1>6, <2>1
  <2>3. CASE members = <<>>
    <3>1. p = 0
      BY <2>3
    <3>2. z[1] = c
      BY <1>2, <2>1, <3>1
    <3>3. QED
      BY <2>2, <2>3, <3>2
  <2>4. CASE members # <<>>
    <3>1. 1 \in 1 .. L
      BY <1>1, <2>4, EmptySeq
    <3>2. 1 <= p <=> members[1].score >= c.score
      BY <1>2, <3>1
    <3>3. z[1] = IF 1 <= p THEN members[1] ELSE c
      <4>1. 1 <= p \/ 1 = p + 1
        OBVIOUS
      <4>2. QED
        BY <1>2, <2>1, <4>1
    <3>4. QED
      BY <2>2, <2>4, <3>2, <3>3
  <2>5. QED
    BY <2>3, <2>4
<1>11. QED
  BY <1>5, <1>6, <1>8, <1>9, <1>10 DEF s

\* A bounded set of numbers with a member has a greatest one.
LEMMA GreatestElement ==
    ASSUME NEW n \in Nat, NEW I, I \subseteq 1 .. n, I # {}
    PROVE  Greatest(I) \in I /\ \A m \in I : m <= Greatest(I)
<1> DEFINE above == {m \in 1 .. n : \A x \in I : x <= m}
           g == Least(above)
<1>0. PICK e \in I : e \in 1 .. n
  OBVIOUS
<1>1. n \in above /\ above \subseteq Nat
  BY <1>0
<1>2. g \in above /\ \A m \in above : g <= m
  BY <1>1, LeastElement, Zenon
<1> HIDE DEF g
<1>3. g \in 1 .. n /\ \A x \in I : x <= g
  BY <1>2
<1>4. g \in I
  <2>1. SUFFICES ASSUME g \notin I PROVE FALSE
    OBVIOUS
  <2>2. \A x \in I : x <= g - 1
    BY <1>3, <2>1
  <2>3. g - 1 \in 1 .. n
    BY <1>0, <1>3, <2>2
  <2>4. g - 1 \in above
    BY <2>2, <2>3
  <2>5. g <= g - 1
    BY <1>2, <2>4, Zenon
  <2>6. QED
    BY <1>3, <2>5
<1>5. \A x \in I : (\A y \in I : x >= y) => x = g
  BY <1>3, <1>4
<1>6. \A y \in I : g >= y
  BY <1>3
<1>7. Greatest(I) = g
  BY <1>4, <1>5, <1>6, Zenon DEF Greatest
<1>8. QED
  BY <1>3, <1>4, <1>7

\* The last of the best is one of the best (max_by).
LEMMA LastIsBest ==
    ASSUME NEW members \in Seq(Candidates), members # <<>>
    PROVE  /\ E!LastBest(members) \in Candidates
           /\ E!LastBest(members).score = members[1].score
           /\ \E j \in 1 .. Len(members) : E!LastBest(members) = members[j]
<1> DEFINE L == Len(members)
           I == {j \in DOMAIN members : members[j].score = members[1].score}
<1>1. L \in Nat \ {0} /\ DOMAIN members = 1 .. L /\ \A i \in 1 .. L : members[i] \in Candidates
  BY LenProperties, ElementOfSeq, EmptySeq
<1>2. I \subseteq 1 .. L /\ 1 \in I
  BY <1>1
<1>3. Greatest(I) \in I
  <2> HIDE DEF I, L
  <2>1. QED
    BY <1>1, <1>2, GreatestElement
<1>4. E!Max(I) = Greatest(I)
  BY Zenon DEF E!Max, Greatest
<1>5. E!LastBest(members) = members[Greatest(I)]
  BY <1>4 DEF E!LastBest
<1>6. QED
  BY <1>1, <1>2, <1>3, <1>5

\* What the command line fixes.
LEMMA DriverLine ==
    ASSUME eConfig \in DriverConfigs
    PROVE  /\ eConfig.islands \in Nat /\ eConfig.population \in Nat
           /\ eConfig.generations \in Nat /\ eConfig.interval \in Nat
           /\ E!EnsembleSize(eConfig) \in Nat \ {0}
<1>1. eConfig.islands \in Nat /\ eConfig.population \in Nat
      /\ eConfig.generations \in Nat /\ eConfig.interval \in Nat
  BY DriverAssumption
<1>2. QED
  BY <1>1, DriverAssumption DEF E!EnsembleSize, E!Larger

\* An island: sorted, of candidates that were scored as they should be and are not
\* better than the best of all.
Stocked(members, best) ==
    /\ members \in Seq(Candidates) /\ Ranked(members)
    /\ \A j \in 1 .. Len(members) : Fair(members[j]) /\ members[j].score <= best.score

\* The islands, on one of which the best of all comes first.
Kept(all, best) ==
    /\ DOMAIN all = 1 .. eConfig.islands
    /\ \A i \in 1 .. eConfig.islands : Stocked(all[i], best)
    /\ (eConfig.population > 0 /\ eConfig.islands > 0) =>
          \E i \in 1 .. eConfig.islands : all[i] # <<>> /\ all[i][1] = best

\* A candidate that is pushed on an island.
LEMMA PushStocks ==
    ASSUME eConfig \in DriverConfigs, NEW best \in Candidates, NEW members,
           Stocked(members, best), NEW c \in Candidates, Fair(c), c.score <= best.score
    PROVE  LET s == E!PushSortTruncate(members, c)
           IN  /\ Stocked(s, best)
               /\ eConfig.population > 0 =>
                     /\ s # <<>>
                     /\ s[1] = IF members # <<>> /\ members[1].score >= c.score
                               THEN members[1] ELSE c
<1> DEFINE s == E!PushSortTruncate(members, c)
<1>1. members \in Seq(Candidates) /\ Ranked(members) /\ eConfig.population \in Nat
  BY DriverLine DEF Stocked
<1>2. /\ s \in Seq(Candidates) /\ Ranked(s)
      /\ \A j \in 1 .. Len(s) : s[j] = c \/ \E i \in 1 .. Len(members) : s[j] = members[i]
      /\ eConfig.population > 0 =>
            /\ s # <<>>
            /\ s[1] = IF members # <<>> /\ members[1].score >= c.score
                      THEN members[1] ELSE c
  BY <1>1, PushKeeps
<1> HIDE DEF s
<1>3. \A j \in 1 .. Len(s) : Fair(s[j]) /\ s[j].score <= best.score
  BY <1>2, Zenon DEF Stocked
<1>4. QED
  BY <1>2, <1>3 DEF Stocked, s

\* A candidate pushed on one of the islands leaves the best of all in front of one of
\* them, be it the former best or the candidate itself.
LEMMA PushOnIsland ==
    ASSUME eConfig \in DriverConfigs, NEW old \in Candidates, NEW best \in Candidates,
           NEW all, Kept(all, old), NEW k \in 1 .. eConfig.islands,
           NEW c \in Candidates, Fair(c), c.score <= best.score,
           best = old \/ (best = c /\ old.score < c.score)
    PROVE  Kept([all EXCEPT ![k] = E!PushSortTruncate(@, c)], best)
<1> DEFINE n == eConfig.islands
           there == E!PushSortTruncate(all[k], c)
           moved == [all EXCEPT ![k] = E!PushSortTruncate(@, c)]
<1>1. n \in Nat /\ eConfig.population \in Nat
  BY DriverLine
<1>2. /\ old.score \in Nat /\ best.score \in Nat /\ c.score \in Nat /\ old.score <= best.score
  BY CandidateScores
<1>3. DOMAIN all = 1 .. n /\ \A i \in 1 .. n : Stocked(all[i], old)
  BY DEF Kept
<1>4. ASSUME NEW i \in 1 .. n
      PROVE  /\ Stocked(all[i], best)
             /\ all[i] # <<>> => all[i][1].score \in Nat /\ all[i][1].score <= old.score
  <2>1. /\ all[i] \in Seq(Candidates) /\ Ranked(all[i])
        /\ \A j \in 1 .. Len(all[i]) : Fair(all[i][j]) /\ all[i][j].score <= old.score
    BY <1>3 DEF Stocked
  <2>2. \A j \in 1 .. Len(all[i]) : all[i][j].score \in Nat
    BY <2>1, ElementOfSeq, CandidateScores
  <2>3. \A j \in 1 .. Len(all[i]) : all[i][j].score <= best.score
    BY <1>2, <2>1, <2>2
  <2>4. all[i] # <<>> => 1 \in 1 .. Len(all[i])
    BY <2>1, EmptySeq
  <2>5. QED
    BY <2>1, <2>2, <2>3, <2>4 DEF Stocked
<1>5. /\ Stocked(there, best)
      /\ eConfig.population > 0 =>
            /\ there # <<>>
            /\ there[1] = IF all[k] # <<>> /\ all[k][1].score >= c.score THEN all[k][1] ELSE c
  BY <1>4, PushStocks
<1>6. /\ DOMAIN moved = 1 .. n /\ moved[k] = there
      /\ \A i \in 1 .. n : i # k => moved[i] = all[i]
  BY <1>3
<1> HIDE DEF moved, there
<1>7. \A i \in 1 .. n : Stocked(moved[i], best)
  BY <1>4, <1>5, <1>6
<1>8. ASSUME eConfig.population > 0
      PROVE  \E i \in 1 .. n : moved[i] # <<>> /\ moved[i][1] = best
  <2>1. CASE best = old
    <3>1. PICK i \in 1 .. n : all[i] # <<>> /\ all[i][1] = best
      BY <1>1, <1>8, <2>1 DEF Kept
    <3>2. CASE i # k
      BY <1>6, <3>1, <3>2
    <3>3. CASE i = k
      <4>1. all[k] # <<>> /\ all[k][1] = best /\ all[k][1].score >= c.score
        BY <1>2, <3>1, <3>3
      <4>2. there # <<>> /\ there[1] = best
        BY <1>5, <1>8, <4>1
      <4>3. QED
        BY <1>6, <4>2
    <3>4. QED
      BY <3>2, <3>3
  <2>2. CASE best = c /\ old.score < c.score
    <3>1. all[k] # <<>> => ~(all[k][1].score >= c.score)
      BY <1>2, <1>4, <2>2
    <3>2. there # <<>> /\ there[1] = best
      BY <1>5, <1>8, <2>2, <3>1
    <3>3. QED
      BY <1>6, <3>2
  <2>3. QED
    BY <2>1, <2>2
<1>9. Kept(moved, best)
  BY <1>6, <1>7, <1>8 DEF Kept
<1>10. QED
  BY <1>9 DEF moved

\* One exchange (the loop over islands in migrate).
LEMMA ExchangeKeeps ==
    ASSUME eConfig \in DriverConfigs, NEW best \in Candidates, NEW all, Kept(all, best),
           NEW i \in 1 .. eConfig.islands
    PROVE  Kept(E!MigrateFrom(all, i), best)
<1> DEFINE n == eConfig.islands
           next == (i % n) + 1
           migrant == E!LastBest(all[i])
           moved == [all EXCEPT ![next] = E!PushSortTruncate(@, migrant)]
<1>1. n \in Nat /\ n > 0
  BY DriverLine
<1>2. next \in 1 .. n
  <2> HIDE DEF n
  <2>1. i % n \in 0 .. n - 1
    BY <1>1, Z3
  <2>2. QED
    BY <1>1, <2>1
<1>3. E!MigrateFrom(all, i) = all \/ (all[i] # <<>> /\ E!MigrateFrom(all, i) = moved)
  BY DEF E!MigrateFrom
<1> SUFFICES ASSUME all[i] # <<>> PROVE Kept(moved, best)
  BY <1>3
<1>4. Stocked(all[i], best)
  BY DEF Kept
<1>5. migrant \in Candidates /\ Fair(migrant) /\ migrant.score <= best.score
  <2>1. /\ migrant \in Candidates
        /\ \E j \in 1 .. Len(all[i]) : migrant = all[i][j]
    BY <1>4, LastIsBest DEF Stocked
  <2>2. QED
    BY <1>4, <2>1, Zenon DEF Stocked
<1> HIDE DEF migrant, next
<1>6. QED
  BY <1>2, <1>5, PushOnIsland

\* Induction over the numbers for a set of them.
LEMMA SetInduction ==
    ASSUME NEW I, 0 \in I, \A n \in Nat : n \in I => n + 1 \in I
    PROVE  Nat \subseteq I
<1>1. SUFFICES ASSUME Nat \ I # {} PROVE FALSE
  OBVIOUS
<1> DEFINE R == Nat \ I
           n == Least(R)
<1>2. n \in R /\ \A m \in R : n <= m
  BY <1>1, LeastElement, Zenon
<1> HIDE DEF n
<1>3. n \in Nat /\ n \notin I /\ n # 0 /\ n - 1 \in Nat /\ (n - 1) + 1 = n
  BY <1>2
<1>4. n - 1 \in I
  <2>1. ~(n <= n - 1)
    BY <1>3
  <2>2. QED
    BY <1>2, <1>3, <2>1, Zenon
<1>5. QED
  BY <1>3, <1>4

\* The round over n islands: what each exchange leaves is what the next starts from.
IsRound(g, n) ==
    g = [i \in 0 .. n |-> IF i = 0 THEN islands ELSE E!MigrateFrom(g[i - 1], i)]

\* There is a round of any number of exchanges.
LEMMA RoundExists == \A n \in Nat : \E g : IsRound(g, n)
<1> DEFINE I == {n \in Nat : \E g : IsRound(g, n)}
<1>1. 0 \in I
  <2> DEFINE g == [i \in 0 .. 0 |-> islands]
  <2>1. g = [i \in 0 .. 0 |-> IF i = 0 THEN islands ELSE E!MigrateFrom(g[i - 1], i)]
    OBVIOUS
  <2>2. QED
    BY <2>1 DEF IsRound
<1>2. ASSUME NEW n \in Nat, n \in I PROVE n + 1 \in I
  <2>1. PICK g : IsRound(g, n)
    BY <1>2
  <2> DEFINE h == [i \in 0 .. n + 1 |-> IF i = n + 1 THEN E!MigrateFrom(g[n], n + 1) ELSE g[i]]
  <2>2. ASSUME NEW i \in 0 .. n + 1
        PROVE  h[i] = IF i = 0 THEN islands ELSE E!MigrateFrom(h[i - 1], i)
    <3>1. CASE i = n + 1
      <4>1. h[i] = E!MigrateFrom(g[n], n + 1) /\ h[n] = g[n] /\ i - 1 = n /\ i # 0
        BY <3>1
      <4>2. QED
        BY <3>1, <4>1
    <3>2. CASE i # n + 1
      <4>1. h[i] = g[i] /\ i \in 0 .. n /\ (i # 0 => h[i - 1] = g[i - 1])
        BY <3>2
      <4>2. g[i] = IF i = 0 THEN islands ELSE E!MigrateFrom(g[i - 1], i)
        BY <2>1, <4>1 DEF IsRound
      <4>3. QED
        BY <4>1, <4>2
    <3>3. QED
      BY <3>1, <3>2
  <2>3. h = [i \in 0 .. n + 1 |-> IF i = 0 THEN islands ELSE E!MigrateFrom(h[i - 1], i)]
    <3>1. h = [i \in 0 .. n + 1 |-> h[i]]
      OBVIOUS
    <3> HIDE DEF h
    <3>2. QED
      BY <2>2, <3>1
  <2> HIDE DEF h
  <2>4. IsRound(h, n + 1)
    BY <2>3 DEF IsRound
  <2>5. QED
    BY <2>4
<1>3. Nat \subseteq I
  <2> HIDE DEF I
  <2>1. QED
    BY <1>1, <1>2, SetInduction
<1>4. QED
  BY <1>3

\* The rounds of Migrated, one exchange after another.
LEMMA MigratedRound ==
    ASSUME eConfig \in DriverConfigs
    PROVE  \E g : IsRound(g, eConfig.islands) /\ E!Migrated = g[eConfig.islands]
<1> DEFINE n == eConfig.islands
<1>1. \E g : IsRound(g, n)
  BY DriverLine, RoundExists
<1>2. PICK g : g = [i \in 0 .. n |-> IF i = 0 THEN islands ELSE E!MigrateFrom(g[i - 1], i)]
  BY <1>1 DEF IsRound
<1>3. \E h : h = [i \in 0 .. n |-> IF i = 0 THEN islands ELSE E!MigrateFrom(h[i - 1], i)]
              /\ E!Migrated = h[n]
  BY <1>2 DEF E!Migrated
<1>4. QED
  BY <1>3 DEF IsRound

\* The best candidate stays, through every exchange of a round.
LEMMA MigrationKeeps ==
    ASSUME eConfig \in DriverConfigs, NEW best \in Candidates, Kept(islands, best)
    PROVE  Kept(E!Migrated, best)
<1> DEFINE n == eConfig.islands
<1>1. n \in Nat
  BY DriverLine
<1>2. PICK g : IsRound(g, n) /\ E!Migrated = g[n]
  BY MigratedRound
<1> DEFINE I == {k \in Nat : k <= n => Kept(g[k], best)}
<1> HIDE DEF n
<1>3. 0 \in I
  <2>1. g[0] = islands
    BY <1>1, <1>2 DEF IsRound
  <2>2. QED
    BY <2>1
<1>4. ASSUME NEW k \in Nat, k \in I PROVE k + 1 \in I
  <2> SUFFICES ASSUME k + 1 <= n PROVE Kept(g[k + 1], best)
    OBVIOUS
  <2>1. k + 1 \in 1 .. n /\ k <= n /\ k + 1 \in 0 .. n /\ k + 1 # 0 /\ (k + 1) - 1 = k
    BY <1>1
  <2>2. Kept(g[k], best)
    BY <1>4, <2>1
  <2>3. g[k + 1] = E!MigrateFrom(g[k], k + 1)
    BY <1>2, <2>1 DEF IsRound
  <2>4. QED
    BY <2>1, <2>2, <2>3, ExchangeKeeps DEF n
<1>5. Nat \subseteq I
  <2> HIDE DEF I
  <2>1. QED
    BY <1>3, <1>4, SetInduction
<1>6. Kept(g[n], best)
  BY <1>1, <1>5
<1>7. QED
  BY <1>2, <1>6

Accounts == [evals : Nat, best : Nat]

\* The evaluations on the accounts of the first n models.
IsSum(g, accounts, n) ==
    g = [k \in 0 .. n |-> IF k = 0 THEN 0 ELSE g[k - 1] + accounts[k].evals]

\* There is a sum over any number of accounts.
LEMMA SumExists == ASSUME NEW accounts PROVE \A n \in Nat : \E g : IsSum(g, accounts, n)
<1> DEFINE I == {n \in Nat : \E g : IsSum(g, accounts, n)}
<1>1. 0 \in I
  <2> DEFINE g == [k \in 0 .. 0 |-> 0]
  <2>1. g = [k \in 0 .. 0 |-> IF k = 0 THEN 0 ELSE g[k - 1] + accounts[k].evals]
    OBVIOUS
  <2>2. QED
    BY <2>1 DEF IsSum
<1>2. ASSUME NEW n \in Nat, n \in I PROVE n + 1 \in I
  <2>1. PICK g : IsSum(g, accounts, n)
    BY <1>2
  <2> DEFINE h == [k \in 0 .. n + 1 |-> IF k = n + 1 THEN g[n] + accounts[n + 1].evals ELSE g[k]]
  <2>2. ASSUME NEW k \in 0 .. n + 1
        PROVE  h[k] = IF k = 0 THEN 0 ELSE h[k - 1] + accounts[k].evals
    <3>1. CASE k = n + 1
      <4>1. h[k] = g[n] + accounts[n + 1].evals /\ h[n] = g[n] /\ k - 1 = n /\ k # 0
        BY <3>1
      <4>2. QED
        BY <3>1, <4>1
    <3>2. CASE k # n + 1
      <4>1. h[k] = g[k] /\ k \in 0 .. n /\ (k # 0 => h[k - 1] = g[k - 1])
        BY <3>2
      <4>2. g[k] = IF k = 0 THEN 0 ELSE g[k - 1] + accounts[k].evals
        BY <2>1, <4>1 DEF IsSum
      <4>3. QED
        BY <4>1, <4>2
    <3>3. QED
      BY <3>1, <3>2
  <2>3. h = [k \in 0 .. n + 1 |-> IF k = 0 THEN 0 ELSE h[k - 1] + accounts[k].evals]
    <3>1. h = [k \in 0 .. n + 1 |-> h[k]]
      OBVIOUS
    <3> HIDE DEF h
    <3>2. QED
      BY <2>2, <3>1
  <2> HIDE DEF h
  <2>4. IsSum(h, accounts, n + 1)
    BY <2>3 DEF IsSum
  <2>5. QED
    BY <2>4
<1>3. Nat \subseteq I
  <2> HIDE DEF I
  <2>1. QED
    BY <1>1, <1>2, SetInduction
<1>4. QED
  BY <1>3

\* Spent is the sum over all of them.
LEMMA SpentIsSum ==
    ASSUME models \in Seq(Accounts)
    PROVE  \E g : IsSum(g, models, Len(models)) /\ E!Spent = g[Len(models)]
<1>1. Len(models) \in Nat
  BY LenProperties
<1>2. PICK g : g = [k \in 0 .. Len(models) |-> IF k = 0 THEN 0 ELSE g[k - 1] + models[k].evals]
  BY <1>1, SumExists DEF IsSum
<1>3. \E h : h = [k \in 0 .. Len(models) |-> IF k = 0 THEN 0 ELSE h[k - 1] + models[k].evals]
             /\ E!Spent = h[Len(models)]
  BY <1>2 DEF E!Spent
<1>4. QED
  BY <1>3 DEF IsSum

\* Before anything was tried nothing is spent.
LEMMA NothingSpent ==
    ASSUME models \in Seq(Accounts), \A m \in 1 .. Len(models) : models[m].evals = 0
    PROVE  E!Spent = 0
<1> DEFINE L == Len(models)
<1>1. PICK g : IsSum(g, models, L) /\ E!Spent = g[L]
  BY SpentIsSum
<1>2. L \in Nat /\ \A m \in 1 .. L : models[m].evals = 0
  BY LenProperties
<1> DEFINE I == {k \in Nat : k <= L => g[k] = 0}
<1> HIDE DEF L
<1>3. 0 \in I
  BY <1>1, <1>2 DEF IsSum
<1>4. ASSUME NEW k \in Nat, k \in I PROVE k + 1 \in I
  <2> SUFFICES ASSUME k + 1 <= L PROVE g[k + 1] = 0
    OBVIOUS
  <2>1. k + 1 \in 1 .. L /\ k + 1 \in 0 .. L /\ k <= L /\ (k + 1) - 1 = k
    BY <1>2
  <2>2. g[k + 1] = g[k] + models[k + 1].evals
    BY <1>1, <2>1 DEF IsSum
  <2>3. QED
    BY <1>2, <1>4, <2>1, <2>2
<1>5. Nat \subseteq I
  <2> HIDE DEF I
  <2>1. QED
    BY <1>3, <1>4, SetInduction
<1>6. QED
  BY <1>1, <1>2, <1>5

\* An evaluation is on the account of the model it was asked of (record).
LEMMA SpendingGrows ==
    ASSUME models \in Seq(Accounts), models' \in Seq(Accounts), Len(models') = Len(models),
           NEW a \in 1 .. Len(models), models'[a].evals = models[a].evals + 1,
           \A m \in 1 .. Len(models) : m # a => models'[m].evals = models[m].evals
    PROVE  E!Spent \in Nat /\ E!Spent' = E!Spent + 1
<1> DEFINE L == Len(models)
<1>1. PICK g : IsSum(g, models, L) /\ E!Spent = g[L]
  BY SpentIsSum
<1>2. PICK h : IsSum(h, models', L) /\ E!Spent' = h[L]
  <2>1. L \in Nat
    BY LenProperties
  <2>2. PICK e : e = [k \in 0 .. L |-> IF k = 0 THEN 0 ELSE e[k - 1] + models'[k].evals]
    BY <2>1, SumExists DEF IsSum
  <2>3. PICK h : h = [k \in 0 .. Len(models') |-> IF k = 0 THEN 0 ELSE h[k - 1] + models'[k].evals]
    BY <2>2
  <2>4. \E f : f = [k \in 0 .. Len(models') |-> IF k = 0 THEN 0 ELSE f[k - 1] + models'[k].evals]
               /\ E!Spent' = f[Len(models')]
    BY <2>3 DEF E!Spent
  <2>5. QED
    BY <2>4 DEF IsSum
<1>3. /\ L \in Nat /\ \A m \in 1 .. L : models[m].evals \in Nat
      /\ a \in 1 .. L /\ models'[a].evals = models[a].evals + 1
      /\ \A m \in 1 .. L : m # a => models'[m].evals = models[m].evals
  <2>1. \A m \in 1 .. L : models[m] \in Accounts
    BY ElementOfSeq
  <2>2. QED
    BY <2>1, LenProperties DEF Accounts
<1> DEFINE I == {k \in Nat : k <= L => g[k] \in Nat /\ h[k] = g[k] + (IF a <= k THEN 1 ELSE 0)}
<1> HIDE DEF L
<1>4. 0 \in I
  <2>1. g[0] = 0 /\ h[0] = 0 /\ ~(a <= 0)
    BY <1>1, <1>2, <1>3 DEF IsSum
  <2>2. QED
    BY <2>1
<1>5. ASSUME NEW k \in Nat, k \in I PROVE k + 1 \in I
  <2> SUFFICES ASSUME k + 1 <= L
               PROVE  g[k + 1] \in Nat /\ h[k + 1] = g[k + 1] + (IF a <= k + 1 THEN 1 ELSE 0)
    OBVIOUS
  <2>1. k + 1 \in 1 .. L /\ k + 1 \in 0 .. L /\ k <= L /\ (k + 1) - 1 = k /\ k + 1 # 0
    BY <1>3
  <2>2. g[k + 1] = g[k] + models[k + 1].evals
    BY <1>1, <2>1 DEF IsSum
  <2>3. h[k + 1] = h[k] + models'[k + 1].evals
    BY <1>2, <2>1 DEF IsSum
  <2>4. g[k] \in Nat /\ h[k] = g[k] + (IF a <= k THEN 1 ELSE 0)
    BY <1>5, <2>1
  <2>5. models[k + 1].evals \in Nat
    BY <1>3, <2>1
  <2>6. CASE a = k + 1
    BY <1>3, <2>2, <2>3, <2>4, <2>5, <2>6
  <2>7. CASE a # k + 1
    <3>1. models'[k + 1].evals = models[k + 1].evals /\ (a <= k + 1 <=> a <= k)
      BY <1>3, <2>1, <2>7
    <3>2. QED
      BY <2>2, <2>3, <2>4, <2>5, <3>1
  <2>8. QED
    BY <2>6, <2>7
<1>6. Nat \subseteq I
  <2> HIDE DEF I
  <2>1. QED
    BY <1>4, <1>5, SetInduction
<1>7. QED
  BY <1>1, <1>2, <1>3, <1>6

-----------------------------------------------------------------------------
(* The driver's invariant.                                                   *)

\* What a file written by this run holds, while best is the best candidate.
FileKept(file, best) ==
    /\ file = [text |-> file.text, failed |-> file.failed]
    /\ best.model = 0 => file.text = <<>> /\ file.failed = FALSE
    /\ best.model # 0 => \/ file.failed = FALSE /\ file.text = <<best>>
                         \/ file.failed = TRUE /\ file.text = <<>>
                         \/ /\ file.failed = TRUE
                            /\ file.text[1].score \in Nat /\ file.text[1].score < best.score

FilesKept(files, best) == FileKept(files.code, best) /\ FileKept(files.info, best)

\* A write of a better candidate keeps that, whether it succeeds or fails.
LEMMA WriteKeeps ==
    ASSUME NEW best, NEW file, FileKept(file, best),
           NEW c, c.model # 0, c.score \in Nat, best.score \in Nat, best.score < c.score,
           NEW written \in E!Written(file, c)
    PROVE  FileKept(written, c)
<1>1. CASE written = [text |-> <<c>>, failed |-> FALSE]
  BY <1>1 DEF FileKept
<1>2. CASE written = [text |-> <<>>, failed |-> TRUE]
  BY <1>2 DEF FileKept
<1>3. CASE written = [file EXCEPT !.failed = TRUE]
  <2>1. written.text = file.text /\ written.failed = TRUE
        /\ written = [text |-> written.text, failed |-> written.failed]
    BY <1>3 DEF FileKept
  <2>2. CASE file.text = <<>>
    BY <2>1, <2>2 DEF FileKept
  <2>3. CASE file.text # <<>>
    <3>1. \/ file.text = <<best>>
          \/ file.text[1].score \in Nat /\ file.text[1].score < best.score
      BY <2>3 DEF FileKept
    <3>2. file.text[1].score \in Nat /\ file.text[1].score < c.score
      <4>1. CASE file.text = <<best>>
        BY <4>1
      <4>2. CASE file.text[1].score \in Nat /\ file.text[1].score < best.score
        BY <4>2
      <4>3. QED
        BY <3>1, <4>1, <4>2
    <3>3. QED
      BY <2>1, <3>2 DEF FileKept
  <2>4. QED
    BY <2>2, <2>3
<1>4. QED
  BY <1>1, <1>2, <1>3 DEF E!Written

\* So do the two writes, one after the other.
LEMMA WritesKeep ==
    ASSUME NEW c, FilesKept(bestFile, bestEver), bestFile' \in E!FilesWritten(c),
           c.model # 0, c.score \in Nat, bestEver.score \in Nat, bestEver.score < c.score
    PROVE  FilesKept(bestFile', c)
<1>1. PICK x \in E!Written(bestFile.code, c) : \E y \in E!Written(bestFile.info, c) :
         bestFile' = [code |-> x, info |-> y]
  BY DEF E!FilesWritten
<1>2. PICK y \in E!Written(bestFile.info, c) : bestFile' = [code |-> x, info |-> y]
  BY <1>1
<1>3. FileKept(x, c) /\ FileKept(y, c)
  BY WriteKeeps DEF FilesKept
<1>4. bestFile'.code = x /\ bestFile'.info = y
  BY <1>2
<1>5. QED
  BY <1>3, <1>4 DEF FilesKept

\* What is true of the run once the seed was evaluated.
Untouched == [code |-> E!Unwritten, info |-> E!Unwritten]

DriverKeeps ==
    /\ bestEver \in Candidates /\ Fair(bestEver)
    /\ Kept(islands, bestEver)
    /\ \A m \in 1 .. Len(models) : models[m].best <= bestEver.score
    /\ bestEver.model # 0 => models[bestEver.model].best = bestEver.score
    /\ FilesKept(bestFile, bestEver)
    /\ bestEver.model = 0 => bestFile = Untouched
    /\ totalEvals = 1 + E!Spent

DriverInv ==
    /\ eConfig \in DriverConfigs
    /\ generation \in Nat /\ island \in Nat \ {0}
    /\ models \in Seq(Accounts) /\ Len(models) = E!EnsembleSize(eConfig)
    /\ ePhase = "seed" => generation = 0
    /\ ePhase = "evolving" => generation > 0
    /\ generation = 0 => /\ DOMAIN islands = 1 .. eConfig.islands
                         /\ \A i \in 1 .. eConfig.islands : islands[i] = <<>>
                         /\ \A m \in 1 .. Len(models) : models[m].evals = 0 /\ models[m].best = 0
                         /\ bestFile = Untouched
    /\ generation > 0 => DriverKeeps

\* Nothing of this depends on more than the command line.
LEMMA KeptMoves ==
    ASSUME eConfig' = eConfig, Kept(islands', bestEver')
    PROVE  Kept(islands, bestEver)'
BY Zenon DEF Kept, Stocked, Ranked, Fair, Candidates

\* The same of the best candidate.
LEMMA BestMoves ==
    ASSUME eConfig' = eConfig, bestEver' \in Candidates, Fair(bestEver')
    PROVE  (bestEver \in Candidates)' /\ Fair(bestEver)'
BY Zenon DEF Fair, Candidates

\* Every answered request brings one of the codes.
LEMMA DriverAsks ==
    ASSUME NEW x \in E!Answered
    PROVE  x \in DriverCodes
BY DEF E!Answered, E!Texts, E!ExtractRustCode

\* The seed, put on every island, is the best there is.
LEMMA SeedKeeps ==
    ASSUME DriverInv, E!EvaluateSeed
    PROVE  DriverInv'
<1>1. PICK x \in DriverCodes : \E seed \in E!Evaluations(x, 0) :
          /\ islands' = [i \in DOMAIN islands |-> <<seed>>] /\ bestEver' = seed
  BY DEF E!EvaluateSeed
<1>2. PICK seed \in E!Evaluations(x, 0) :
          /\ islands' = [i \in DOMAIN islands |-> <<seed>>] /\ bestEver' = seed
  BY <1>1
<1>3. /\ ePhase = "seed" /\ totalEvals' = 1 /\ ePhase' = "evolving" /\ generation' = 1
      /\ UNCHANGED <<eConfig, island, models, bestFile>>
  BY DEF E!EvaluateSeed
<1>4. /\ eConfig \in DriverConfigs /\ generation = 0 /\ models \in Seq(Accounts)
      /\ DOMAIN islands = 1 .. eConfig.islands /\ bestFile = Untouched
      /\ \A m \in 1 .. Len(models) : models[m].evals = 0 /\ models[m].best = 0
  BY <1>3 DEF DriverInv
<1>5. eConfig.islands \in Nat /\ E!EnsembleSize(eConfig) \in Nat \ {0}
  BY <1>4, DriverLine
<1>6. seed \in Candidates /\ Fair(seed) /\ seed.model = 0
  <2>1. 0 \in 0 .. E!EnsembleSize(eConfig)
    BY <1>5
  <2>2. QED
    BY <1>4, <2>1, DriverScores
<1>7. seed.score \in Nat
  BY <1>6, CandidateScores
<1>8. Kept(islands', bestEver')
  <2>1. Stocked(<<seed>>, seed)
    <3>1. <<seed>> \in Seq(Candidates) /\ Len(<<seed>>) = 1 /\ <<seed>>[1] = seed
          /\ DOMAIN <<seed>> = {1}
      BY <1>6
    <3>2. Ranked(<<seed>>)
      BY <1>7, <3>1 DEF Ranked
    <3>3. \A j \in 1 .. Len(<<seed>>) : <<seed>>[j] = seed
      BY <3>1
    <3>4. QED
      BY <1>6, <1>7, <3>1, <3>2, <3>3 DEF Stocked
  <2>2. \A i \in 1 .. eConfig.islands : islands'[i] = <<seed>>
    BY <1>2, <1>4
  <2>3. DOMAIN islands' = 1 .. eConfig.islands
    BY <1>2, <1>4
  <2>4. eConfig.islands > 0 => 1 \in 1 .. eConfig.islands
    BY <1>5
  <2>5. <<seed>> # <<>> /\ <<seed>>[1] = seed
    OBVIOUS
  <2>6. QED
    BY <1>2, <2>1, <2>2, <2>3, <2>4, <2>5 DEF Kept
<1>9. E!Spent' = 0
  <2>1. E!Spent = 0
    BY <1>4, NothingSpent
  <2>2. E!Spent' = E!Spent
    BY <1>3, Zenon DEF E!Spent
  <2>3. QED
    BY <2>1, <2>2
<1>10. DriverKeeps'
  <2>1. Kept(islands, bestEver)'
    BY <1>3, <1>8, KeptMoves
  <2>2. (bestEver \in Candidates)' /\ Fair(bestEver)'
    BY <1>2, <1>3, <1>6, BestMoves
  <2>3. \A m \in 1 .. Len(models') : models'[m].best <= bestEver'.score
    BY <1>2, <1>3, <1>4, <1>7
  <2>4. bestEver'.model = 0 /\ bestFile' = Untouched
    BY <1>2, <1>3, <1>4, <1>6
  <2>7. FilesKept(bestFile, bestEver)'
    BY <2>4 DEF FilesKept, FileKept, Untouched, E!Unwritten
  <2>5. totalEvals' = 1 + E!Spent'
    BY <1>3, <1>9
  <2>6. QED
    BY <2>1, <2>2, <2>3, <2>4, <2>5, <2>7 DEF DriverKeeps, Untouched, E!Unwritten
<1>11. QED
  BY <1>3, <1>10 DEF DriverInv

\* The model that is asked is one of the ensemble (select_model).
LEMMA ModelSelected ==
    ASSUME DriverInv, NEW m \in E!SelectModel
    PROVE  m \in 1 .. Len(models)
<1> DEFINE L == Len(models)
<1>1. L \in Nat \ {0} /\ DOMAIN models = 1 .. L /\ island \in Nat \ {0}
  BY DriverLine, LenProperties DEF DriverInv
<1>2. E!RoundRobin \in 1 .. L
  <2> HIDE DEF L
  <2>1. L = Len(models)
    BY DEF L
  <2>2. (island - 1) % L \in 0 .. L - 1
    BY <1>1, Z3
  <2>3. E!RoundRobin = ((island - 1) % L) + 1
    BY <2>1 DEF E!RoundRobin
  <2>4. QED
    BY <1>1, <2>2, <2>3
<1>3. E!UcbChoice \subseteq 1 .. L
  <2> DEFINE fresh == {k \in DOMAIN models : models[k].evals = 0}
  <2>1. CASE fresh # {}
    <3>1. Greatest(fresh) \in fresh
      <4>1. fresh \subseteq 1 .. L /\ L \in Nat
        BY <1>1
      <4> HIDE DEF fresh, L
      <4>2. QED
        BY <2>1, <4>1, GreatestElement
    <3>2. E!Max(fresh) = Greatest(fresh)
      BY Zenon DEF E!Max, Greatest
    <3>3. E!UcbChoice = {Greatest(fresh)}
      BY <2>1, <3>2 DEF E!UcbChoice
    <3>4. QED
      BY <1>1, <3>1, <3>3
  <2>2. CASE fresh = {}
    BY <1>1, <2>2 DEF E!UcbChoice
  <2>3. QED
    BY <2>1, <2>2
<1>4. QED
  BY <1>2, <1>3 DEF E!SelectModel

\* A candidate is recorded, put on its island, and compared with the best.
LEMMA MutationKeeps ==
    ASSUME DriverInv, E!Mutate
    PROVE  DriverInv'
<1>1. PICK m \in E!SelectModel, x \in E!Answered : \E c \in E!Evaluations(x, m) :
        /\ models' = [models EXCEPT ![m] = E!Record(@, c.score)]
        /\ islands' = [islands EXCEPT ![island] = E!PushSortTruncate(@, c)]
        /\ IF c.score > bestEver.score
           THEN bestEver' = c /\ bestFile' \in E!FilesWritten(c)
           ELSE UNCHANGED <<bestEver, bestFile>>
  BY DEF E!Mutate
<1>2. PICK c \in E!Evaluations(x, m) :
        /\ models' = [models EXCEPT ![m] = E!Record(@, c.score)]
        /\ islands' = [islands EXCEPT ![island] = E!PushSortTruncate(@, c)]
        /\ IF c.score > bestEver.score
           THEN bestEver' = c /\ bestFile' \in E!FilesWritten(c)
           ELSE UNCHANGED <<bestEver, bestFile>>
  BY <1>1
<1>3. /\ ePhase = "evolving" /\ island <= eConfig.islands
      /\ totalEvals' = totalEvals + 1 /\ island' = island + 1
      /\ UNCHANGED <<eConfig, ePhase, generation>>
  BY DEF E!Mutate, E!Mutating, E!Running
<1>4. /\ eConfig \in DriverConfigs /\ generation > 0 /\ generation \in Nat
      /\ models \in Seq(Accounts) /\ Len(models) = E!EnsembleSize(eConfig)
      /\ island \in Nat \ {0} /\ DriverKeeps
  BY <1>3 DEF DriverInv
<1>5. eConfig.islands \in Nat /\ E!EnsembleSize(eConfig) \in Nat \ {0}
  BY <1>4, DriverLine
<1>6. island \in 1 .. eConfig.islands
  BY <1>3, <1>4, <1>5
<1>7. m \in 1 .. Len(models)
  BY ModelSelected
<1>8. c \in Candidates /\ Fair(c) /\ c.model = m
  <2>1. m \in 0 .. E!EnsembleSize(eConfig) /\ x \in DriverCodes
    BY <1>4, <1>5, <1>7, DriverAsks
  <2>2. QED
    BY <1>4, <2>1, DriverScores
<1>9. /\ bestEver \in Candidates /\ Fair(bestEver) /\ Kept(islands, bestEver)
      /\ c.score \in Nat /\ bestEver.score \in Nat
      /\ \A k \in 1 .. Len(models) : models[k].best <= bestEver.score
  BY <1>4, <1>8, CandidateScores DEF DriverKeeps
<1> DEFINE a == E!Record(models[m], c.score)
<1>10. /\ \A k \in 1 .. Len(models) : models[k].evals \in Nat /\ models[k].best \in Nat
       /\ models[m] \in Accounts /\ Len(models) \in Nat /\ DOMAIN models = 1 .. Len(models)
  <2>1. \A k \in 1 .. Len(models) : models[k] \in Accounts
    BY <1>4, ElementOfSeq
  <2>2. QED
    BY <1>4, <1>7, <2>1, LenProperties DEF Accounts
<1>11. /\ a \in Accounts /\ a.evals = models[m].evals + 1
       /\ a.best = IF models[m].best > c.score THEN models[m].best ELSE c.score
  BY <1>7, <1>9, <1>10 DEF E!Record, E!Larger, Accounts
<1>12. models' = [models EXCEPT ![m] = a]
  BY <1>2
<1> HIDE DEF a
<1>13. /\ models' \in Seq(Accounts) /\ Len(models') = Len(models) /\ models'[m] = a
       /\ \A k \in 1 .. Len(models) : k # m => models'[k] = models[k]
  BY <1>4, <1>7, <1>11, <1>12, ExceptSeq
<1>14. E!Spent \in Nat /\ E!Spent' = E!Spent + 1
  <2>1. models'[m].evals = models[m].evals + 1
    BY <1>11, <1>13
  <2>2. \A k \in 1 .. Len(models) : k # m => models'[k].evals = models[k].evals
    BY <1>13
  <2>3. QED
    BY <1>4, <1>7, <1>13, <2>1, <2>2, SpendingGrows
<1>15. totalEvals' = 1 + E!Spent'
  <2>1. totalEvals = 1 + E!Spent
    BY <1>4 DEF DriverKeeps
  <2>2. QED
    BY <1>3, <1>14, <2>1
<1>16. DriverKeeps'
  <2>1. CASE c.score > bestEver.score
    <3>1. bestEver' = c /\ bestFile' \in E!FilesWritten(c)
      BY <1>2, <2>1
    <3>2. Kept(islands', bestEver')
      <4>1. c.score <= c.score /\ bestEver.score < c.score
        BY <1>9, <2>1
      <4>2. Kept([islands EXCEPT ![island] = E!PushSortTruncate(@, c)], c)
        BY <1>4, <1>6, <1>8, <1>9, <4>1, PushOnIsland
      <4>3. QED
        BY <1>2, <3>1, <4>2
    <3>3. \A k \in 1 .. Len(models') : models'[k].best <= bestEver'.score
      BY <1>9, <1>10, <1>11, <1>13, <2>1, <3>1
    <3>4. models'[m].best = c.score
      BY <1>7, <1>9, <1>10, <1>11, <1>13, <2>1
    <3>5. /\ bestEver'.model # 0 => models'[bestEver'.model].best = bestEver'.score
          /\ bestEver'.model # 0 /\ c.model # 0
      BY <1>7, <1>8, <3>1, <3>4
    <3>8. FilesKept(bestFile, bestEver)'
      <4>1. FilesKept(bestFile, bestEver)
        BY <1>4 DEF DriverKeeps
      <4>2. bestEver.score < c.score
        BY <1>9, <2>1
      <4>3. FilesKept(bestFile', c)
        BY <1>9, <3>1, <3>5, <4>1, <4>2, WritesKeep
      <4>4. QED
        BY <3>1, <4>3 DEF FilesKept, FileKept
    <3>6. Kept(islands, bestEver)' /\ (bestEver \in Candidates)' /\ Fair(bestEver)'
      BY <1>3, <1>8, <3>1, <3>2, KeptMoves, BestMoves
    <3>7. QED
      BY <1>15, <3>3, <3>5, <3>6, <3>8 DEF DriverKeeps
  <2>2. CASE ~(c.score > bestEver.score)
    <3>1. bestEver' = bestEver /\ bestFile' = bestFile
      BY <1>2, <2>2
    <3>2. Kept(islands', bestEver')
      <4>1. c.score <= bestEver.score
        BY <1>9, <2>2
      <4>2. Kept([islands EXCEPT ![island] = E!PushSortTruncate(@, c)], bestEver)
        BY <1>4, <1>6, <1>8, <1>9, <4>1, PushOnIsland
      <4>3. QED
        BY <1>2, <3>1, <4>2
    <3>3. \A k \in 1 .. Len(models') : models'[k].best <= bestEver'.score
      BY <1>9, <1>10, <1>11, <1>13, <2>2, <3>1
    <3>4. bestEver.model # 0 => models[bestEver.model].best = bestEver.score
      BY <1>4 DEF DriverKeeps
    <3>5. bestEver.model # 0 => models'[bestEver.model].best = bestEver.score
      <4>1. SUFFICES ASSUME bestEver.model # 0
                     PROVE  models'[bestEver.model].best = bestEver.score
        OBVIOUS
      <4>2. bestEver.model \in 1 .. Len(models)
        <5>1. bestEver.model \in 0 .. E!EnsembleSize(eConfig)
          BY <1>9, CandidateScores
        <5>2. QED
          BY <1>4, <1>5, <4>1, <5>1
      <4>3. CASE bestEver.model = m
        <5>1. models[m].best = bestEver.score
          BY <3>4, <4>1, <4>3
        <5>2. a.best = bestEver.score
          BY <1>9, <1>11, <2>2, <5>1
        <5>3. QED
          BY <1>13, <4>3, <5>2
      <4>4. CASE bestEver.model # m
        BY <1>13, <3>4, <4>1, <4>2, <4>4
      <4>5. QED
        BY <4>3, <4>4
    <3>6. Kept(islands, bestEver)' /\ (bestEver \in Candidates)' /\ Fair(bestEver)'
      BY <1>3, <1>9, <3>1, <3>2, KeptMoves, BestMoves
    <3>7. FilesKept(bestFile, bestEver) /\ (bestEver.model = 0 => bestFile = Untouched)
      BY <1>4 DEF DriverKeeps
    <3>8. FilesKept(bestFile, bestEver)' /\ (bestEver.model = 0 => bestFile = Untouched)'
      BY <3>1, <3>7 DEF FilesKept, FileKept, Untouched, E!Unwritten
    <3>9. QED
      BY <1>15, <3>1, <3>3, <3>5, <3>6, <3>8 DEF DriverKeeps
  <2>3. QED
    BY <2>1, <2>2
<1>17. island' \in Nat \ {0}
  BY <1>3, <1>4
<1>18. QED
  BY <1>3, <1>4, <1>13, <1>16, <1>17 DEF DriverInv

\* The end of a generation, with its exchange, moves nothing else.
LEMMA GenerationKeeps ==
    ASSUME DriverInv, E!EndGeneration
    PROVE  DriverInv'
<1>1. /\ ePhase = "evolving" /\ generation' = generation + 1 /\ island' = 1
      /\ islands' = E!Migrated \/ islands' = islands
      /\ UNCHANGED <<eConfig, ePhase, models, bestEver, bestFile, totalEvals>>
  BY DEF E!EndGeneration, E!Running
<1>2. /\ eConfig \in DriverConfigs /\ generation > 0 /\ generation \in Nat
      /\ models \in Seq(Accounts) /\ Len(models) = E!EnsembleSize(eConfig) /\ DriverKeeps
  BY <1>1 DEF DriverInv
<1>3. bestEver \in Candidates /\ Fair(bestEver) /\ Kept(islands, bestEver)
  BY <1>2 DEF DriverKeeps
<1>4. Kept(islands', bestEver')
  BY <1>1, <1>2, <1>3, MigrationKeeps
<1>5. Kept(islands, bestEver)' /\ (bestEver \in Candidates)' /\ Fair(bestEver)'
  BY <1>1, <1>3, <1>4, KeptMoves, BestMoves
<1>6. E!Spent' = E!Spent
  BY <1>1, Zenon DEF E!Spent
<1>7. DriverKeeps'
  BY <1>1, <1>2, <1>5, <1>6 DEF DriverKeeps
<1>8. QED
  BY <1>1, <1>2, <1>7 DEF DriverInv

\* What only moves on keeps the rest.
LEMMA RestKeeps ==
    ASSUME DriverInv, island' \in Nat \ {0},
           ePhase' = ePhase \/ ePhase' \in {"panicked", "done"},
           UNCHANGED <<eConfig, generation, islands, models, bestEver, bestFile, totalEvals>>
    PROVE  DriverInv'
<1>1. E!Spent' = E!Spent
  BY Zenon DEF E!Spent
<1>2. ASSUME DriverKeeps PROVE DriverKeeps'
  <2>1. bestEver \in Candidates /\ Fair(bestEver) /\ Kept(islands, bestEver)
    BY <1>2 DEF DriverKeeps
  <2>2. Kept(islands, bestEver)' /\ (bestEver \in Candidates)' /\ Fair(bestEver)'
    BY <2>1, KeptMoves, BestMoves
  <2>3. QED
    BY <1>1, <1>2, <2>2 DEF DriverKeeps
<1>3. QED
  BY <1>2 DEF DriverInv

LEMMA DriverStarts == Init => DriverInv
<1> SUFFICES ASSUME Init PROVE DriverInv
  OBVIOUS
<1> DEFINE n == E!EnsembleSize(eConfig)
           u == [evals |-> 0, best |-> 0]
<1>1. /\ eConfig \in DriverConfigs /\ ePhase = "seed" /\ generation = 0 /\ island = 1
      /\ islands = [i \in 1 .. eConfig.islands |-> <<>>]
      /\ models = [m \in 1 .. n |-> u] /\ bestFile = Untouched
  BY DEF Init, E!Init, E!Untried, Untouched
<1>2. n \in Nat
  BY <1>1, DriverLine
<1>3. u \in Accounts /\ u.evals = 0 /\ u.best = 0
  BY DEF Accounts
<1> HIDE DEF n, u
<1>4. models \in Seq(Accounts) /\ Len(models) = n /\ \A m \in 1 .. n : models[m] = u
  BY <1>1, <1>2, <1>3
<1>5. \A m \in 1 .. Len(models) : models[m].evals = 0 /\ models[m].best = 0
  BY <1>3, <1>4
<1>6. DOMAIN islands = 1 .. eConfig.islands /\ \A i \in 1 .. eConfig.islands : islands[i] = <<>>
  BY <1>1
<1>7. Len(models) = E!EnsembleSize(eConfig)
  BY <1>4 DEF n
<1>8. /\ ~(generation > 0) /\ generation \in Nat /\ island \in Nat \ {0}
      /\ ePhase = "seed" /\ ePhase # "evolving"
  BY <1>1
<1>9. QED
  BY <1>1, <1>4, <1>5, <1>6, <1>7, <1>8, Zenon DEF DriverInv

\* Every step of the driver keeps its invariant.
LEMMA DriverSteps ==
    ASSUME DriverInv, [E!Next]_driver
    PROVE  DriverInv'
<1>1. CASE E!EvaluateSeed
  BY <1>1, SeedKeeps
<1>2. CASE E!SkipIsland
  <2>1. /\ island' = island + 1
        /\ UNCHANGED <<eConfig, ePhase, generation, islands, models, bestEver, bestFile, totalEvals>>
    BY <1>2 DEF E!SkipIsland
  <2>2. island' \in Nat \ {0}
    BY <2>1 DEF DriverInv
  <2>3. QED
    BY <2>1, <2>2, RestKeeps
<1>3. CASE E!Mutate
  BY <1>3, MutationKeeps
<1>4. CASE E!EndGeneration
  BY <1>4, GenerationKeeps
<1>5. CASE E!Panic \/ E!Summary
  <2>1. /\ ePhase' \in {"panicked", "done"} /\ island' = island
        /\ UNCHANGED <<eConfig, generation, islands, models, bestEver, bestFile, totalEvals>>
    BY <1>5 DEF E!Panic, E!Summary
  <2>2. island' \in Nat \ {0}
    BY <2>1 DEF DriverInv
  <2>3. QED
    BY <2>1, <2>2, RestKeeps
<1>6. CASE UNCHANGED driver
  <2>1. UNCHANGED <<island, eConfig, ePhase, generation, islands, models, bestEver, bestFile,
                    totalEvals>>
    BY <1>6 DEF driver
  <2>2. island' \in Nat \ {0}
    BY <2>1 DEF DriverInv
  <2>3. QED
    BY <2>1, <2>2, RestKeeps
<1>7. QED
  BY <1>1, <1>2, <1>3, <1>4, <1>5, <1>6 DEF E!Next

LEMMA DriverAlways == Spec => []DriverInv
<1>1. Init => DriverInv
  BY DriverStarts
<1>2. DriverInv /\ [Next]_vars => DriverInv'
  <2> SUFFICES ASSUME DriverInv, [Next]_vars PROVE DriverInv'
    OBVIOUS
  <2>1. [E!Next]_driver
    BY DEF Next, vars, programs
  <2>2. QED
    BY <2>1, DriverSteps
<1>3. QED
  BY <1>1, <1>2, PTL DEF Spec

\* Who is on an island.
LEMMA MembersKept ==
    ASSUME DriverInv
    PROVE  /\ generation = 0 => E!Members = {}
           /\ generation > 0 => \A c \in E!Members : Fair(c) /\ c.score <= bestEver.score
                                                    /\ c.score \in Nat
<1>1. \A c \in E!Members : \E i \in DOMAIN islands : \E j \in DOMAIN islands[i] : c = islands[i][j]
  BY DEF E!Members
<1>2. ASSUME generation = 0 PROVE E!Members = {}
  <2>1. \A i \in DOMAIN islands : DOMAIN islands[i] = {}
    BY <1>2 DEF DriverInv
  <2>2. QED
    BY <1>1, <2>1
<1>3. ASSUME generation > 0, NEW c \in E!Members
      PROVE  Fair(c) /\ c.score <= bestEver.score /\ c.score \in Nat
  <2>1. PICK i \in DOMAIN islands : \E j \in DOMAIN islands[i] : c = islands[i][j]
    BY <1>1
  <2>2. PICK j \in DOMAIN islands[i] : c = islands[i][j]
    BY <2>1
  <2>3. Stocked(islands[i], bestEver)
    BY <1>3 DEF DriverInv, DriverKeeps, Kept
  <2>4. islands[i] \in Seq(Candidates) /\ j \in 1 .. Len(islands[i])
    BY <2>3, LenProperties DEF Stocked
  <2>5. c \in Candidates
    BY <2>2, <2>4, ElementOfSeq
  <2>6. QED
    BY <2>2, <2>3, <2>4, <2>5, CandidateScores DEF Stocked
<1>4. QED
  BY <1>2, <1>3

\* The best candidate ever scored is kept, whatever is trimmed and migrated, and all
\* that is said of it - its model's account, the file, the count of evaluations - is true.
THEOREM DriverKeepsBest == Spec => []BestKept
<1>1. DriverInv => BestKept
  <2> SUFFICES ASSUME DriverInv, generation > 0
               PROVE  /\ eConfig.population > 0 /\ eConfig.islands > 0 => bestEver \in E!Members
                      /\ \A c \in E!Members : c.score <= bestEver.score
                      /\ \A m \in DOMAIN models : models[m].best <= bestEver.score
                      /\ bestEver.model # 0 => /\ models[bestEver.model].best = bestEver.score
                                               /\ E!TellsBest(bestFile.code)
                                               /\ E!TellsBest(bestFile.info)
                      /\ bestEver.model = 0 =>
                            bestFile = [code |-> E!Unwritten, info |-> E!Unwritten]
                      /\ totalEvals = 1 + E!Spent
    BY DEF BestKept, E!BestKept
  <2>1. DriverKeeps /\ models \in Seq(Accounts)
    BY DEF DriverInv
  <2>2. DOMAIN models = 1 .. Len(models)
    BY <2>1, LenProperties
  <2>3. ASSUME eConfig.population > 0, eConfig.islands > 0 PROVE bestEver \in E!Members
    <3>1. PICK i \in 1 .. eConfig.islands : islands[i] # <<>> /\ islands[i][1] = bestEver
      BY <2>1, <2>3 DEF DriverKeeps, Kept
    <3>2. i \in DOMAIN islands /\ islands[i] \in Seq(Candidates)
      BY <2>1 DEF DriverKeeps, Kept, Stocked
    <3>3. 1 \in DOMAIN islands[i]
      BY <3>1, <3>2, EmptySeq, LenProperties
    <3>4. QED
      BY <3>1, <3>2, <3>3 DEF E!Members
  <2>4. ASSUME bestEver.model # 0
        PROVE  E!TellsBest(bestFile.code) /\ E!TellsBest(bestFile.info)
    BY <2>1, <2>4 DEF DriverKeeps, FilesKept, FileKept, E!TellsBest
  <2>5. bestEver.model = 0 => bestFile = [code |-> E!Unwritten, info |-> E!Unwritten]
    BY <2>1 DEF DriverKeeps, Untouched
  <2>6. QED
    BY <2>1, <2>2, <2>3, <2>4, <2>5, MembersKept DEF DriverKeeps
<1>2. QED
  BY <1>1, DriverAlways, PTL

\* A candidate that fails a level never displaces one that passes them all.
THEOREM DriverPrefersCorrect == Spec => []CorrectWins
<1>1. DriverInv => CorrectWins
  <2> SUFFICES ASSUME DriverInv, NEW c \in E!Members, c.correct PROVE bestEver.correct
    BY DEF CorrectWins, E!CorrectWins
  <2>1. generation > 0
    BY MembersKept DEF DriverInv
  <2>2. Fair(c) /\ c.score <= bestEver.score /\ c.score \in Nat
    BY <2>1, MembersKept
  <2>3. bestEver \in Candidates /\ Fair(bestEver)
    BY <2>1 DEF DriverInv, DriverKeeps
  <2>4. bestEver.score \in Nat
    BY <2>3, CandidateScores
  <2>5. E!Rank(eConfig.cascade.maxLevel) \in Nat
    <3>1. eConfig.cascade.maxLevel \in E!LevelNames
      BY DriverAssumption DEF DriverInv
    <3>2. E!LevelNames = C!LevelNames /\ \A l : E!Rank(l) = C!Rank(l)
      BY Zenon DEF E!LevelNames, C!LevelNames, E!Levels, C!Levels, E!Rank, C!Rank
    <3>3. QED
      BY <3>1, <3>2, RunnerLevels
  <2>6. QED
    BY <2>2, <2>3, <2>4, <2>5 DEF Fair
<1>2. QED
  BY <1>1, DriverAlways, PTL

-----------------------------------------------------------------------------
(* The harness.                                                              *)

Messages == {"operation failed", "invariant broken"}

\* Where in the loop a check may be behind the count of operations: after a step the
\* break may be the last operation's, and then it is the next check's to find.
HarnessInv ==
    /\ hConfig \in HarnessConfigs
    /\ operations \in Nat /\ brokenAt \in Nat
    /\ hPhase \in {"loop", "check", "yield", "done"}
    /\ violation \in {NoText} \cup Messages
    /\ hPhase # "done" => violation = NoText
    /\ violation = "invariant broken" => H!Broken
    /\ (hPhase = "done" /\ hConfig.concurrent /\ violation = NoText) =>
            ~H!Broken /\ \A t \in H!Thread : H!Done(t)
    /\ (hConfig.interval > 0 /\ H!Broken /\ hConfig.concurrent /\ hPhase # "done") =>
            \/ operations \div hConfig.interval = (brokenAt - 1) \div hConfig.interval
            \/ /\ hPhase = "check" /\ operations > 0
               /\ (operations - 1) \div hConfig.interval = (brokenAt - 1) \div hConfig.interval

\* The command line of a run.
LEMMA HarnessLine ==
    ASSUME hConfig \in HarnessConfigs
    PROVE  /\ hConfig.interval \in Nat /\ hConfig.concurrent \in BOOLEAN
           /\ NoText \notin Messages
BY HarnessAssumption DEF Messages

\* Between two multiples of the interval the quotient stays.
LEMMA QuotientStays ==
    ASSUME NEW n \in Nat, n > 0, NEW i \in Nat, i > 0, n % i # 0
    PROVE  n \div i = (n - 1) \div i
<1> DEFINE q == n \div i
           r == n % i
<1>1. q \in Nat /\ r \in 0 .. i - 1 /\ n = i * q + r
  BY Z3
<1>2. r >= 1
  BY <1>1
<1>3. n - 1 = i * q + (r - 1) /\ 0 <= r - 1 /\ r - 1 < i
  BY <1>1, <1>2
<1>4. ASSUME NEW m \in Nat, NEW a \in Nat, NEW b \in Nat, m = i * a + b, b < i
      PROVE  m \div i = a
  BY <1>4, Z3
<1>5. n - 1 \in Nat /\ r - 1 \in Nat
  BY <1>1, <1>2
<1> HIDE DEF q, r
<1>6. (n - 1) \div i = q
  BY <1>1, <1>3, <1>4, <1>5
<1>7. QED
  BY <1>6 DEF q

\* The loop's steps: skipped, failed or executed.
LEMMA StepChecked ==
    ASSUME HarnessInv, H!Skip \/ H!ExecuteFails \/ H!Execute
    PROVE  HarnessInv'
<1>1. /\ hPhase = "loop" /\ hConfig' = hConfig /\ hConfig \in HarnessConfigs
      /\ operations \in Nat /\ brokenAt \in Nat /\ violation = NoText
      /\ NoText \notin Messages
  BY HarnessLine DEF HarnessInv, H!Skip, H!ExecuteFails, H!Execute
<1>2. CASE H!ExecuteFails
  <2>1. violation' = "operation failed" /\ hPhase' = "done" /\ brokenAt' = brokenAt /\ operations' = operations
    BY <1>1, <1>2 DEF H!ExecuteFails, H!StopWith, H!Stopped
  <2>2. QED
    BY <1>1, <2>1 DEF HarnessInv, Messages
<1>3. CASE H!Skip
  <2>1. /\ hPhase' \in {"loop", "check"} /\ operations' = operations /\ brokenAt' = brokenAt
        /\ violation' = violation
    BY <1>3 DEF H!Skip
  <2>2. H!Broken' = H!Broken
    BY <2>1 DEF H!Broken
  <2>3. (hConfig.interval > 0 /\ H!Broken /\ hConfig.concurrent) =>
            operations \div hConfig.interval = (brokenAt - 1) \div hConfig.interval
    BY <1>1 DEF HarnessInv
  <2>4. QED
    BY <1>1, <2>1, <2>2, <2>3 DEF HarnessInv, Messages
<1>4. CASE H!Execute
  <2>1. /\ operations' = operations + 1 /\ violation' = violation
        /\ hPhase' = IF hConfig.concurrent THEN "check" ELSE "loop"
        /\ brokenAt' \in IF H!Broken THEN {brokenAt} ELSE {0, operations + 1}
    BY <1>4 DEF H!Execute
  <2>2. brokenAt' \in Nat /\ operations' \in Nat
    BY <1>1, <2>1
  <2>3. (hConfig.interval > 0 /\ H!Broken' /\ hConfig.concurrent) =>
            (operations' - 1) \div hConfig.interval = (brokenAt' - 1) \div hConfig.interval
    <3>1. CASE H!Broken
      <4>1. (hConfig.interval > 0 /\ hConfig.concurrent) =>
              operations \div hConfig.interval = (brokenAt - 1) \div hConfig.interval
        BY <1>1, <3>1 DEF HarnessInv
      <4>2. operations' - 1 = operations /\ brokenAt' = brokenAt
        BY <1>1, <2>1, <3>1
      <4>3. QED
        BY <4>1, <4>2
    <3>2. CASE ~H!Broken
      <4>1. H!Broken' => brokenAt' = operations'
        BY <2>1, <3>2 DEF H!Broken
      <4>2. QED
        BY <4>1
    <3>3. QED
      BY <3>1, <3>2
  <2>4. hConfig.concurrent => hPhase' = "check"
    BY <2>1
  <2>5. hPhase' \in {"loop", "check"} /\ operations' > 0
    BY <1>1, <2>1
  <2>6. QED
    BY <1>1, <2>1, <2>2, <2>3, <2>4, <2>5 DEF HarnessInv, Messages
<1>5. QED
  BY <1>2, <1>3, <1>4

\* The checks: every so many operations, and at the end of the loop.
LEMMA CheckChecked ==
    ASSUME HarnessInv, H!MaybeCheck \/ H!AllDone
    PROVE  HarnessInv'
<1>1. /\ hPhase \in {"loop", "check"} /\ UNCHANGED <<hConfig, operations, brokenAt, steps>>
      /\ hConfig \in HarnessConfigs /\ operations \in Nat /\ brokenAt \in Nat
      /\ violation = NoText /\ NoText \notin Messages
      /\ hConfig.interval \in Nat /\ hConfig.concurrent \in BOOLEAN
  BY HarnessLine DEF HarnessInv, H!MaybeCheck, H!AllDone
<1>2. H!Broken' = H!Broken
  BY <1>1 DEF H!Broken
<1>3. CASE hPhase' = "done" /\ violation' = "invariant broken" /\ H!Broken
  BY <1>1, <1>2, <1>3 DEF HarnessInv, Messages
<1>4. CASE H!MaybeCheck /\ hPhase' = "yield" /\ violation' = violation
           /\ ~(H!ShouldCheck(operations) /\ H!Broken)
  <2>1. (hConfig.interval > 0 /\ H!Broken /\ hConfig.concurrent) =>
            operations \div hConfig.interval = (brokenAt - 1) \div hConfig.interval
    <3> SUFFICES ASSUME hConfig.interval > 0, H!Broken, hConfig.concurrent
                 PROVE  operations \div hConfig.interval = (brokenAt - 1) \div hConfig.interval
      OBVIOUS
    <3>1. hPhase = "check"
      BY <1>4 DEF H!MaybeCheck
    <3>2. operations % hConfig.interval # 0
      BY <1>4 DEF H!ShouldCheck
    <3>3. operations > 0 => operations \div hConfig.interval = (operations - 1) \div hConfig.interval
      BY <1>1, <3>2, QuotientStays
    <3>4. QED
      BY <3>1, <3>3 DEF HarnessInv
  <2>2. QED
    BY <1>1, <1>2, <1>4, <2>1 DEF HarnessInv, Messages
<1>5. CASE H!AllDone /\ hPhase' = "done" /\ violation' = violation
           /\ (hConfig.concurrent => ~H!Broken)
  <2>1. \A t \in H!Thread : H!Done(t)
    BY <1>5 DEF H!AllDone
  <2>2. (\A t \in H!Thread : H!Done(t))'
    BY <1>1, <2>1 DEF H!Thread, H!Done
  <2>3. QED
    BY <1>1, <1>2, <1>5, <2>2 DEF HarnessInv, Messages
<1>6. CASE H!MaybeCheck
  BY <1>1, <1>3, <1>4, <1>6 DEF H!MaybeCheck, H!CheckInvariants, H!StopWith, H!Stopped
<1>7. CASE H!AllDone
  BY <1>1, <1>3, <1>5, <1>7 DEF H!AllDone, H!CheckInvariants, H!StopWith, H!Stopped
<1>8. QED
  BY <1>6, <1>7

\* Every step of the harness keeps its invariant.
LEMMA HarnessSteps ==
    ASSUME HarnessInv, [H!Next]_harness
    PROVE  HarnessInv'
<1>1. ASSUME UNCHANGED <<hConfig, operations, violation, brokenAt>>, UNCHANGED hPhase,
             hPhase # "done" \/ UNCHANGED steps
      PROVE  HarnessInv'
  BY <1>1 DEF HarnessInv, H!Broken, H!Thread, H!Done, Messages
<1>2. CASE H!YieldPoint
  <2>1. /\ UNCHANGED <<hConfig, operations, violation, brokenAt>>
        /\ hPhase = "yield" /\ hPhase' = "loop"
    BY <1>2 DEF H!YieldPoint
  <2>2. QED
    BY <2>1 DEF HarnessInv, H!Broken, Messages
<1>3. ASSUME NEW t \in H!Thread, H!ForceSwitch(t) PROVE HarnessInv'
  BY <1>1, <1>3 DEF H!ForceSwitch
<1>4. CASE UNCHANGED harness
  BY <1>1, <1>4 DEF harness
<1>5. QED
  BY <1>2, <1>3, <1>4, StepChecked, CheckChecked DEF H!Next

\* The verdict of a run is true of the structure it ran on.
THEOREM HarnessTellsTruth == Spec => [](H!HarnessVerdictTrue)
<1>1. Init => HarnessInv
  <2> SUFFICES ASSUME Init PROVE HarnessInv
    OBVIOUS
  <2>1. /\ hConfig \in HarnessConfigs /\ hPhase = "loop" /\ operations = 0
        /\ violation = NoText /\ brokenAt = 0
    BY DEF Init, H!Init
  <2>2. NoText \notin Messages /\ ~H!Broken
    BY <2>1, HarnessLine DEF H!Broken
  <2>3. QED
    BY <2>1, <2>2 DEF HarnessInv, Messages
<1>2. HarnessInv /\ [Next]_vars => HarnessInv'
  <2> SUFFICES ASSUME HarnessInv, [Next]_vars PROVE HarnessInv'
    OBVIOUS
  <2>1. [H!Next]_harness
    BY DEF Next, vars, simulation
  <2>2. QED
    BY <2>1, HarnessSteps
<1>3. HarnessInv => H!HarnessVerdictTrue
  BY DEF HarnessInv, H!HarnessVerdictTrue, H!Stopped
<1>4. QED
  BY <1>1, <1>2, <1>3, PTL DEF Spec

-----------------------------------------------------------------------------
(* The stack runner.                                                         *)

\* What was pushed once is on the stack, was popped, or was lost.
StackInv ==
    /\ stack \in Seq(Values)
    /\ distinct =>
        /\ pushed = D!ToSet(stack) \cup popped \cup lost
        /\ lost \cap (D!ToSet(stack) \cup popped) = {}
        /\ D!IsInjective(stack)

\* What a push puts on top is all that is new.
LEMMA StackPushed ==
    ASSUME NEW s \in Seq(Values), NEW v \in Values
    PROVE  /\ <<v>> \o s \in Seq(Values)
           /\ D!ToSet(<<v>> \o s) = {v} \cup D!ToSet(s)
           /\ D!IsInjective(s) /\ v \notin D!ToSet(s) => D!IsInjective(<<v>> \o s)
<1> DEFINE p == <<v>> \o s
           n == Len(s)
<1>1. n \in Nat /\ DOMAIN s = 1 .. n
  BY LenProperties
<1>2. /\ p \in Seq(Values) /\ Len(p) = n + 1 /\ DOMAIN p = 1 .. n + 1 /\ p[1] = v
      /\ \A j \in 1 .. n : p[j + 1] = s[j]
  <2>1. <<v>> \in Seq(Values) /\ Len(<<v>>) = 1
    OBVIOUS
  <2>2. p \in Seq(Values) /\ Len(p) = 1 + n
    BY <2>1, ConcatProperties
  <2>3. p[1] = v /\ \A j \in 1 .. n : p[j + 1] = s[j]
    BY <1>1, <2>1, ConcatProperties
  <2>4. QED
    BY <1>1, <2>2, <2>3, LenProperties
<1> HIDE DEF p, n
<1>3. \A j \in 1 .. n + 1 : j = 1 \/ (j - 1 \in 1 .. n /\ p[j] = s[j - 1])
  <2> TAKE j \in 1 .. n + 1
  <2>1. j = 1 \/ (j - 1 \in 1 .. n /\ (j - 1) + 1 = j)
    BY <1>1
  <2>2. QED
    BY <1>2, <2>1
<1>4. D!ToSet(p) = {v} \cup D!ToSet(s)
  <2>1. ASSUME NEW x \in D!ToSet(p) PROVE x \in {v} \cup D!ToSet(s)
    <3>1. PICK j \in 1 .. n + 1 : x = p[j]
      BY <1>2, <2>1 DEF D!ToSet
    <3>2. j = 1 \/ (j - 1 \in 1 .. n /\ p[j] = s[j - 1])
      BY <1>3
    <3>3. j # 1 => x \in D!ToSet(s)
      BY <1>1, <3>1, <3>2 DEF D!ToSet
    <3>4. QED
      BY <1>2, <3>1, <3>3
  <2>2. ASSUME NEW x \in D!ToSet(s) PROVE x \in D!ToSet(p)
    <3>1. PICK j \in 1 .. n : x = s[j]
      BY <1>1 DEF D!ToSet
    <3>2. j + 1 \in 1 .. n + 1 /\ p[j + 1] = x
      BY <1>1, <1>2, <3>1
    <3>3. QED
      BY <1>2, <3>2 DEF D!ToSet
  <2>3. v \in D!ToSet(p)
    <3>1. 1 \in 1 .. n + 1
      BY <1>1
    <3>2. QED
      BY <1>2, <3>1 DEF D!ToSet
  <2>4. QED
    BY <2>1, <2>2, <2>3
<1>5. ASSUME D!IsInjective(s), v \notin D!ToSet(s) PROVE D!IsInjective(p)
  <2>1. \A j \in 1 .. n : s[j] # v
    BY <1>1, <1>5 DEF D!ToSet
  <2>2. \A i, j \in 1 .. n : s[i] = s[j] => i = j
    BY <1>1, <1>5 DEF D!IsInjective
  <2>3. ASSUME NEW i \in 1 .. n + 1, NEW j \in 1 .. n + 1, p[i] = p[j]
        PROVE  i = j
    <3>1. i = 1 \/ (i - 1 \in 1 .. n /\ p[i] = s[i - 1])
      BY <1>3
    <3>2. j = 1 \/ (j - 1 \in 1 .. n /\ p[j] = s[j - 1])
      BY <1>3
    <3>3. (i = 1) = (j = 1)
      BY <1>2, <2>1, <2>3, <3>1, <3>2
    <3>4. i # 1 => i - 1 = j - 1
      BY <2>2, <2>3, <3>1, <3>2, <3>3
    <3>5. QED
      BY <3>3, <3>4
  <2>4. QED
    BY <1>2, <2>3 DEF D!IsInjective
<1>6. QED
  BY <1>2, <1>4, <1>5 DEF p

\* What a pop takes off is what the stack had on top.
LEMMA StackPopped ==
    ASSUME NEW s \in Seq(Values), s # << >>
    PROVE  /\ Tail(s) \in Seq(Values)
           /\ D!ToSet(s) = {Head(s)} \cup D!ToSet(Tail(s))
           /\ D!IsInjective(s) => D!IsInjective(Tail(s))
<1> DEFINE p == Tail(s)
           n == Len(s)
<1>1. n \in Nat /\ n > 0 /\ DOMAIN s = 1 .. n /\ Head(s) = s[1]
  BY LenProperties, EmptySeq
<1>2. /\ p \in Seq(Values) /\ DOMAIN p = 1 .. n - 1
      /\ \A j \in 1 .. n - 1 : p[j] = s[j + 1]
  <2>1. p \in Seq(Values) /\ Len(p) = n - 1 /\ \A j \in 1 .. n - 1 : p[j] = s[j + 1]
    BY <1>1, HeadTailProperties
  <2>2. QED
    BY <2>1, LenProperties
<1> HIDE DEF p, n
<1>3. D!ToSet(s) = {Head(s)} \cup D!ToSet(p)
  <2>1. ASSUME NEW x \in D!ToSet(s) PROVE x \in {Head(s)} \cup D!ToSet(p)
    <3>1. PICK j \in 1 .. n : x = s[j]
      BY <1>1 DEF D!ToSet
    <3>2. CASE j = 1
      BY <1>1, <3>1, <3>2
    <3>3. CASE j # 1
      <4>1. j - 1 \in 1 .. n - 1 /\ (j - 1) + 1 = j
        BY <1>1, <3>3
      <4>2. p[j - 1] = x
        BY <1>2, <3>1, <4>1
      <4>3. QED
        BY <1>2, <4>1, <4>2 DEF D!ToSet
    <3>4. QED
      BY <3>2, <3>3
  <2>2. ASSUME NEW x \in D!ToSet(p) PROVE x \in D!ToSet(s)
    <3>1. PICK j \in 1 .. n - 1 : x = p[j]
      BY <1>2 DEF D!ToSet
    <3>2. j + 1 \in 1 .. n /\ s[j + 1] = x
      BY <1>1, <1>2, <3>1
    <3>3. QED
      BY <1>1, <3>2 DEF D!ToSet
  <2>3. Head(s) \in D!ToSet(s)
    <3>1. 1 \in 1 .. n
      BY <1>1
    <3>2. QED
      BY <1>1, <3>1 DEF D!ToSet
  <2>4. QED
    BY <2>1, <2>2, <2>3
<1>4. ASSUME D!IsInjective(s) PROVE D!IsInjective(p)
  <2>1. \A i, j \in 1 .. n : s[i] = s[j] => i = j
    BY <1>1, <1>4 DEF D!IsInjective
  <2>2. ASSUME NEW i \in 1 .. n - 1, NEW j \in 1 .. n - 1, p[i] = p[j]
        PROVE  i = j
    <3>1. i + 1 \in 1 .. n /\ j + 1 \in 1 .. n /\ s[i + 1] = s[j + 1]
      BY <1>1, <1>2, <2>2
    <3>2. i + 1 = j + 1
      BY <2>1, <3>1
    <3>3. QED
      BY <3>2
  <2>3. QED
    BY <1>2, <2>2 DEF D!IsInjective
<1>5. QED
  BY <1>2, <1>3, <1>4 DEF p

\* Every operation of the runner keeps the account of the values.
LEMMA StackSteps ==
    ASSUME StackInv, [D!Next]_stackRunner
    PROVE  StackInv'
<1>1. ASSUME NEW value \in Values, NEW after, D!Push(value, after) PROVE StackInv'
  <2>1. /\ distinct => value \notin pushed \cup lost
        /\ \/ stack' = <<value>> \o stack /\ lost' = lost
           \/ stack' = stack /\ lost' = lost \cup {value}
        /\ distinct' = distinct /\ popped' = popped /\ pushed' = pushed \cup {value}
    BY <1>1 DEF D!Push, D!Accept
  <2>2. stack \in Seq(Values)
    BY DEF StackInv
  <2>3. CASE stack' = <<value>> \o stack /\ lost' = lost
    <3>1. /\ stack' \in Seq(Values)
          /\ D!ToSet(stack') = {value} \cup D!ToSet(stack)
          /\ D!IsInjective(stack) /\ value \notin D!ToSet(stack) => D!IsInjective(stack')
      BY <2>2, <2>3, StackPushed
    <3>2. QED
      BY <2>1, <2>3, <3>1 DEF StackInv
  <2>4. CASE stack' = stack /\ lost' = lost \cup {value}
    BY <2>1, <2>4 DEF StackInv
  <2>5. QED
    BY <2>1, <2>3, <2>4
<1>2. ASSUME NEW after, D!Pop(after) PROVE StackInv'
  <2>1. /\ distinct' = distinct /\ pushed' = pushed /\ lost' = lost
        /\ \/ stack' = stack /\ popped' = popped
           \/ /\ stack # <<>> /\ stack' \in {Tail(stack), stack}
              /\ popped' = popped \cup {Head(stack)}
    BY <1>2 DEF D!Pop
  <2>2. stack \in Seq(Values)
    BY DEF StackInv
  <2>3. stack # <<>> =>
          /\ Tail(stack) \in Seq(Values)
          /\ D!ToSet(stack) = {Head(stack)} \cup D!ToSet(Tail(stack))
          /\ D!IsInjective(stack) => D!IsInjective(Tail(stack))
    BY <2>2, StackPopped
  <2>4. CASE stack' = stack /\ popped' = popped
    BY <2>1, <2>4 DEF StackInv
  <2>5. CASE stack # <<>> /\ stack' = Tail(stack) /\ popped' = popped \cup {Head(stack)}
    BY <2>1, <2>3, <2>5 DEF StackInv
  <2>6. CASE stack # <<>> /\ stack' = stack /\ popped' = popped \cup {Head(stack)}
    BY <2>1, <2>3, <2>6 DEF StackInv
  <2>7. QED
    BY <2>1, <2>4, <2>5, <2>6
<1>3. CASE D!Abandon \/ UNCHANGED stackRunner
  BY <1>3 DEF D!Abandon, stackRunner, StackInv
<1>4. QED
  BY <1>1, <1>2, <1>3 DEF D!Next

\* A stack is accused exactly when it lost a value.
THEOREM StackRunnerTellsTruth == Spec => [](D!StackVerdictTrue)
<1>1. Init => StackInv
  BY DEF Init, D!Init, StackInv, D!ToSet, D!IsInjective
<1>2. StackInv /\ [Next]_vars => StackInv'
  <2> SUFFICES ASSUME StackInv, [Next]_vars PROVE StackInv'
    OBVIOUS
  <2>1. [D!Next]_stackRunner
    BY DEF Next, vars, simulation
  <2>2. QED
    BY <2>1, StackSteps
<1>3. StackInv => D!StackVerdictTrue
  BY DEF StackInv, D!StackVerdictTrue, D!Passed, D!NoLostElements, D!NoDuplicates
<1>4. QED
  BY <1>1, <1>2, <1>3, PTL DEF Spec

\* What the programs say of a code is true, whichever program a behaviour runs.
THEOREM VerdictsAreTrue == Spec => []VerdictsTrue
<1>1. (C!ReachedWasRun /\ H!HarnessVerdictTrue /\ D!StackVerdictTrue) => VerdictsTrue
  BY DEF VerdictsTrue
<1>2. QED
  BY <1>1, RunnerReportsWhatRan, HarnessTellsTruth, StackRunnerTellsTruth, PTL

-----------------------------------------------------------------------------
(* Nothing goes back: the driver.                                            *)

\* With a population no island is empty or larger than the population.
Filled(all) ==
    eConfig.population > 0 =>
        \A i \in 1 .. eConfig.islands : all[i] # <<>> /\ Len(all[i]) <= eConfig.population

\* From one state of the islands to a later one.
Grown(all, later) ==
    eConfig.population > 0 =>
        \A i \in 1 .. eConfig.islands :
            later[i][1].score >= all[i][1].score /\ Len(later[i]) >= Len(all[i])

\* A push leaves the island as long as it was, and its best as good.
LEMMA PushGrows ==
    ASSUME eConfig \in DriverConfigs, NEW members \in Seq(Candidates), Ranked(members),
           NEW c \in Candidates, eConfig.population > 0,
           members # <<>>, Len(members) <= eConfig.population
    PROVE  LET s == E!PushSortTruncate(members, c)
           IN  /\ s # <<>> /\ Len(s) <= eConfig.population /\ Len(s) >= Len(members)
               /\ s[1].score >= members[1].score
<1> DEFINE s == E!PushSortTruncate(members, c)
<1>1. eConfig.population \in Nat
  BY DriverLine
<1>2. /\ Len(s) = E!Smaller(eConfig.population, Len(members) + 1)
      /\ s # <<>>
      /\ s[1] = IF members # <<>> /\ members[1].score >= c.score THEN members[1] ELSE c
  BY <1>1, PushKeeps
<1> HIDE DEF s
<1>3. Len(members) \in Nat /\ 1 \in 1 .. Len(members)
  BY EmptySeq
<1>4. members[1].score \in Nat /\ c.score \in Nat
  BY <1>3, ElementOfSeq, CandidateScores
<1>5. Len(s) <= eConfig.population /\ Len(s) >= Len(members)
  BY <1>1, <1>2, <1>3 DEF E!Smaller
<1>6. s[1].score >= members[1].score
  BY <1>2, <1>4
<1>7. QED
  BY <1>2, <1>5, <1>6 DEF s

\* It touches one island only.
LEMMA PushOnIslandGrows ==
    ASSUME eConfig \in DriverConfigs, NEW best, NEW all, Kept(all, best), Filled(all),
           NEW k \in 1 .. eConfig.islands, NEW c \in Candidates
    PROVE  LET moved == [all EXCEPT ![k] = E!PushSortTruncate(@, c)]
           IN  Filled(moved) /\ Grown(all, moved)
<1> DEFINE n == eConfig.islands
           there == E!PushSortTruncate(all[k], c)
           moved == [all EXCEPT ![k] = E!PushSortTruncate(@, c)]
<1> SUFFICES ASSUME eConfig.population > 0 PROVE Filled(moved) /\ Grown(all, moved)
  BY DEF Filled, Grown
<1>1. DOMAIN all = 1 .. n /\ \A i \in 1 .. n : all[i] \in Seq(Candidates) /\ Ranked(all[i])
  BY DEF Kept, Stocked
<1>2. \A i \in 1 .. n : all[i] # <<>> /\ Len(all[i]) <= eConfig.population
  BY DEF Filled
<1>3. /\ there # <<>> /\ Len(there) <= eConfig.population /\ Len(there) >= Len(all[k])
      /\ there[1].score >= all[k][1].score
  BY <1>1, <1>2, PushGrows
<1>4. moved[k] = there /\ \A i \in 1 .. n : i # k => moved[i] = all[i]
  BY <1>1
<1> HIDE DEF there, moved
<1>5. \A i \in 1 .. n : all[i][1].score \in Nat /\ Len(all[i]) \in Nat
  BY <1>1, <1>2, EmptySeq, ElementOfSeq, CandidateScores
<1>6. \A i \in 1 .. n : /\ moved[i] # <<>> /\ Len(moved[i]) <= eConfig.population
                        /\ moved[i][1].score >= all[i][1].score /\ Len(moved[i]) >= Len(all[i])
  <2> TAKE i \in 1 .. n
  <2>1. CASE i = k
    BY <1>3, <1>4, <2>1
  <2>2. CASE i # k
    BY <1>2, <1>4, <1>5, <2>2
  <2>3. QED
    BY <2>1, <2>2
<1>7. QED
  BY <1>6 DEF Filled, Grown, moved

LEMMA GrownStays ==
    ASSUME NEW all, NEW best, Kept(all, best), Filled(all)
    PROVE  Grown(all, all)
<1>1. ASSUME eConfig.population > 0, NEW i \in 1 .. eConfig.islands
      PROVE  all[i][1].score \in Nat /\ Len(all[i]) \in Nat
  <2>1. all[i] \in Seq(Candidates) /\ all[i] # <<>>
    BY <1>1 DEF Kept, Stocked, Filled
  <2>2. QED
    BY <2>1, EmptySeq, ElementOfSeq, CandidateScores
<1>2. QED
  BY <1>1 DEF Grown

\* An exchange is such a push, or nothing.
LEMMA ExchangeGrows ==
    ASSUME eConfig \in DriverConfigs, NEW best, NEW all, Kept(all, best), Filled(all),
           NEW i \in 1 .. eConfig.islands
    PROVE  Filled(E!MigrateFrom(all, i)) /\ Grown(all, E!MigrateFrom(all, i))
<1> DEFINE n == eConfig.islands
           next == (i % n) + 1
           migrant == E!LastBest(all[i])
           moved == [all EXCEPT ![next] = E!PushSortTruncate(@, migrant)]
<1>1. n \in Nat /\ n > 0
  BY DriverLine
<1>2. next \in 1 .. n
  <2> HIDE DEF n
  <2>1. i % n \in 0 .. n - 1
    BY <1>1, Z3
  <2>2. QED
    BY <1>1, <2>1
<1>3. E!MigrateFrom(all, i) = all \/ (all[i] # <<>> /\ E!MigrateFrom(all, i) = moved)
  BY DEF E!MigrateFrom
<1>4. CASE E!MigrateFrom(all, i) = all
  BY <1>4, GrownStays
<1>5. CASE all[i] # <<>> /\ E!MigrateFrom(all, i) = moved
  <2>1. all[i] \in Seq(Candidates)
    BY DEF Kept, Stocked
  <2>2. migrant \in Candidates
    BY <1>5, <2>1, LastIsBest
  <2> HIDE DEF migrant, next
  <2>3. Filled(moved) /\ Grown(all, moved)
    BY <1>2, <2>2, PushOnIslandGrows
  <2>4. QED
    BY <1>5, <2>3
<1>6. QED
  BY <1>3, <1>4, <1>5

\* Islands that grew and grew again grew.
LEMMA GrownOnwards ==
    ASSUME NEW all, NEW more, NEW later, NEW best, Kept(all, best), Kept(more, best), Kept(later, best),
           Filled(all), Filled(more), Filled(later), Grown(all, more), Grown(more, later)
    PROVE  Grown(all, later)
<1> SUFFICES ASSUME eConfig.population > 0, NEW i \in 1 .. eConfig.islands
             PROVE  later[i][1].score >= all[i][1].score /\ Len(later[i]) >= Len(all[i])
  BY DEF Grown
<1>1. ASSUME NEW x, Kept(x, best), Filled(x)
      PROVE  x[i][1].score \in Nat /\ Len(x[i]) \in Nat
  <2>1. x[i] \in Seq(Candidates) /\ x[i] # <<>>
    BY <1>1 DEF Kept, Stocked, Filled
  <2>2. QED
    BY <2>1, EmptySeq, ElementOfSeq, CandidateScores
<1>2. /\ more[i][1].score >= all[i][1].score /\ Len(more[i]) >= Len(all[i])
      /\ later[i][1].score >= more[i][1].score /\ Len(later[i]) >= Len(more[i])
  BY DEF Grown
<1>3. /\ all[i][1].score \in Nat /\ Len(all[i]) \in Nat
      /\ more[i][1].score \in Nat /\ Len(more[i]) \in Nat
      /\ later[i][1].score \in Nat /\ Len(later[i]) \in Nat
  BY <1>1
<1>4. QED
  BY <1>2, <1>3

\* A migration round leaves no island worse off.
LEMMA MigrationGrows ==
    ASSUME eConfig \in DriverConfigs, NEW best \in Candidates, Kept(islands, best),
           Filled(islands)
    PROVE  Filled(E!Migrated) /\ Grown(islands, E!Migrated)
<1> DEFINE n == eConfig.islands
           Better(x) == Kept(x, best) /\ Filled(x) /\ Grown(islands, x)
<1>1. n \in Nat
  BY DriverLine
<1>2. PICK g : IsRound(g, n) /\ E!Migrated = g[n]
  BY MigratedRound
<1> DEFINE I == {k \in Nat : k <= n => Better(g[k])}
<1> HIDE DEF n
<1>3. 0 \in I
  <2>1. g[0] = islands
    BY <1>1, <1>2 DEF IsRound
  <2>2. Grown(islands, islands)
    BY GrownStays
  <2>3. QED
    BY <2>1, <2>2
<1>4. ASSUME NEW k \in Nat, k \in I PROVE k + 1 \in I
  <2> SUFFICES ASSUME k + 1 <= n PROVE Better(g[k + 1])
    OBVIOUS
  <2>1. k + 1 \in 1 .. n /\ k <= n /\ k + 1 \in 0 .. n /\ k + 1 # 0 /\ (k + 1) - 1 = k
    BY <1>1
  <2>2. Kept(g[k], best) /\ Filled(g[k]) /\ Grown(islands, g[k])
    BY <1>4, <2>1
  <2>3. g[k + 1] = E!MigrateFrom(g[k], k + 1)
    BY <1>2, <2>1 DEF IsRound
  <2>4. k + 1 \in 1 .. eConfig.islands
    BY <2>1 DEF n
  <2>5. Kept(g[k + 1], best)
    BY <2>2, <2>3, <2>4, ExchangeKeeps
  <2>6. Filled(g[k + 1]) /\ Grown(g[k], g[k + 1])
    BY <2>2, <2>3, <2>4, ExchangeGrows
  <2>7. Grown(islands, g[k + 1])
    BY <2>2, <2>5, <2>6, GrownOnwards
  <2>8. QED
    BY <2>5, <2>6, <2>7
<1>5. Nat \subseteq I
  <2> HIDE DEF I
  <2>1. QED
    BY <1>3, <1>4, SetInduction
<1>6. Better(g[n])
  BY <1>1, <1>5
<1>7. QED
  BY <1>2, <1>6

\* The islands are filled once the seed is on them.
GrowthInv == DriverInv /\ (generation > 0 => Filled(islands))

BestsGrew ==
    generation > 0 /\ eConfig.population > 0 =>
        /\ bestEver'.score >= bestEver.score
        /\ \A i \in DOMAIN islands : Head(islands'[i]).score >= Head(islands[i]).score
        /\ \A i \in DOMAIN islands : Len(islands'[i]) >= Len(islands[i])

\* Filled is about the islands and the command line.
LEMMA FilledMoves ==
    ASSUME eConfig' = eConfig, Filled(islands')
    PROVE  Filled(islands)'
BY Zenon DEF Filled

\* What is grown is what the property says.
LEMMA GrownGrew ==
    ASSUME DriverInv, generation > 0, Filled(islands),
           DOMAIN islands' = DOMAIN islands, Grown(islands, islands'), Filled(islands'),
           bestEver'.score >= bestEver.score
    PROVE  BestsGrew
<1> SUFFICES ASSUME eConfig.population > 0, NEW i \in DOMAIN islands
             PROVE  /\ Head(islands'[i]).score >= Head(islands[i]).score
                    /\ Len(islands'[i]) >= Len(islands[i])
  BY DEF BestsGrew
<1>1. i \in 1 .. eConfig.islands
  BY DEF DriverInv, DriverKeeps, Kept
<1>2. islands'[i][1].score >= islands[i][1].score /\ Len(islands'[i]) >= Len(islands[i])
  BY <1>1 DEF Grown
<1>3. QED
  BY <1>2

\* The seed fills every island.
LEMMA SeedGrows ==
    ASSUME DriverInv, E!EvaluateSeed
    PROVE  (generation > 0 => Filled(islands))' /\ BestsGrew
<1>1. generation = 0 /\ eConfig \in DriverConfigs /\ DOMAIN islands = 1 .. eConfig.islands
  BY DEF DriverInv, E!EvaluateSeed
<1>2. PICK seed : islands' = [i \in DOMAIN islands |-> <<seed>>]
  BY DEF E!EvaluateSeed
<1>3. eConfig' = eConfig /\ eConfig.population \in Nat
  BY <1>1, DriverLine DEF E!EvaluateSeed
<1>4. Filled(islands')
  <2>1. <<seed>> # <<>> /\ Len(<<seed>>) = 1
    OBVIOUS
  <2>2. \A i \in 1 .. eConfig.islands : islands'[i] = <<seed>>
    BY <1>1, <1>2
  <2>3. eConfig.population > 0 => 1 <= eConfig.population
    BY <1>3
  <2>4. ASSUME eConfig.population > 0, NEW i \in 1 .. eConfig.islands
        PROVE  islands'[i] # <<>> /\ Len(islands'[i]) <= eConfig.population
    <3> DEFINE there == islands'[i]
    <3>1. there = <<seed>>
      BY <2>2
    <3> HIDE DEF there
    <3>2. there # <<>> /\ Len(there) <= eConfig.population
      BY <2>1, <2>3, <2>4, <3>1
    <3>3. QED
      BY <3>2 DEF there
  <2>5. QED
    BY <2>4 DEF Filled
<1>5. QED
  BY <1>1, <1>3, <1>4, FilledMoves DEF BestsGrew

\* A mutation is a push, and replaces the best by a better one only.
LEMMA MutationGrows ==
    ASSUME DriverInv, Filled(islands), E!Mutate
    PROVE  Filled(islands)' /\ BestsGrew
<1>1. PICK m \in E!SelectModel, x \in E!Answered : \E c \in E!Evaluations(x, m) :
        /\ islands' = [islands EXCEPT ![island] = E!PushSortTruncate(@, c)]
        /\ IF c.score > bestEver.score
           THEN bestEver' = c /\ bestFile' \in E!FilesWritten(c)
           ELSE UNCHANGED <<bestEver, bestFile>>
  BY DEF E!Mutate
<1>2. PICK c \in E!Evaluations(x, m) :
        /\ islands' = [islands EXCEPT ![island] = E!PushSortTruncate(@, c)]
        /\ IF c.score > bestEver.score
           THEN bestEver' = c /\ bestFile' \in E!FilesWritten(c)
           ELSE UNCHANGED <<bestEver, bestFile>>
  BY <1>1
<1>3. ePhase = "evolving" /\ island <= eConfig.islands /\ eConfig' = eConfig
  BY DEF E!Mutate, E!Mutating, E!Running
<1>4. /\ eConfig \in DriverConfigs /\ generation > 0 /\ Len(models) = E!EnsembleSize(eConfig)
      /\ island \in Nat \ {0} /\ DriverKeeps
  BY <1>3 DEF DriverInv
<1>5. eConfig.islands \in Nat /\ E!EnsembleSize(eConfig) \in Nat \ {0}
  BY <1>4, DriverLine
<1>6. island \in 1 .. eConfig.islands
  BY <1>3, <1>4, <1>5
<1>7. m \in 1 .. Len(models)
  BY ModelSelected
<1>8. c \in Candidates
  <2>1. m \in 0 .. E!EnsembleSize(eConfig) /\ x \in DriverCodes
    BY <1>4, <1>5, <1>7, DriverAsks
  <2>2. QED
    BY <1>4, <2>1, DriverScores
<1>9. bestEver \in Candidates /\ Kept(islands, bestEver)
  BY <1>4 DEF DriverKeeps
<1>10. Filled(islands') /\ Grown(islands, islands')
  BY <1>2, <1>4, <1>6, <1>8, <1>9, PushOnIslandGrows
<1>11. DOMAIN islands' = DOMAIN islands
  BY <1>2
<1>12. bestEver'.score >= bestEver.score
  <2>1. c.score \in Nat /\ bestEver.score \in Nat
    BY <1>8, <1>9, CandidateScores
  <2>2. QED
    BY <1>2, <2>1
<1>13. BestsGrew
  BY <1>4, <1>10, <1>11, <1>12, GrownGrew
<1>14. QED
  BY <1>3, <1>10, <1>13, FilledMoves

\* The end of a generation exchanges, or leaves the islands alone.
LEMMA GenerationGrows ==
    ASSUME DriverInv, Filled(islands), E!EndGeneration
    PROVE  Filled(islands)' /\ BestsGrew
<1>1. /\ ePhase = "evolving" /\ UNCHANGED <<eConfig, bestEver>>
      /\ islands' = E!Migrated \/ islands' = islands
  BY DEF E!EndGeneration, E!Running
<1>2. eConfig \in DriverConfigs /\ generation > 0 /\ DriverKeeps
  BY <1>1 DEF DriverInv
<1>3. bestEver \in Candidates /\ Kept(islands, bestEver)
  BY <1>2 DEF DriverKeeps
<1>4. Filled(islands') /\ Grown(islands, islands')
  BY <1>1, <1>2, <1>3, MigrationGrows, GrownStays
<1>5. Kept(islands', bestEver)
  BY <1>1, <1>2, <1>3, MigrationKeeps
<1>6. DOMAIN islands' = DOMAIN islands
  BY <1>3, <1>5 DEF Kept
<1>7. bestEver'.score >= bestEver.score
  BY <1>1, <1>3, CandidateScores
<1>8. QED
  BY <1>1, <1>2, <1>4, <1>6, <1>7, FilledMoves, GrownGrew

\* What moves neither an island nor the best changes nothing here.
LEMMA RestGrows ==
    ASSUME GrowthInv, UNCHANGED <<eConfig, generation, islands, bestEver>>
    PROVE  (generation > 0 => Filled(islands))' /\ BestsGrew
<1> SUFFICES ASSUME generation > 0 PROVE Filled(islands)' /\ BestsGrew
  BY DEF BestsGrew
<1>1. DriverInv /\ Filled(islands) /\ DriverKeeps
  BY DEF GrowthInv, DriverInv
<1>2. bestEver \in Candidates /\ Kept(islands, bestEver)
  BY <1>1 DEF DriverKeeps
<1>3. Grown(islands, islands') /\ Filled(islands') /\ bestEver'.score >= bestEver.score
  BY <1>1, <1>2, GrownStays, CandidateScores
<1>4. QED
  BY <1>1, <1>3, FilledMoves, GrownGrew

\* No step of the driver makes anything worse.
LEMMA GrowthSteps ==
    ASSUME GrowthInv, [E!Next]_driver
    PROVE  GrowthInv' /\ [BestsGrew]_(E!vars)
<1>1. DriverInv'
  BY DriverSteps DEF GrowthInv
<1>2. (generation > 0 => Filled(islands))' /\ BestsGrew
  <2>1. CASE E!EvaluateSeed
    BY <2>1, SeedGrows DEF GrowthInv
  <2>2. CASE E!SkipIsland \/ E!Panic \/ E!Summary \/ UNCHANGED driver
    <3>1. UNCHANGED <<eConfig, generation, islands, bestEver>>
      BY <2>2 DEF E!SkipIsland, E!Panic, E!Summary, driver
    <3>2. QED
      BY <3>1, RestGrows
  <2>3. CASE E!Mutate
    <3>1. generation > 0
      BY <2>3 DEF GrowthInv, DriverInv, E!Mutate, E!Mutating, E!Running
    <3>2. QED
      BY <2>3, <3>1, MutationGrows DEF GrowthInv
  <2>4. CASE E!EndGeneration
    <3>1. generation > 0
      BY <2>4 DEF GrowthInv, DriverInv, E!EndGeneration, E!Running
    <3>2. QED
      BY <2>4, <3>1, GenerationGrows DEF GrowthInv
  <2>5. QED
    BY <2>1, <2>2, <2>3, <2>4 DEF E!Next
<1>3. QED
  BY <1>1, <1>2 DEF GrowthInv

\* No step of the driver makes an island or the best of all worse.
THEOREM DriverOnlyGrows == Spec => E!BestsOnlyGrow
<1>1. Init => GrowthInv
  BY DriverStarts DEF GrowthInv, Init, E!Init
<1>2. GrowthInv /\ [Next]_vars => GrowthInv' /\ [BestsGrew]_(E!vars)
  <2> SUFFICES ASSUME GrowthInv, [Next]_vars
               PROVE  GrowthInv' /\ [BestsGrew]_(E!vars)
    OBVIOUS
  <2>1. [E!Next]_driver
    BY DEF Next, vars, programs
  <2>2. QED
    BY <2>1, GrowthSteps
<1>3. [BestsGrew]_(E!vars) =>
        [generation > 0 /\ eConfig.population > 0 =>
            /\ bestEver'.score >= bestEver.score
            /\ \A i \in DOMAIN islands : Head(islands'[i]).score >= Head(islands[i]).score
            /\ \A i \in DOMAIN islands : Len(islands'[i]) >= Len(islands[i])]_(E!vars)
  BY DEF BestsGrew
<1>4. QED
  BY <1>1, <1>2, <1>3, PTL DEF Spec, E!BestsOnlyGrow

-----------------------------------------------------------------------------
(* Nothing goes back: the clock.                                             *)

\* The longest advance, and the threads that have checked one and not added it.
Longest ==
    CHOOSE longest \in 0 .. Modulus :
        Deltas \subseteq 1 .. longest /\ TimeMax + longest * Cardinality(Threads) < Modulus
Adding == {t \in Threads : adding[t] > 0}

\* Whoever adds passed the assertion when the clock stood within TIME_NS_MAX: the
\* excess is what the others have added since.
ClockInv ==
    /\ now \in Nat
    /\ adding \in [Threads -> 0 .. Longest]
    /\ now <= TimeMax + Longest * (Cardinality(Threads) - Cardinality(Adding))

\* The longest advance leaves the room it must.
LEMMA LongestAdvance ==
    /\ Longest \in Nat /\ Deltas \subseteq 1 .. Longest
    /\ TimeMax + Longest * Cardinality(Threads) < Modulus
    /\ Cardinality(Threads) \in Nat /\ TimeMax \in Nat /\ Modulus \in Nat
<1>1. \E longest \in 0 .. Modulus :
          Deltas \subseteq 1 .. longest /\ TimeMax + longest * Cardinality(Threads) < Modulus
  BY ClockAssumption
<1>2. Longest \in 0 .. Modulus /\ Deltas \subseteq 1 .. Longest
      /\ TimeMax + Longest * Cardinality(Threads) < Modulus
  BY <1>1, Zenon DEF Longest
<1>3. Cardinality(Threads) \in Nat
  BY ClockAssumption, FS_CardinalityType
<1>4. QED
  BY <1>2, <1>3, ClockAssumption

\* No more threads add than there are.
LEMMA AddingCounted ==
    /\ IsFiniteSet(Adding) /\ Cardinality(Adding) \in Nat
    /\ Cardinality(Adding) <= Cardinality(Threads)
<1>1. Adding \subseteq Threads
  BY DEF Adding
<1>2. QED
  BY <1>1, ClockAssumption, FS_Subset, FS_CardinalityType

\* The product that bounds the excess.
LEMMA ExcessBounds ==
    ASSUME NEW d \in Nat, NEW n \in Nat, NEW p \in Nat, p <= n
    PROVE  /\ d * (n - p) \in Nat
           /\ d * (n - p) <= d * n
           /\ p > 0 => d * (n - (p - 1)) = d * (n - p) + d
<1>1. \A q \in Nat : d * q \in Nat
  BY Z3
<1>2. d * n = d * (n - p) + d * p
  BY Z3
<1>3. p > 0 => d * (n - (p - 1)) = d * (n - p) + d
  BY Z3
<1>4. n - p \in Nat
  OBVIOUS
<1>5. QED
  BY <1>1, <1>2, <1>3, <1>4

\* The counter does not wrap.
LEMMA ClockBounded == ClockInv => now < Modulus
<1>1. QED
  BY LongestAdvance, AddingCounted, ExcessBounds DEF ClockInv

\* One more add: the sum stays below Modulus.
LEMMA AddMoves ==
    ASSUME ClockInv, NEW t \in Threads, K!Add(t)
    PROVE  ClockInv' /\ now' >= now
<1> DEFINE n == Cardinality(Threads)
           p == Cardinality(Adding)
           d == Longest
<1>1. t \in Adding /\ Adding' = Adding \ {t}
  BY DEF K!Add, Adding, ClockInv
<1>2. p' = p - 1 /\ p \in Nat /\ p > 0 /\ p <= n /\ p' \in Nat
  <2>1. p' = p - 1
    BY <1>1, AddingCounted, FS_RemoveElement
  <2>2. p # 0
    BY <1>1, AddingCounted, FS_EmptySet
  <2>3. QED
    BY <2>1, <2>2, AddingCounted
<1>3. adding[t] \in 1 .. d /\ adding' \in [Threads -> 0 .. d]
  BY LongestAdvance DEF K!Add, ClockInv
<1>4. now + adding[t] <= TimeMax + d * (n - (p - 1)) /\ TimeMax + d * (n - (p - 1)) < Modulus
  <2> HIDE DEF n, p, d
  <2>1. d \in Nat /\ n \in Nat /\ TimeMax \in Nat /\ Modulus \in Nat /\ TimeMax + d * n < Modulus
    BY LongestAdvance DEF n, d
  <2>2. now \in Nat /\ now <= TimeMax + d * (n - p)
    BY DEF ClockInv, n, p, d
  <2>3. d * (n - (p - 1)) = d * (n - p) + d /\ d * (n - p) \in Nat
    BY <1>2, <2>1, ExcessBounds
  <2>4. p - 1 \in Nat /\ p - 1 <= n
    BY <1>2, <2>1
  <2>5. d * (n - (p - 1)) <= d * n /\ d * (n - (p - 1)) \in Nat /\ d * n \in Nat
    BY <2>1, <2>4, ExcessBounds
  <2>6. QED
    BY <1>3, <2>1, <2>2, <2>3, <2>5
<1>5. now \in Nat /\ adding[t] \in Nat /\ Modulus \in Nat
  BY <1>3, LongestAdvance DEF ClockInv
<1>6. now + adding[t] < Modulus
  <2>1. n - (p - 1) \in Nat
    BY <1>2, LongestAdvance
  <2>2. TimeMax + d * (n - (p - 1)) \in Nat
    BY <2>1, LongestAdvance, ExcessBounds, <1>2
  <2> HIDE DEF n, p, d
  <2>3. QED
    BY <1>4, <1>5, <2>2
<1>7. now' = now + adding[t]
  BY <1>5, <1>6, Z3 DEF K!Add
<1>8. Longest' = Longest /\ Cardinality(Threads)' = Cardinality(Threads)
  OBVIOUS
<1>9. now' \in Nat /\ now' >= now
  BY <1>5, <1>7
<1>10. now' <= TimeMax + d * (n - Cardinality(Adding)')
  BY <1>2, <1>4, <1>7
<1>11. QED
  BY <1>3, <1>9, <1>10 DEF ClockInv

\* The clock's steps keep its invariant, and only a reset turns it back.
LEMMA ClockSteps ==
    ASSUME ClockInv, [K!Next]_clock
    PROVE  ClockInv' /\ [now' >= now \/ K!Reset]_(K!vars)
<1>0. now \in Nat /\ \A t \in Threads : adding[t] \in Nat
  BY LongestAdvance DEF ClockInv
<1>1. ASSUME NEW t \in Threads, K!Add(t)
      PROVE  ClockInv' /\ now' >= now
  BY <1>1, AddMoves
<1>2. ASSUME NEW t \in Threads, NEW delta \in Deltas, K!Check(t, delta)
      PROVE  ClockInv' /\ now' >= now
  <2>1. delta \in 1 .. Longest /\ delta \in Nat /\ TimeMax \in Nat
    BY LongestAdvance
  <2>2. adding' \in [Threads -> 0 .. Longest]
    BY <1>2, <2>1 DEF K!Check, ClockInv
  <2>3. now' = now /\ now <= TimeMax
    BY <1>0, <1>2, <2>1 DEF K!Check
  <2>4. Longest * (Cardinality(Threads) - Cardinality(Adding)') \in Nat
    <3>1. Cardinality(Adding)' \in Nat /\ Cardinality(Adding)' <= Cardinality(Threads)
      <4>1. Adding' \subseteq Threads
        BY DEF Adding
      <4>2. QED
        BY <4>1, ClockAssumption, FS_Subset, FS_CardinalityType
    <3> DEFINE p == Cardinality(Adding)'
    <3> HIDE DEF p
    <3>2. Longest * (Cardinality(Threads) - p) \in Nat
      BY <3>1, LongestAdvance, ExcessBounds DEF p
    <3>3. QED
      BY <3>2 DEF p
  <2>5. now' <= TimeMax + Longest * (Cardinality(Threads) - Cardinality(Adding)')
    <3> DEFINE e == Longest * (Cardinality(Threads) - Cardinality(Adding)')
    <3> HIDE DEF e
    <3>1. QED
      BY <1>0, <2>1, <2>3, <2>4 DEF e
  <2>6. QED
    BY <1>0, <2>2, <2>3, <2>5 DEF ClockInv
<1>3. CASE K!Reset
  <2>1. now' = 0 /\ adding' = adding
    BY <1>3 DEF K!Reset
  <2>2. Adding' = Adding
    BY <2>1 DEF Adding
  <2>3. Longest * (Cardinality(Threads) - Cardinality(Adding)) \in Nat
    BY AddingCounted, LongestAdvance, ExcessBounds
  <2> DEFINE e == Longest * (Cardinality(Threads) - Cardinality(Adding))
  <2>4. 0 <= TimeMax + e
    <3> HIDE DEF e
    <3>1. QED
      BY <2>3, LongestAdvance DEF e
  <2>5. QED
    BY <1>3, <2>1, <2>2, <2>4 DEF ClockInv
<1>4. CASE UNCHANGED clock
  <2>1. now' = now /\ adding' = adding
    BY <1>4 DEF clock
  <2>2. Adding' = Adding
    BY <2>1 DEF Adding
  <2>3. QED
    BY <2>1, <2>2 DEF ClockInv, K!vars
<1>5. QED
  BY <1>1, <1>2, <1>3, <1>4 DEF K!Next

LEMMA ClockStarts == Init => ClockInv
<1> SUFFICES ASSUME Init PROVE ClockInv
  OBVIOUS
<1>1. now = 0 /\ adding = [t \in Threads |-> 0]
  BY DEF Init, K!Init
<1>2. Longest * (Cardinality(Threads) - Cardinality(Adding)) \in Nat
  BY AddingCounted, LongestAdvance, ExcessBounds
<1> DEFINE e == Longest * (Cardinality(Threads) - Cardinality(Adding))
<1>3. 0 <= TimeMax + e
  <2> HIDE DEF e
  <2>1. QED
    BY <1>2, LongestAdvance DEF e
<1>4. QED
  BY <1>1, <1>3, LongestAdvance DEF ClockInv

\* The simulated time goes back only when it is reset.
THEOREM ClockMovesOn == Spec => K!TimeMovesOn
<1>1. Init => ClockInv
  BY ClockStarts
<1>2. ClockInv /\ [Next]_vars => ClockInv' /\ [now' >= now \/ K!Reset]_(K!vars)
  <2> SUFFICES ASSUME ClockInv, [Next]_vars
               PROVE  ClockInv' /\ [now' >= now \/ K!Reset]_(K!vars)
    OBVIOUS
  <2>1. [K!Next]_clock
    BY DEF Next, vars, simulation
  <2>2. QED
    BY <2>1, ClockSteps
<1>3. QED
  BY <1>1, <1>2, PTL DEF Spec, K!TimeMovesOn

-----------------------------------------------------------------------------
(* Nothing goes back: the scheduler.                                         *)

\* Every index stands for a thread of its own, and one of them runs.
SchedulerInv ==
    /\ name \in Seq(Threads) /\ Len(name) > 0
    /\ \A i, j \in 1 .. Len(name) : name[i] = name[j] => i = j
    /\ sCurrent \in 0 .. Len(name) - 1

RunningStayed ==
    /\ sCurrent' \in 0 .. Len(name') - 1
    /\ Len(name') # Len(name) => S!Running' = S!Running \/ S!Running \notin S!ToSet(name')

\* The numbers above the removed one move down.
LEMMA RemovalShifts ==
    ASSUME NEW s \in Seq(Threads), NEW k \in 1 .. Len(s)
    PROVE  /\ S!RemoveAt(s, k) \in Seq(Threads)
           /\ Len(S!RemoveAt(s, k)) = Len(s) - 1
           /\ \A j \in 1 .. Len(s) - 1 :
                 S!RemoveAt(s, k)[j] = IF j < k THEN s[j] ELSE s[j + 1]
<1> DEFINE a == SubSeq(s, 1, k - 1)
           b == SubSeq(s, k + 1, Len(s))
<1>1. Len(s) \in Nat /\ k \in Nat
  OBVIOUS
<1>2. a \in Seq(Threads) /\ Len(a) = k - 1 /\ \A j \in 1 .. k - 1 : a[j] = s[j]
  OBVIOUS
<1>3. b \in Seq(Threads) /\ Len(b) = Len(s) - k /\ \A j \in 1 .. Len(s) - k : b[j] = s[k + j]
  <2>1. \A j \in k + 1 .. Len(s) : s[j] \in Threads
    BY ElementOfSeq
  <2>2. CASE k = Len(s)
    <3>1. b = << >>
      BY <2>2, <1>1
    <3>2. QED
      BY <3>1, <2>2, <1>1
  <2>3. CASE k < Len(s)
    <3>1. Len(b) = Len(s) - k
      BY <2>3, <1>1
    <3>2. \A j \in 1 .. Len(s) - k : b[j] = s[k + j]
      BY <2>3, <1>1
    <3>3. b \in Seq(Threads)
      BY <2>1, <2>3, <1>1, SubSeqProperties
    <3>4. QED
      BY <3>1, <3>2, <3>3
  <2>4. QED
    BY <1>1, <2>2, <2>3
<1>4. S!RemoveAt(s, k) = a \o b
  BY DEF S!RemoveAt
<1> HIDE DEF a, b
<1>5. a \o b \in Seq(Threads) /\ Len(a \o b) = Len(s) - 1
  <2>1. a \o b \in Seq(Threads) /\ Len(a \o b) = Len(a) + Len(b)
    BY <1>2, <1>3, ConcatProperties
  <2>2. QED
    BY <1>1, <1>2, <1>3, <2>1
<1>6. ASSUME NEW j \in 1 .. Len(s) - 1
      PROVE  (a \o b)[j] = IF j < k THEN s[j] ELSE s[j + 1]
  <2>1. CASE j < k
    <3>1. (a \o b)[j] = a[j]
      BY <1>1, <1>2, <1>3, <2>1
    <3>2. QED
      BY <1>1, <1>2, <2>1, <3>1
  <2>2. CASE ~(j < k)
    <3>1. (a \o b)[j] = b[j - (k - 1)]
      BY <1>1, <1>2, <1>3, <2>2
    <3>2. j - (k - 1) \in 1 .. Len(s) - k /\ k + (j - (k - 1)) = j + 1
      BY <1>1, <2>2
    <3>3. b[j - (k - 1)] = s[j + 1]
      BY <1>3, <3>2
    <3>4. QED
      BY <2>2, <3>1, <3>3
  <2>3. QED
    BY <2>1, <2>2
<1>7. QED
  BY <1>4, <1>5, <1>6

\* The current index follows its thread when another one is removed.
LEMMA RemovalStays ==
    ASSUME SchedulerInv, NEW index \in S!Index, S!RemoveThread(index)
    PROVE  SchedulerInv' /\ RunningStayed
<1> DEFINE n == Len(name)
           k == index + 1
<1>1. /\ name \in Seq(Threads) /\ n \in Nat /\ n > 1 /\ index \in Nat
      /\ index < n /\ k \in 1 .. n /\ sCurrent \in Nat /\ sCurrent < n
  BY DEF SchedulerInv, S!RemoveThread, S!Index, S!threadsCount
<1>2. name' = S!RemoveAt(name, k)
  BY DEF S!RemoveThread
<1>3. /\ name' \in Seq(Threads) /\ Len(name') = n - 1
      /\ \A j \in 1 .. n - 1 : name'[j] = IF j < k THEN name[j] ELSE name[j + 1]
  BY <1>1, <1>2, RemovalShifts
<1>4. sCurrent' = CASE sCurrent = index -> IF index > 0 THEN index - 1 ELSE 0
                    [] sCurrent > index -> sCurrent - 1
                    [] OTHER -> sCurrent
  BY DEF S!RemoveThread, S!AfterRemoval
<1>5. \A i, j \in 1 .. n : name[i] = name[j] => i = j
  BY DEF SchedulerInv
<1> HIDE DEF n
<1>6. sCurrent' \in 0 .. n - 2
  BY <1>1, <1>4
<1>7. \A i, j \in 1 .. n - 1 : name'[i] = name'[j] => i = j
  <2> TAKE i, j \in 1 .. n - 1
  <2> DEFINE u == IF i < k THEN i ELSE i + 1
             v == IF j < k THEN j ELSE j + 1
  <2>1. u \in 1 .. n /\ v \in 1 .. n /\ (u = v => i = j)
    BY <1>1
  <2>2. name'[i] = name[u] /\ name'[j] = name[v]
    BY <1>3
  <2>3. QED
    BY <1>5, <2>1, <2>2
<1>8. S!Running' = S!Running \/ S!Running \notin S!ToSet(name')
  <2>1. CASE sCurrent = index
    <3>1. ASSUME NEW j \in 1 .. n - 1 PROVE name'[j] # name[k]
      <4> DEFINE v == IF j < k THEN j ELSE j + 1
      <4>1. v \in 1 .. n /\ v # k /\ name'[j] = name[v]
        BY <1>1, <1>3
      <4>2. QED
        BY <1>1, <1>5, <4>1
    <3>2. DOMAIN name' = 1 .. n - 1
      BY <1>3
    <3>3. S!Running = name[k]
      BY <2>1 DEF S!Running
    <3>4. QED
      BY <3>1, <3>2, <3>3 DEF S!ToSet
  <2>2. CASE sCurrent # index
    <3> DEFINE j == sCurrent' + 1
    <3>1. j \in 1 .. n - 1 /\ sCurrent + 1 = IF j < k THEN j ELSE j + 1
      BY <1>1, <1>4, <2>2
    <3>2. name'[j] = name[sCurrent + 1]
      <4> DEFINE v == IF j < k THEN j ELSE j + 1
      <4>1. name'[j] = name[v]
        BY <1>3, <3>1
      <4>2. v = sCurrent + 1
        BY <3>1
      <4>3. QED
        BY <4>1, <4>2
    <3>3. QED
      BY <3>2 DEF S!Running
  <2>3. QED
    BY <2>1, <2>2
<1>9. Len(name') > 0 /\ n - 2 = Len(name') - 1
  BY <1>1, <1>3
<1>10. QED
  BY <1>3, <1>6, <1>7, <1>8, <1>9 DEF SchedulerInv, RunningStayed

\* A new thread comes after the others.
LEMMA AdditionStays ==
    ASSUME SchedulerInv, NEW t \in Threads, S!AddThread(t)
    PROVE  SchedulerInv' /\ RunningStayed
<1> DEFINE n == Len(name)
<1>1. /\ name' = Append(name, t) /\ sCurrent' = sCurrent /\ name \in Seq(Threads)
      /\ n \in Nat /\ n > 0 /\ sCurrent \in 0 .. n - 1
  BY DEF SchedulerInv, S!AddThread
<1>2. \A i \in 1 .. n : name[i] # t
  BY <1>1 DEF S!AddThread, S!ToSet
<1>3. /\ name' \in Seq(Threads) /\ Len(name') = n + 1 /\ name'[n + 1] = t
      /\ \A i \in 1 .. n : name'[i] = name[i]
  BY <1>1, AppendProperties
<1>4. \A i, j \in 1 .. n : name[i] = name[j] => i = j
  BY DEF SchedulerInv
<1> HIDE DEF n
<1>5. \A i, j \in 1 .. n + 1 : name'[i] = name'[j] => i = j
  <2> TAKE i, j \in 1 .. n + 1
  <2>1. (i = n + 1 \/ i \in 1 .. n) /\ (j = n + 1 \/ j \in 1 .. n)
    BY <1>1
  <2>2. QED
    BY <1>2, <1>3, <1>4, <2>1
<1>6. S!Running' = S!Running
  <2>1. sCurrent + 1 \in 1 .. n
    BY <1>1
  <2>2. QED
    BY <1>1, <1>3, <2>1 DEF S!Running
<1>7. sCurrent' \in 0 .. Len(name') - 1 /\ Len(name') > 0
  BY <1>1, <1>3
<1>8. QED
  BY <1>3, <1>5, <1>6, <1>7 DEF SchedulerInv, RunningStayed

\* Every step keeps the numbering, and the running thread.
LEMMA SchedulerSteps ==
    ASSUME SchedulerInv, [S!Next]_scheduler
    PROVE  SchedulerInv' /\ [RunningStayed]_(S!vars)
<1>1. CASE S!Switch
  BY <1>1 DEF S!Switch, S!Others, S!Index, S!threadsCount, SchedulerInv, RunningStayed
<1>2. ASSUME NEW i \in S!Index, S!SetCurrentThread(i)
      PROVE  SchedulerInv' /\ RunningStayed
  BY <1>2 DEF S!SetCurrentThread, S!Index, S!threadsCount, SchedulerInv, RunningStayed
<1>3. ASSUME NEW i \in S!Index, S!RemoveThread(i)
      PROVE  SchedulerInv' /\ RunningStayed
  BY <1>3, RemovalStays
<1>4. ASSUME NEW t \in Threads, S!AddThread(t)
      PROVE  SchedulerInv' /\ RunningStayed
  BY <1>4, AdditionStays
<1>5. CASE UNCHANGED scheduler
  BY <1>5 DEF scheduler, SchedulerInv, S!vars
<1>6. QED
  BY <1>1, <1>2, <1>3, <1>4, <1>5 DEF S!Next

LEMMA SchedulerStarts == Init => SchedulerInv
<1> SUFFICES ASSUME Init PROVE SchedulerInv
  OBVIOUS
<1>1. PICK t \in Threads : name = <<t>>
  BY DEF Init, S!Init
<1>2. sCurrent = 0
  BY DEF Init, S!Init
<1>3. QED
  BY <1>1, <1>2 DEF SchedulerInv

\* A removal renumbers the threads; the one that runs is the same one.
THEOREM SchedulerRunsOn == Spec => S!RunningStays
<1>1. Init => SchedulerInv
  BY SchedulerStarts
<1>2. SchedulerInv /\ [Next]_vars => SchedulerInv' /\ [RunningStayed]_(S!vars)
  <2> SUFFICES ASSUME SchedulerInv, [Next]_vars
               PROVE  SchedulerInv' /\ [RunningStayed]_(S!vars)
    OBVIOUS
  <2>1. [S!Next]_scheduler
    BY DEF Next, vars, simulation
  <2>2. QED
    BY <2>1, SchedulerSteps
<1>3. [RunningStayed]_(S!vars) =>
        [/\ sCurrent' \in 0 .. Len(name') - 1
         /\ Len(name') # Len(name) => S!Running' = S!Running \/ S!Running \notin S!ToSet(name')]_(S!vars)
  BY DEF RunningStayed
<1>4. QED
  BY <1>1, <1>2, <1>3, PTL DEF Spec, S!RunningStays

\* No island, model or run gets worse, the simulated time moves on, and the thread
\* that runs stays the same one: a property of every behaviour, whichever program
\* it runs.
THEOREM LoopNeverGoesBack == Spec => NothingGoesBack
BY DriverOnlyGrows, ClockMovesOn, SchedulerRunsOn, PTL DEF NothingGoesBack
=============================================================================
