-------------------------------- MODULE Evolve --------------------------------
(* The evolution driver (vf-evaluators, bin/evolve.rs): islands of candidate *)
(* implementations, mutated by an ensemble of language models, scored by the *)
(* cascade, trimmed, and exchanged between islands every few generations.    *)
(*                                                                           *)
(* A candidate keeps its score, whether it passed every level and which      *)
(* model wrote it (0: the seed); which member of an island is its parent     *)
(* changes nothing here.                                                     *)
EXTENDS Cascade, SequencesExt

CONSTANTS
    Codes,          \* what a model may write
    Configs,        \* command lines: generations, islands, population, interval, texts
    Installed,      \* the tools the cascade finds
    DefaultModels   \* models of the default ensemble (4 in the code)

VARIABLES
    config,
    phase,        \* "seed", "evolving", "done" or "panicked"
    generation,
    island,       \* the island to mutate next; one past the last: none is left
    islands,      \* per island its candidates, best first
    models,       \* per model the bandit's count and best score
    bestEver,
    bestFile,     \* best.rs and best_info.json, as this run has left them
    totalEvals,
    history       \* per generation the best score and the evaluations so far

vars == <<config, phase, generation, island, islands, models, bestEver, bestFile,
          totalEvals, history>>

\* A text a model answers with: a fence that is closed, one that is not (a text cut
\* short), or none, marks the code off.
Texts == [code : Codes, fence : {"closed", "open", "none"}]

\* extract_rust_code: without a closing fence everything after the opening one,
\* without a fence all of the text, is taken for code.
ExtractRustCode(text) == text.code

Answered == {ExtractRustCode(text) : text \in Texts}

Larger(m, n) == IF m > n THEN m ELSE n
Smaller(m, n) == IF m < n THEN m ELSE n

\* The ensemble is extended until there is a model for each island.
EnsembleSize(c) == Larger(DefaultModels, c.islands)

Untried == [evals |-> 0, best |-> 0]

Record(model, score) ==
    [evals |-> model.evals + 1, best |-> Larger(model.best, score)]

\* What evaluate_code may make of a code: the verdict need not be the same twice.
Evaluations(code, author) ==
    {[score   |-> Score(result, AnalyzeProgress(code.marks)),
      correct |-> result.all_passed,
      model   |-> author] : result \in RunOnCode(code, config.cascade, Installed)}

-----------------------------------------------------------------------------
\* What a reader finds whole in a file this run writes (nothing, while it has
\* written none or a part), and whether the last write to it failed.
Unwritten == [text |-> <<>>, failed |-> FALSE]

\* The outcome of fs::write is dropped: it may succeed, fail before it opens
\* the file, or fail once it has emptied it.
Written(file, candidate) ==
    {[text |-> <<candidate>>, failed |-> FALSE],
     [file EXCEPT !.failed = TRUE],
     [text |-> <<>>, failed |-> TRUE]}

\* Mutant of FilesWritten: what was the best before is written.
OldFilesWritten(candidate) ==
    {[code |-> c, info |-> i] : c \in Written(bestFile.code, bestEver),
                                i \in Written(bestFile.info, bestEver)}

\* The two files are written one after the other, the second whatever came of
\* the first.
FilesWritten(candidate) ==
    {[code |-> c, info |-> i] : c \in Written(bestFile.code, candidate),
                                i \in Written(bestFile.info, candidate)}

Init ==
    /\ config \in Configs
    /\ phase = "seed" /\ generation = 0 /\ island = 1
    /\ islands = [i \in 1..config.islands |-> <<>>]
    /\ models = [m \in 1..EnsembleSize(config) |-> Untried]
    /\ bestEver = [model |-> 0, score |-> 0, correct |-> FALSE]
    /\ bestFile = [code |-> Unwritten, info |-> Unwritten]
    /\ totalEvals = 0 /\ history = <<>>

\* The seed is evaluated and put on every island; the files are not written for it.
EvaluateSeed ==
    /\ phase = "seed"
    /\ \E code \in Codes : \E seed \in Evaluations(code, 0) :
        /\ islands' = [i \in DOMAIN islands |-> <<seed>>]
        /\ bestEver' = seed
    /\ totalEvals' = 1 /\ phase' = "evolving" /\ generation' = 1
    /\ UNCHANGED <<config, island, models, bestFile, history>>

\* max_by on the UCB1 scores: the last of the models never tried, else any.
UcbChoice ==
    LET fresh == {m \in DOMAIN models : models[m].evals = 0}
    IN  IF fresh # {} THEN {Max(fresh)} ELSE DOMAIN models

RoundRobin == ((island - 1) % Len(models)) + 1

SelectModel ==
    IF generation <= Len(models) THEN {RoundRobin} ELSE {RoundRobin} \cup UcbChoice

\* A stable sort, best first, of a sorted island with one more candidate: it
\* comes after those that are as good.
Sorted(members, candidate) ==
    LET better == {j \in DOMAIN members : members[j].score >= candidate.score}
    IN  InsertAt(members, Cardinality(better) + 1, candidate)

Truncate(members, population) == SubSeq(members, 1, Smaller(population, Len(members)))

\* Mutants of PushSortTruncate: cut before it is sorted; cut one too short.
TruncateUnsorted(members, candidate) ==
    Truncate(members \o <<candidate>>, config.population)

TruncateShort(members, candidate) ==
    Truncate(Sorted(members, candidate), Larger(config.population, 1) - 1)

PushSortTruncate(members, candidate) ==
    Truncate(Sorted(members, candidate), config.population)

Running == phase = "evolving" /\ generation <= config.generations
Mutating == Running /\ island <= config.islands /\ islands[island] # <<>>

\* A request that fails, or an answer that changes nothing: the island keeps as
\* it is for this generation.
SkipIsland ==
    /\ Mutating
    /\ island' = island + 1
    /\ UNCHANGED <<config, phase, generation, islands, models, bestEver, bestFile,
                   totalEvals, history>>

Mutate ==
    /\ Mutating
    /\ \E m \in SelectModel, code \in Answered :
       \E candidate \in Evaluations(code, m) :
        /\ models' = [models EXCEPT ![m] = Record(@, candidate.score)]
        /\ islands' = [islands EXCEPT ![island] = PushSortTruncate(@, candidate)]
        /\ IF candidate.score > bestEver.score
           THEN bestEver' = candidate /\ bestFile' \in FilesWritten(candidate)
           ELSE UNCHANGED <<bestEver, bestFile>>
    /\ totalEvals' = totalEvals + 1
    /\ island' = island + 1
    /\ UNCHANGED <<config, phase, generation, history>>

\* Mutant of MigrateFrom: the migrant leaves its island.
MigrateMove(all, i) ==
    LET next == (i % config.islands) + 1
    IN  IF Len(all[i]) < 2 THEN all
        ELSE [all EXCEPT ![next] = PushSortTruncate(@, Head(all[i])), ![i] = Tail(@)]

\* max_by: the last of those that are as good as the first.
LastBest(members) ==
    members[Max({j \in DOMAIN members : members[j].score = members[1].score})]

\* The best of one island moves to the next one, unless all there are as good.
\* The islands are visited in order: a migrant may travel on in the same round.
MigrateFrom(all, i) ==
    LET next == (i % config.islands) + 1
        best == LastBest(all[i])
    IN  IF \/ all[i] = <<>>
           \/ all[next] # <<>> /\ best.score <= all[next][Len(all[next])].score
        THEN all
        ELSE [all EXCEPT ![next] = PushSortTruncate(@, best)]

Migrated ==
    LET round[i \in 0..config.islands] ==
            IF i = 0 THEN islands ELSE MigrateFrom(round[i - 1], i)
    IN  round[config.islands]

EndGeneration ==
    /\ Running /\ island > config.islands /\ config.interval # 0
    /\ islands' = IF generation % config.interval = 0 /\ config.islands > 1
                  THEN Migrated ELSE islands
    /\ history' = Append(history, [best |-> bestEver.score, evaluations |-> totalEvals])
    /\ generation' = generation + 1 /\ island' = 1
    /\ UNCHANGED <<config, phase, models, bestEver, bestFile, totalEvals>>

\* The program ends: the remainder by a migration interval of zero; a parent
\* taken from an island that a population of zero has emptied; an error text
\* with wide characters, cut at a fixed byte for the feedback of a failed level.
Panic ==
    /\ phase \in {"seed", "evolving"}
    /\ \/ Running /\ island > config.islands /\ config.interval = 0
       \/ Running /\ island <= config.islands /\ islands[island] = <<>>
       \/ /\ (phase = "seed" \/ Mutating)
          /\ config.wideText
          /\ \E code \in Answered : \E c \in Evaluations(code, 0) : ~c.correct
    /\ phase' = "panicked"
    /\ UNCHANGED <<config, generation, island, islands, models, bestEver, bestFile,
                   totalEvals, history>>

\* History and summary are written once, after the last generation.
Summary ==
    /\ phase = "evolving" /\ generation > config.generations
    /\ phase' = "done"
    /\ UNCHANGED <<config, generation, island, islands, models, bestEver, bestFile,
                   totalEvals, history>>

Next == EvaluateSeed \/ SkipIsland \/ Mutate \/ EndGeneration \/ Panic \/ Summary

Spec == Init /\ [][Next]_vars /\ WF_vars(Next)

-----------------------------------------------------------------------------
Members == UNION {{islands[i][j] : j \in DOMAIN islands[i]} : i \in DOMAIN islands}

\* The evaluations on the accounts of the models.
Spent ==
    LET upTo[n \in 0 .. Len(models)] == IF n = 0 THEN 0 ELSE upTo[n - 1] + models[n].evals
    IN  upTo[Len(models)]

\* What a file tells once the best is no longer the seed: the best candidate, if
\* the last write succeeded; else nothing whole, or one that is worse.
TellsBest(file) ==
    IF file.failed THEN file.text = <<>> \/ file.text[1].score < bestEver.score
    ELSE file.text = <<bestEver>>

\* Nothing better than the best candidate was ever scored: it is still on an
\* island whatever was trimmed and migrated, it is the best of the model that
\* wrote it, and every evaluation but the seed's is on some model's account (the
\* loop over islands in main).  A file whose last write succeeded holds it,
\* unless it is the seed; one whose write failed unnoticed holds an older, worse
\* candidate or no whole one, and the two files may then tell of different ones.
BestKept ==
    generation > 0 =>
        /\ config.population > 0 /\ config.islands > 0 => bestEver \in Members
        /\ \A c \in Members : c.score <= bestEver.score
        /\ \A m \in DOMAIN models : models[m].best <= bestEver.score
        /\ bestEver.model # 0 => /\ models[bestEver.model].best = bestEver.score
                                 /\ TellsBest(bestFile.code) /\ TellsBest(bestFile.info)
        /\ bestEver.model = 0 => bestFile = [code |-> Unwritten, info |-> Unwritten]
        /\ totalEvals = 1 + Spent

\* A candidate that fails a level never displaces one that passes them all,
\* whatever its progress guarantee earns it (the weights in evaluate_code).
CorrectWins ==
    (\E c \in Members : c.correct) => bestEver.correct

\* No generation makes an island, a model or the run worse: trimming and
\* migration only drop what something better replaces.
BestsOnlyGrow ==
    [][generation > 0 /\ config.population > 0 =>
        /\ bestEver'.score >= bestEver.score
        /\ \A i \in DOMAIN islands : Head(islands'[i]).score >= Head(islands[i]).score
        /\ \A i \in DOMAIN islands : Len(islands'[i]) >= Len(islands[i])]_vars

\* With a population and an interval, and tools that write plain text, the run
\* ends with its summary, however many requests fail.
Summarised ==
    (config.population > 0 /\ config.interval > 0 /\ ~config.wideText) => phase = "done"
RunEnds == <>Summarised
=============================================================================
