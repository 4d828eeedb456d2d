------------------------------ MODULE Generator ------------------------------
(* The two-phase code generator (vf-generator): code is generated and fixed  *)
(* until the cascade passes, then improved towards a progress guarantee      *)
(* while it keeps passing; and the program around it (bin/generate.rs).      *)
(*                                                                           *)
(* A request that brings no text, or a text without a code block, ends it.   *)
EXTENDS Cascade

CONSTANTS
    Codes,      \* what a model may write
    NoCode,     \* a text in which no code is found
    NoText,     \* the connection fails, or the service answers with an error
    Configs,    \* attempts allowed, minimum and target guarantee, cascade
    Installed   \* the tools the cascade finds

VARIABLES
    config,
    phase,        \* "correctness", "performance", "answered" or "exited"
    attempt,      \* attempts made in this phase
    code,         \* current_code, then best_code; NoCode before the first answer
    result,       \* cascade_result
    progress,     \* best_progress
    attempts,     \* attempt_history
    answer,       \* what generate returned
    exit,         \* "running", "success" or "failure"
    output        \* the code written or printed

vars == <<config, phase, attempt, code, result, progress, attempts, answer, exit, output>>

\* What a request brings back: a text with some code in it, marked off by a fence
\* that is closed, by one that is not (a text cut short), or by none.
Texts == [code : Codes, fence : {"closed", "open", "none"}]
Replies == Texts \cup {NoText}

\* extract_code_block: only a closed ```rust fence gives code.
ExtractCodeBlock(text) == IF text.fence = "closed" THEN text.code ELSE NoCode

NoResult == [kind |-> "none"]
NoGuarantee == "none"

Guarantee(c) == AnalyzeProgress(c.marks)

Init ==
    /\ config \in Configs
    /\ phase = "correctness" /\ attempt = 0
    /\ code = NoCode /\ result = NoResult /\ progress = NoGuarantee
    /\ attempts = <<>> /\ answer = NoResult
    /\ exit = "running" /\ output = NoCode

AtTarget == AtLeast(progress, config.target)

Asking ==
    \/ phase = "correctness" /\ attempt < config.maxCorrectness
    \/ phase = "performance" /\ attempt < config.maxPerf /\ ~AtTarget

\* generate_initial, fix_code and improve_performance: one request each, and an
\* error when it brings no code.
RequestCode(reply) ==
    IF reply = NoText THEN NoCode ELSE ExtractCodeBlock(reply)

Answered == {RequestCode(reply) : reply \in Replies} \ {NoCode}

\* The error leaves generate at once, with whatever was reached so far.
RequestFails ==
    /\ Asking
    /\ \E reply \in Replies : RequestCode(reply) = NoCode
    /\ answer' = [kind |-> "error"] /\ phase' = "answered"
    /\ UNCHANGED <<config, attempt, code, result, progress, attempts, exit, output>>

\* The first request generates, later ones fix the last code; the record keeps
\* the verdict whether it passed or not.
CorrectnessAttempt ==
    /\ Asking /\ phase = "correctness"
    /\ \E c \in Answered : \E r \in RunOnCode(c, config.cascade, Installed) :
        /\ attempts' = Append(attempts, [code |-> c, result |-> r])
        /\ code' = c /\ result' = r
        /\ IF r.all_passed
           THEN phase' = "performance" /\ progress' = Guarantee(c) /\ attempt' = 0
           ELSE attempt' = attempt + 1 /\ UNCHANGED <<phase, progress>>
    /\ UNCHANGED <<config, answer, exit, output>>

\* No attempt passed, or none was allowed.
GiveUp ==
    /\ phase = "correctness" /\ attempt = config.maxCorrectness
    /\ answer' = [kind |-> "result", success |-> FALSE, code |-> code,
                  progress |-> progress, result |-> result]
    /\ phase' = "answered"
    /\ UNCHANGED <<config, attempt, code, result, progress, attempts, exit, output>>

\* Mutant of PerfAttempt: an improvement that breaks correctness is not reverted.
PerfAttemptKeeps ==
    /\ Asking /\ phase = "performance"
    /\ \E c \in Answered : \E r \in RunOnCode(c, config.cascade, Installed) :
        /\ attempts' = Append(attempts, [code |-> c, result |-> r])
        /\ IF Ordinal(Guarantee(c)) > Ordinal(progress)
           THEN code' = c /\ progress' = Guarantee(c) /\ result' = r
           ELSE UNCHANGED <<code, progress, result>>
    /\ attempt' = attempt + 1
    /\ UNCHANGED <<config, phase, answer, exit, output>>

\* An improvement is asked of the best code; it replaces it only when the
\* cascade passes and the guarantee is higher.
PerfAttempt ==
    /\ Asking /\ phase = "performance"
    /\ \E c \in Answered : \E r \in RunOnCode(c, config.cascade, Installed) :
        /\ attempts' = Append(attempts, [code |-> c, result |-> r])
        /\ IF r.all_passed /\ Ordinal(Guarantee(c)) > Ordinal(progress)
           THEN code' = c /\ progress' = Guarantee(c) /\ result' = r
           ELSE UNCHANGED <<code, progress, result>>
    /\ attempt' = attempt + 1
    /\ UNCHANGED <<config, phase, answer, exit, output>>

Complete ==
    /\ phase = "performance" /\ (AtTarget \/ attempt = config.maxPerf)
    /\ answer' = [kind |-> "result", success |-> AtLeast(progress, config.minimum),
                  code |-> code, progress |-> progress, result |-> result]
    /\ phase' = "answered"
    /\ UNCHANGED <<config, attempt, code, result, progress, attempts, exit, output>>

\* main: the code is written only for a successful result, and the exit status
\* is a failure when it cannot be.
Exit ==
    /\ phase = "answered"
    /\ \E writable \in BOOLEAN :
        IF answer.kind = "result" /\ answer.success /\ writable
        THEN output' = answer.code /\ exit' = "success"
        ELSE exit' = "failure" /\ UNCHANGED output
    /\ phase' = "exited"
    /\ UNCHANGED <<config, attempt, code, result, progress, attempts, answer>>

Next ==
    \/ RequestFails \/ CorrectnessAttempt \/ GiveUp \/ PerfAttempt \/ Complete \/ Exit

Spec == Init /\ [][Next]_vars /\ WF_vars(Next)

-----------------------------------------------------------------------------
Passing == {i \in DOMAIN attempts : attempts[i].result.all_passed}

\* What the program writes as a success is an attempt that passed with exactly
\* the verdict returned beside it, has the guarantee it claims, meets the
\* minimum, and no attempt that passed has a higher guarantee.
SuccessIsBest ==
    exit = "success" =>
        /\ \E i \in Passing : /\ attempts[i].code = output
                              /\ attempts[i].result = answer.result
        /\ Guarantee(output) = answer.progress
        /\ AtLeast(answer.progress, config.minimum)
        /\ \A i \in Passing : AtLeast(answer.progress, Guarantee(attempts[i].code))

\* The program ends however often the model fails to improve.
Exited == exit # "running"
GeneratorEnds == <>Exited
=============================================================================
