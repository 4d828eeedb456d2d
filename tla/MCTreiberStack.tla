--------------------------- MODULE MCTreiberStack ---------------------------
(* Small instances, for TLC, of the shared structures: TreiberStack,         *)
(* Stateright's model of it with the traces given out from it, the programs  *)
(* run on the other stacks, EpochGc, RingBuffer, LinkedList and PageCache. A *)
(* behaviour is one program.                                                 *)
EXTENDS TreiberStack, TLC

CONSTANTS
    FairThread,     \* the thread that is always scheduled
    ThreadsCount,   \* StackModel
    MaxPerCategory,
    GcThreads,      \* EpochGc
    MaxObjects,
    Capacity,       \* RingBuffer
    Producers, Consumer,
    Items,
    Largest,        \* LinkedList
    Writers,        \* PageCache
    Flusher,
    NoWrite,
    MaxFlushes, MaxInstalls

VARIABLES
    program,
    mHead, mNodes, pushed, popped, threads, trace, at, failures,       \* StackModel
    scenario, pHead, pNodes, pSize, tracked, script, pPc, pNode,       \* StackPrograms
    pSeen, given, nones, refused, lost, drained, pressed,
    version, pinned, deferred, gPc, guards, holds, current, old,       \* EpochGc
    seenList, batch, ran, raced,
    rVersion, slots, rHead, rTail, rSize, rPc, rSeen, sent, produced,  \* RingBuffer
    consumed, crowded,
    lVersion, links, tree, todo, lPc, prev, curr, succ, count, before, \* LinkedList
    inserted, removed, lookups, lRetired, test, misled,
    cVersion, pages, dirty, cPc, myPages, myDirty, written, flushes,   \* PageCache
    cRetired, replaced, marked, earlier

modelVars == <<mHead, mNodes, pushed, popped, threads, trace, at, failures>>
programVars == <<scenario, pHead, pNodes, pSize, tracked, script, pPc, pNode,
                 pSeen, given, nones, refused, lost, drained, pressed>>
gcVars == <<version, pinned, deferred, gPc, guards, holds, current, old,
            seenList, batch, ran, raced>>
ringVars == <<rVersion, slots, rHead, rTail, rSize, rPc, rSeen, sent, produced, consumed,
             crowded>>
listVars == <<lVersion, links, tree, todo, lPc, prev, curr, succ, count, before,
              inserted, removed, lookups, lRetired, test, misled>>
cacheVars == <<cVersion, pages, dirty, cPc, myPages, myDirty, written, flushes,
               cRetired, replaced, marked, earlier>>

Model == INSTANCE StackModel WITH
    head <- mHead, nodes <- mNodes, Pushes <- <<1, 2, 3>>

Programs == INSTANCE StackPrograms WITH
    head <- pHead, nodes <- pNodes, size <- pSize, pc <- pPc, node <- pNode, seen <- pSeen

Gc == INSTANCE EpochGc WITH Threads <- GcThreads, pc <- gPc

Ring == INSTANCE RingBuffer WITH
    version <- rVersion, head <- rHead, tail <- rTail, size <- rSize, pc <- rPc, seen <- rSeen

List == INSTANCE LinkedList WITH
    version <- lVersion, next <- links, pc <- lPc, retired <- lRetired

\* One writer writes two pages, the other overwrites the first of them.
Cache == INSTANCE PageCache WITH
    Script <- [w \in Writers |-> IF w = FairThread THEN <<"p", "q">> ELSE <<"p">>],
    version <- cVersion, pc <- cPc, retired <- cRetired

\* The programs that do not run stay in one of their initial states.
ModelIdle == Model!Init /\ at = 0
ProgramsIdle ==
    Programs!Init /\ scenario = Programs!Run("LoomStack", <<>>, <<<<1>>, <<2>>>>, 0, 0)
GcIdle == Gc!Init /\ version = "seed"
RingIdle == Ring!Init /\ rVersion = "seed" /\ \A p \in Producers : sent[p] \in {0, 1}
ListIdle == List!Init /\ lVersion = "seed" /\ test = "inserts"
CacheIdle == Cache!Init /\ cVersion = "seed"

MCInit ==
    /\ Init
    /\ program \in {"treiber", "model", "programs", "gc", "ring", "list", "cache"}
    /\ IF program = "model" THEN Model!Init ELSE ModelIdle
    /\ IF program = "programs" THEN Programs!Init ELSE ProgramsIdle
    /\ IF program = "gc" THEN Gc!Init ELSE GcIdle
    /\ IF program = "ring" THEN Ring!Init ELSE RingIdle
    /\ IF program = "list" THEN List!Init ELSE ListIdle
    /\ IF program = "cache" THEN Cache!Init ELSE CacheIdle

MCNext ==
    /\ UNCHANGED program
    /\ \/ /\ program = "treiber" /\ Next
          /\ calls'.pop + calls'.list <= MaxPops   \* bound: pops and lists together
          /\ UNCHANGED <<modelVars, programVars, gcVars, ringVars, listVars, cacheVars>>
       \/ /\ program = "model" /\ Model!Next
          /\ UNCHANGED <<vars, programVars, gcVars, ringVars, listVars, cacheVars>>
       \/ /\ program = "programs" /\ Programs!Next
          /\ UNCHANGED <<vars, modelVars, gcVars, ringVars, listVars, cacheVars>>
       \/ /\ program = "gc" /\ Gc!Next
          /\ UNCHANGED <<vars, modelVars, programVars, ringVars, listVars, cacheVars>>
       \/ /\ program = "ring" /\ Ring!Next
          /\ UNCHANGED <<vars, modelVars, programVars, gcVars, listVars, cacheVars>>
       \/ /\ program = "list" /\ List!Next
          /\ UNCHANGED <<vars, modelVars, programVars, gcVars, ringVars, cacheVars>>
       \/ /\ program = "cache" /\ Cache!Next
          /\ UNCHANGED <<vars, modelVars, programVars, gcVars, ringVars, listVars>>

\* One thread of TreiberStack is scheduled for sure; the others may stop anywhere.
FairSpec ==
    /\ MCInit
    /\ [][MCNext]_<<program, vars, modelVars, programVars, gcVars, ringVars, listVars, cacheVars>>
    /\ WF_vars(Work(FairThread))

-----------------------------------------------------------------------------
\* What comes out of the other structures is what went in, as far as they can tell.
\* The programs get every value out of their stacks once, but for those the broken
\* stack gives up and those LoomStack refuses, and it outgrows its limit by pushes
\* under way together and no more.  EpochGc runs every deferred function once; the
\* seed frees nothing that a pinned thread has loaded, and the evolved one nothing
\* until it takes functions with a guard pinned since its look.  RingBuffer gives what
\* it was given in that order; the evolved one, with several producers, until one of
\* them claims a slot that may not be free.  LinkedList is the set its answers tell of;
\* the evolved one, where several threads remove, until a removed node misleads one.
\* PageCache loses no write and no mark of one, and frees a map once and not the one
\* in place.
ResultsExact ==
    CASE program = "gc" -> Gc!NoFreeWhileHeld /\ Gc!RunsOnce
      [] program = "ring" -> Ring!BufferKeepsOrder
      [] program = "list" -> List!ListIsSet
      [] program = "cache" -> Cache!LatestWriteKept /\ Cache!DirtyTracked /\ Cache!MapsFreedOnce
      [] program = "programs" -> Programs!ValuesComeOutOnce /\ Programs!LimitNearlyHeld
      [] OTHER -> TRUE

\* What the repository's own checks of stacks can tell.  The checker objects to a
\* tracked stack when, and only when, it has lost a tracked value: never to
\* LostElementStack, which loses track of one.  The verifier tells the right stack
\* from the wrong ones.  The traces said to be found by model checking are paths of
\* the model, but for the two that pop from the empty stack, and their failed
\* exchanges are counted right, but for a push and a pop in a row.
ChecksTellTruth ==
    /\ program = "programs" => Programs!LossReported
    /\ program = "programs" /\ Programs!NotStarted => Programs!VerifierTellsApart
    /\ program = "model" => Model!TracesJudged

\* The steps of Stateright's model are those of a stack.
ModelStepsAreLifo == Model!StepsAreLifo

\* An operation of the fair thread ends (push, pop, get_contents).
FairThreadFinishes == Finishes(FairThread)
=============================================================================
