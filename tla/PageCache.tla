------------------------------ MODULE PageCache ------------------------------
(***************************************************************************)
(* PageCache of tools/vf-evolve/tasks/pagecache: the seed (initial.rs), a  *)
(* Mutex around the pages and the set of dirty ones, and the evolved       *)
(* version (results/v1/pagecache_best.rs), which keeps each of the two as  *)
(* a map behind a pointer of its own and replaces the maps whole.  A write *)
(* is two exchanges; when the second fails, both are tried again with maps *)
(* that are read anew.                                                     *)
(***************************************************************************)
EXTENDS Naturals, FiniteSets, Sequences, SequencesExt

CONSTANTS
    Writers,       \* the threads that write
    Flusher,       \* the thread that flushes
    NoWrite,       \* the content of a page never written
    Script,        \* Script[w]: the pages that w writes, one after the other
    MaxFlushes,    \* bound: flushes begun
    MaxInstalls    \* bound: maps of pages installed

VARIABLES
    version,       \* "seed" or "v1"
    pages, dirty,  \* the map in place, with the number of its allocation
    pc,
    myPages, myDirty,   \* the maps a thread has loaded
    written,       \* how many writes a thread has ended
    flushes,
    retired,       \* the maps given to defer_destroy
    replaced,      \* history: the maps of pages that are no longer in place
    marked,        \* history: the pages whose write has ended since the last flush
    earlier        \* history: of each write, those that had ended when it began

cacheVars == <<pages, dirty, retired>>
vars == <<version, cacheVars, pc, myPages, myDirty, written, flushes, replaced, marked,
          earlier>>

Callers == Writers \cup {Flusher}
Pages == UNION {Range(Script[w]) : w \in Writers}

\* A write is known by its thread and its number, which is what it writes.
Writes == {<<w, i>> \in Writers \X (1 .. Cardinality(Pages) + 1) : i \in DOMAIN Script[w]}
Ended == {x \in Writes : x[2] <= written[x[1]]}
Page(x) == Script[x[1]][x[2]]
Current(w) == <<w, written[w] + 1>>

Empty == [id |-> 0, map |-> [p \in Pages |-> NoWrite]]
Clean == [id |-> 0, set |-> {}]

Init ==
    /\ version \in {"seed", "v1"}
    /\ pages = Empty /\ dirty = Clean
    /\ pc = [t \in Callers |-> "idle"]
    /\ myPages = [w \in Writers |-> Empty] /\ myDirty = [t \in Callers |-> Clean]
    /\ written = [w \in Writers |-> 0] /\ flushes = 0
    /\ retired = <<>> /\ replaced = {} /\ marked = {}
    /\ earlier = [x \in Writes |-> {}]

\* What a thread has loaded goes out of scope with its guard.
Forget(t) ==
    /\ myPages' = [w \in Writers |-> IF w = t THEN Empty ELSE myPages[w]]
    /\ myDirty' = [myDirty EXCEPT ![t] = Clean]

Goto(t, from, to) == pc[t] = from /\ pc' = [pc EXCEPT ![t] = to]

With(map, x) == [map EXCEPT ![Page(x)] = x]

-----------------------------------------------------------------------------
(* The seed: a call is a critical section.                                    *)

SeedWrite(w) ==
    /\ version = "seed" /\ Current(w) \in Writes
    /\ pages' = [pages EXCEPT !.map = With(@, Current(w))]
    /\ dirty' = [dirty EXCEPT !.set = @ \cup {Page(Current(w))}]
    /\ written' = [written EXCEPT ![w] = @ + 1]
    /\ marked' = marked \cup {Page(Current(w))}
    /\ earlier' = [earlier EXCEPT ![Current(w)] = Ended]
    /\ UNCHANGED <<pc, myPages, myDirty, flushes, retired, replaced>>

SeedFlush ==
    /\ version = "seed" /\ flushes < MaxFlushes
    /\ dirty' = [dirty EXCEPT !.set = {}]
    /\ flushes' = flushes + 1
    /\ marked' = {}
    /\ UNCHANGED <<pages, pc, myPages, myDirty, written, retired, replaced, earlier>>

-----------------------------------------------------------------------------
(* The evolved version.  Each thread is pinned from its loads to its          *)
(* exchanges, so that a map's address is not used again in between.           *)

Write(w) ==
    /\ version = "v1" /\ Current(w) \in Writes /\ Goto(w, "idle", "load pages")
    /\ earlier' = [earlier EXCEPT ![Current(w)] = Ended]
    /\ UNCHANGED <<cacheVars, myPages, myDirty, written, flushes, replaced, marked>>

LoadPages(w) ==
    /\ Goto(w, "load pages", "load dirty")
    /\ myPages' = [myPages EXCEPT ![w] = pages]
    /\ UNCHANGED <<cacheVars, myDirty, written, flushes, replaced, marked, earlier>>

LoadDirty(w) ==
    /\ Goto(w, "load dirty", "exchange pages")
    /\ myDirty' = [myDirty EXCEPT ![w] = dirty]
    /\ UNCHANGED <<cacheVars, myPages, written, flushes, replaced, marked, earlier>>

ExchangePages(w) ==
    /\ pages.id = myPages[w].id /\ pages.id < MaxInstalls
    /\ Goto(w, "exchange pages", "exchange dirty")
    /\ pages' = [id |-> pages.id + 1, map |-> With(myPages[w].map, Current(w))]
    /\ replaced' = replaced \cup {pages.id}
    /\ UNCHANGED <<dirty, retired, myPages, myDirty, written, flushes, marked, earlier>>

\* Only a write whose two exchanges succeed frees what they replaced.
ExchangeDirty(w) ==
    /\ dirty.id = myDirty[w].id
    /\ Goto(w, "exchange dirty", "idle")
    /\ dirty' = [id |-> dirty.id + 1, set |-> myDirty[w].set \cup {Page(Current(w))}]
    /\ retired' = retired \o << <<"pages", myPages[w].id>>, <<"dirty", myDirty[w].id>> >>
    /\ written' = [written EXCEPT ![w] = @ + 1]
    /\ marked' = marked \cup {Page(Current(w))}
    /\ Forget(w)
    /\ UNCHANGED <<pages, flushes, replaced, earlier>>

\* A weak exchange may fail for no reason.
WriteRetry(w) ==
    /\ \/ Goto(w, "exchange pages", "load pages")
       \/ Goto(w, "exchange dirty", "load pages")
    /\ Forget(w)
    /\ UNCHANGED <<cacheVars, written, flushes, replaced, marked, earlier>>

Flush ==
    /\ version = "v1" /\ flushes < MaxFlushes /\ Goto(Flusher, "idle", "load dirty")
    /\ flushes' = flushes + 1
    /\ UNCHANGED <<cacheVars, myPages, myDirty, written, replaced, marked, earlier>>

FlushLoad ==
    /\ Goto(Flusher, "load dirty", "exchange dirty")
    /\ myDirty' = [myDirty EXCEPT ![Flusher] = dirty]
    /\ UNCHANGED <<cacheVars, myPages, written, flushes, replaced, marked, earlier>>

FlushExchange ==
    /\ dirty.id = myDirty[Flusher].id
    /\ Goto(Flusher, "exchange dirty", "idle")
    /\ dirty' = [id |-> dirty.id + 1, set |-> {}]
    /\ retired' = Append(retired, <<"dirty", myDirty[Flusher].id>>)
    /\ marked' = {}
    /\ Forget(Flusher)
    /\ UNCHANGED <<pages, written, flushes, replaced, earlier>>

FlushRetry ==
    /\ Goto(Flusher, "exchange dirty", "load dirty")
    /\ Forget(Flusher)
    /\ UNCHANGED <<cacheVars, written, flushes, replaced, marked, earlier>>

Next ==
    /\ UNCHANGED version
    /\ \/ \E w \in Writers :
             \/ SeedWrite(w)
             \/ Write(w) \/ LoadPages(w) \/ LoadDirty(w)
             \/ ExchangePages(w) \/ ExchangeDirty(w) \/ WriteRetry(w)
       \/ SeedFlush
       \/ Flush \/ FlushLoad \/ FlushExchange \/ FlushRetry

-----------------------------------------------------------------------------
\* What read answers: one load of the map, or one critical section.
Read(p) == pages.map[p]

\* No write is lost, whatever writes of its page or of others run beside it: a page
\* holds a write that no ended write of the page came after ("Overwrite must replace
\* data", trait_spec.rs:46).
LatestWriteKept ==
    \A x \in Ended :
        /\ Read(Page(x)) # NoWrite
        /\ Read(Page(x)) \notin {y \in earlier[x] : Page(y) = Page(x)}

\* A page whose write has ended is dirty until the next flush, also when a flush came
\* between the two exchanges of the write, and what is dirty has been written
\* (test_concurrent_flush, trait_spec.rs:149).
DirtyTracked ==
    /\ marked \subseteq dirty.set
    /\ \A p \in dirty.set : Read(p) # NoWrite

\* Each map is freed once and not while it is in place.
MapsFreedOnce ==
    /\ IsInjective(retired)
    /\ {<<"pages", pages.id>>, <<"dirty", dirty.id>>} \cap Range(retired) = {}

\* A map of pages that was replaced is freed by whoever replaced it when its write
\* ends.  False: a write whose second exchange fails forgets the map that its first
\* one has replaced.
NothingLeaks ==
    (\A t \in Callers : pc[t] = "idle") =>
        \A i \in replaced : <<"pages", i>> \in Range(retired)
=============================================================================
