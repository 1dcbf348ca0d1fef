---------------------------- MODULE ConnectionPool ----------------------------
(***************************************************************************)
(* The MCP server's pool of open graph stores                              *)
(* (packages/mcp/src/connection-pool.ts) and the tool calls that lease     *)
(* stores from it (withStore in packages/mcp/src/tools/shared.ts).         *)
(*                                                                         *)
(* JavaScript runs one piece of code at a time: an action is the code      *)
(* between two awaits.  An entry of the pool, the promise that opens it    *)
(* and the store it holds are one element of Entry: acquire takes a fresh  *)
(* one when it starts to open.  The reactions of one settled promise run   *)
(* back to back, so they are one action (Continue); between the cache.set  *)
(* that ends the opening and that action other code can run.               *)
(***************************************************************************)
EXTENDS Integers, FiniteSets

CONSTANTS
    Key,        \* the repositories a tool call can name
    Call,       \* the tool calls that can run at the same time
    Entry,      \* the entries the pool can create: the bound on opens
    Max,        \* capacity of the LRU cache (DEFAULT_MAX in the server)
    LongCalls,  \* TRUE: a call may outlast the idle TTL of its entry
    NoKey, NoEntry

ASSUME PoolAssumption ==
    /\ IsFiniteSet(Call)
    /\ Max \in Nat \ {0}
    /\ LongCalls \in BOOLEAN
    /\ NoKey \notin Key
    /\ NoEntry \notin Entry

VARIABLES
    phase,        \* life of an entry: free, opening, then its promise resolved
                  \* (in the cache, not yet handed over) or rejected, and after
                  \* the reactions live, stillborn (closed before it was handed
                  \* over) or failed
    keyOf,        \* the repository an entry was opened for
    refCount,     \* PoolEntry.refCount
    closed,       \* PoolEntry.closed, set together with the call of close()
    closePending, \* PoolEntry.closePending
    cache,        \* the entries in the LRU cache
    older,        \* <<e, f>>: e was used less recently than f
    stale,        \* the cached entries that have outlived the TTL
    inflight,     \* the map from keys to the promises that open them
    evicted,      \* the side table of entries evicted while in use
    awaits,       \* the promise a call is waiting for in acquire
    holds,        \* the entry whose store a call is using
    drain,        \* progress of the first shutdown()
    drainSet,     \* the promises that shutdown() waits for
    overlap,      \* history: keys opened again before their last entry was over
    meanwhile     \* history: of an entry that is in the cache before its opener
                  \* has it, the other repositories used since

entryVars == <<phase, keyOf, refCount, closed, closePending>>
lruVars   == <<cache, older, stale>>
callVars  == <<awaits, holds>>
drainVars == <<drain, drainSet>>
vars == <<entryVars, lruVars, inflight, evicted, callVars, drainVars, overlap, meanwhile>>

Phase == {"free", "opening", "resolved", "rejected", "live", "stillborn", "failed"}

TypeOK ==
    /\ phase \in [Entry -> Phase]
    /\ keyOf \in [Entry -> Key \cup {NoKey}]
    /\ refCount \in [Entry -> Nat]
    /\ closed \in [Entry -> BOOLEAN]
    /\ closePending \in [Entry -> BOOLEAN]
    /\ cache \subseteq Entry
    /\ older \subseteq Entry \X Entry
    /\ stale \subseteq cache
    /\ inflight \in [Key -> Entry \cup {NoEntry}]
    /\ evicted \in [Key -> Entry \cup {NoEntry}]
    /\ awaits \in [Call -> Entry \cup {NoEntry}]
    /\ holds \in [Call -> Entry \cup {NoEntry}]
    /\ drain \in {"none", "waiting", "closing", "done"}
    /\ drainSet \subseteq Entry
    /\ overlap \subseteq Key
    /\ meanwhile \in [Entry -> SUBSET Key]

-----------------------------------------------------------------------------
Waiters_FirstOnly(e) ==
    {c \in Call : awaits[c] = e /\ c = CHOOSE d \in Call : awaits[d] = e}

Holders(e) == {c \in Call : holds[c] = e}
Waiters(e) == {c \in Call : awaits[c] = e}
Idle(c)    == holds[c] = NoEntry /\ awaits[c] = NoEntry
disposed   == drain # "none"

(* The entries the cache has for k; there is never more than one. *)
Cached(k) == {e \in cache : keyOf[e] = k}

(* The result of lru-cache's get and peek: a stale entry is not returned. *)
Fresh(k) == Cached(k) \ stale

(* The promise of e has been settled and e's store was opened. *)
Opened(e) == phase[e] \in {"resolved", "live", "stillborn"}

(* e became the most recently used entry. *)
Touched(e) == (older \ {<<e, f>> : f \in Entry}) \cup {<<f, e>> : f \in cache \ {e}}

(* The entry lru-cache evicts to make room. *)
LeastRecent == {e \in cache : ~\E f \in cache : <<f, e>> \in older}

(* k was used while other entries wait to be handed over. *)
UsedBetween(k) ==
    [e \in Entry |-> IF phase[e] = "resolved" THEN meanwhile[e] \cup ({k} \ {keyOf[e]})
                                            ELSE meanwhile[e]]

-----------------------------------------------------------------------------
(* The cache's dispose callback, for a set D of entries of distinct keys.  *)
(* An idle entry is closed, one in use is parked in evicted, and in both   *)
(* cases the key's inflight promise is forgotten.                          *)

DisposeIdle_AlsoBusy(D) == {e \in D : ~closed[e]}

DisposeIdle(D) == {e \in D : ~closed[e] /\ refCount[e] = 0}
DisposeBusy(D) == {e \in D : ~closed[e] /\ refCount[e] # 0}

ClosedBy(D)  == [e \in Entry |-> closed[e] \/ e \in DisposeIdle(D)]
PendingBy(D) == [e \in Entry |-> closePending[e] \/ e \in DisposeBusy(D)]
ParkedBy_Nowhere(D) == evicted

ParkedBy(D)  == [k \in Key |-> IF \E e \in DisposeBusy(D) : keyOf[e] = k
                               THEN CHOOSE e \in DisposeBusy(D) : keyOf[e] = k
                               ELSE evicted[k]]
InflightAfter(D) == [k \in Key |-> IF \E e \in D : ~closed[e] /\ keyOf[e] = k
                                   THEN NoEntry
                                   ELSE inflight[k]]

-----------------------------------------------------------------------------
Init ==
    /\ phase = [e \in Entry |-> "free"]
    /\ keyOf = [e \in Entry |-> NoKey]
    /\ refCount = [e \in Entry |-> 0]
    /\ closed = [e \in Entry |-> FALSE]
    /\ closePending = [e \in Entry |-> FALSE]
    /\ cache = {}
    /\ older = {}
    /\ stale = {}
    /\ inflight = [k \in Key |-> NoEntry]
    /\ evicted = [k \in Key |-> NoEntry]
    /\ awaits = [c \in Call |-> NoEntry]
    /\ holds = [c \in Call |-> NoEntry]
    /\ drain = "none"
    /\ drainSet = {}
    /\ overlap = {}
    /\ meanwhile = [e \in Entry |-> {}]

(* acquire, the cache has an open entry: count the reference at once. *)
AcquireHit(c, k) ==
    /\ Idle(c) /\ ~disposed
    /\ \E e \in Fresh(k) :
         /\ ~closed[e]
         /\ refCount' = [refCount EXCEPT ![e] = @ + 1]
         /\ holds' = [holds EXCEPT ![c] = e]
         /\ older' = Touched(e)
    /\ meanwhile' = UsedBetween(k)
    /\ UNCHANGED <<phase, keyOf, closed, closePending, cache, stale, inflight,
                   evicted, awaits, drainVars, overlap>>

(* acquire, another call is opening k: wait for the same promise. *)
AcquireJoin(c, k) ==
    /\ Idle(c) /\ ~disposed
    /\ Cached(k) = {}
    /\ inflight[k] # NoEntry
    /\ awaits' = [awaits EXCEPT ![c] = inflight[k]]
    /\ UNCHANGED <<entryVars, lruVars, inflight, evicted, holds, drainVars, overlap,
                   meanwhile>>

(* get has deleted the expired entry of k, or no promise is recorded for k. *)
MustOpen_NoDedupe(k) == Fresh(k) = {}

MustOpen(k) == Fresh(k) = {} /\ (Cached(k) = {} => inflight[k] = NoEntry)

(* e can be used by nobody any more. *)
OverAfter(e, isClosed) ==
    \/ phase[e] = "failed"
    \/ phase[e] \in {"live", "stillborn"} /\ isClosed[e] /\ Holders(e) = {}

(* acquire, k has to be opened: get deletes a stale entry on its way, which *)
(* disposes it; then the factory is called and its promise recorded.        *)
AcquireOpen(c, k, e) ==
    /\ Idle(c) /\ ~disposed
    /\ phase[e] = "free"
    /\ MustOpen(k)
    /\ LET expired == Cached(k)
           others  == {f \in Entry : keyOf[f] = k}
       IN /\ closed' = ClosedBy(expired)
          /\ closePending' = PendingBy(expired)
          /\ evicted' = ParkedBy(expired)
          /\ cache' = cache \ expired
          /\ older' = {p \in older : p[1] \notin expired /\ p[2] \notin expired}
          /\ stale' = stale \ expired
          /\ overlap' = IF \A f \in others : OverAfter(f, closed')
                        THEN overlap
                        ELSE overlap \cup {k}
    /\ phase' = [phase EXCEPT ![e] = "opening"]
    /\ keyOf' = [keyOf EXCEPT ![e] = k]
    /\ inflight' = [inflight EXCEPT ![k] = e]
    /\ awaits' = [awaits EXCEPT ![c] = e]
    /\ UNCHANGED <<refCount, holds, drainVars, meanwhile>>

(* The factory has opened the store: cache.set, which disposes the entry it *)
(* replaces or, at capacity, the least recently used one.                   *)
FactoryResolves(e) ==
    /\ phase[e] = "opening"
    /\ \E gone \in SUBSET cache :
         /\ IF Cached(keyOf[e]) # {} THEN gone = Cached(keyOf[e])
            ELSE IF Cardinality(cache) >= Max
                 THEN \E v \in LeastRecent : gone = {v}
                 ELSE gone = {}
         /\ closed' = ClosedBy(gone)
         /\ closePending' = PendingBy(gone)
         /\ evicted' = ParkedBy(gone)
         /\ inflight' = InflightAfter(gone)
         /\ cache' = (cache \ gone) \cup {e}
         /\ older' = {p \in older : p[1] \notin gone /\ p[2] \notin gone}
                       \cup {<<f, e>> : f \in cache \ gone}
         /\ stale' = stale \ gone
    /\ phase' = [phase EXCEPT ![e] = "resolved"]
    /\ meanwhile' = UsedBetween(keyOf[e])
    /\ UNCHANGED <<keyOf, refCount, callVars, drainVars, overlap>>

FactoryRejects(e) ==
    /\ phase[e] = "opening"
    /\ phase' = [phase EXCEPT ![e] = "rejected"]
    /\ UNCHANGED <<keyOf, refCount, closed, closePending, lruVars, inflight,
                   evicted, callVars, drainVars, overlap, meanwhile>>

(* The references the reactions to the promise of e take. *)
References_OpenerOnly(e) == 1

References(e) == Cardinality(Waiters(e))

(* The reactions to the promise of e: the opener and the calls that joined  *)
(* it take their references, or fail; the opener's finally forgets the      *)
(* promise recorded for the key, whichever it is by now.                    *)
Continue(e) ==
    /\ phase[e] \in {"resolved", "rejected"}
    /\ awaits' = [c \in Call |-> IF c \in Waiters(e) THEN NoEntry ELSE awaits[c]]
    /\ inflight' = [inflight EXCEPT ![keyOf[e]] = NoEntry]
    /\ \/ /\ phase[e] = "resolved"
          /\ refCount' = [refCount EXCEPT ![e] = @ + References(e)]
          /\ holds' = [c \in Call |-> IF c \in Waiters(e) THEN e ELSE holds[c]]
          /\ phase' = [phase EXCEPT ![e] = IF closed[e] THEN "stillborn" ELSE "live"]
          /\ meanwhile' = IF closed[e] THEN meanwhile ELSE [meanwhile EXCEPT ![e] = {}]
       \/ /\ phase[e] = "rejected"
          /\ phase' = [phase EXCEPT ![e] = "failed"]
          /\ UNCHANGED <<refCount, holds, meanwhile>>
    /\ UNCHANGED <<keyOf, closed, closePending, lruVars, evicted, drainVars, overlap>>

(* 15 minutes pass without an acquire of e. *)
Expire(e) ==
    /\ e \in cache \ stale
    /\ phase[e] # "resolved"
    /\ LongCalls \/ Holders(e) = {}
    /\ stale' = stale \cup {e}
    /\ UNCHANGED <<entryVars, cache, older, inflight, evicted, callVars,
                   drainVars, overlap, meanwhile>>

(* The entry release(k) works on: it is looked up by key, not by handle. *)
ReleaseTarget_CacheOnly(k) ==
    IF Fresh(k) # {} THEN CHOOSE e \in Fresh(k) : TRUE ELSE NoEntry

ReleaseTarget(k) ==
    IF Fresh(k) # {} THEN CHOOSE e \in Fresh(k) : TRUE ELSE evicted[k]

Decremented(n) == IF n > 0 THEN n - 1 ELSE 0

(* It was the last reference to an entry that waits to be closed. *)
LastRelease_AnyEntry(e) == Decremented(refCount[e]) = 0 /\ ~closed[e]

LastRelease(e) == Decremented(refCount[e]) = 0 /\ closePending[e] /\ ~closed[e]

(* release, in the finally of a tool call. *)
Release(c) ==
    /\ holds[c] # NoEntry
    /\ holds' = [holds EXCEPT ![c] = NoEntry]
    /\ LET k == keyOf[holds[c]]
           e == ReleaseTarget(k)
           last == LastRelease(e)
       IN IF e = NoEntry
          THEN UNCHANGED <<refCount, closed, evicted>>
          ELSE /\ refCount' = [refCount EXCEPT ![e] = Decremented(@)]
               /\ closed' = [closed EXCEPT ![e] = @ \/ last]
               /\ evicted' = IF last THEN [evicted EXCEPT ![k] = NoEntry] ELSE evicted
    /\ UNCHANGED <<phase, keyOf, closePending, lruVars, inflight, awaits,
                   drainVars, overlap, meanwhile>>

(* shutdown(): refuse new acquires, then wait for the recorded promises. *)
ShutdownBegin ==
    /\ ~disposed
    /\ drain' = "waiting"
    /\ drainSet' = {inflight[k] : k \in Key} \ {NoEntry}
    /\ UNCHANGED <<entryVars, lruVars, inflight, evicted, callVars, overlap, meanwhile>>

OpensSettled_NotAwaited == drain = "waiting"

OpensSettled_Succeeded == \A e \in drainSet : phase[e] = "live"

OpensSettled == \A e \in drainSet : phase[e] \in {"live", "stillborn", "failed"}

(* They have settled: clear the cache, which disposes its entries, and close *)
(* what was fresh in it together with what the side table then holds.        *)
ShutdownClose ==
    /\ drain = "waiting"
    /\ OpensSettled
    /\ LET parked  == ParkedBy(cache)
           drained == (cache \ stale) \cup {parked[k] : k \in Key}
       IN closed' = [e \in Entry |-> ClosedBy(cache)[e] \/ e \in drained]
    /\ closePending' = PendingBy(cache)
    /\ cache' = {} /\ older' = {} /\ stale' = {}
    /\ inflight' = [k \in Key |-> NoEntry]
    /\ evicted' = [k \in Key |-> NoEntry]
    /\ drain' = "closing"
    /\ UNCHANGED <<phase, keyOf, refCount, callVars, drainSet, overlap, meanwhile>>

(* The stores' close() promises have settled: shutdown() returns. *)
ShutdownReturn ==
    /\ drain = "closing"
    /\ drain' = "done"
    /\ UNCHANGED <<entryVars, lruVars, inflight, evicted, callVars, drainSet, overlap,
                   meanwhile>>

Next ==
    \/ \E c \in Call, k \in Key : AcquireHit(c, k)
    \/ \E c \in Call, k \in Key : AcquireJoin(c, k)
    \/ \E c \in Call, k \in Key, e \in Entry : AcquireOpen(c, k, e)
    \/ \E e \in Entry : FactoryResolves(e)
    \/ \E e \in Entry : FactoryRejects(e)
    \/ \E e \in Entry : Continue(e)
    \/ \E e \in Entry : Expire(e)
    \/ \E c \in Call : Release(c)
    \/ ShutdownBegin
    \/ ShutdownClose
    \/ ShutdownReturn

Spec == Init /\ [][Next]_vars

(* An open that was started ends one way or the other, the event loop runs  *)
(* the reactions of a settled promise, a tool call ends and its finally     *)
(* releases, and a shutdown that was begun is carried through.              *)
Fairness ==
    /\ \A e \in Entry : WF_vars(FactoryResolves(e) \/ FactoryRejects(e))
    /\ \A e \in Entry : WF_vars(Continue(e))
    /\ \A c \in Call : WF_vars(Release(c))
    /\ WF_vars(ShutdownClose)
    /\ WF_vars(ShutdownReturn)

FairSpec == Spec /\ Fairness

-----------------------------------------------------------------------------
(* Properties.  "Tracked" entries are those of repositories that were never  *)
(* opened a second time while their previous handle was still open or in     *)
(* use: release finds its entry by key, so what it promises is promised for  *)
(* them (the README's findings say what happens to the others).              *)
Tracked(e) == keyOf[e] \notin overlap

(* acquire never serves a closed store from the cache, nor a choice of two:  *)
(* dispose and release close only entries that have left the cache, and      *)
(* cache.set replaces.                                                       *)
CachedIsOpen ==
    /\ \A e \in cache : Opened(e) /\ ~closed[e] /\ ~closePending[e]
    /\ \A e, f \in cache : keyOf[e] = keyOf[f] => e = f

(* The side table holds, under its own key, only entries whose close is      *)
(* still owed.                                                               *)
ParkedIsPending ==
    \A k \in Key : evicted[k] # NoEntry =>
        /\ keyOf[evicted[k]] = k
        /\ evicted[k] \notin cache
        /\ closePending[evicted[k]] /\ ~closed[evicted[k]]

(* The counter covers the calls that use the store, however hits, joined     *)
(* opens, evictions and releases interleave.                                 *)
CountCovers ==
    \A e \in Entry : Opened(e) /\ Tracked(e) => Cardinality(Holders(e)) <= refCount[e]

(* A store is open as long as a call uses it and shutdown has not closed the *)
(* pool, although it may have been evicted in the meantime.  There is one    *)
(* exception, which the code does not guard against: from the cache.set that  *)
(* ends an open until its opener takes a reference the count is zero, and a   *)
(* store evicted there is handed over closed.  It takes a rush: in that time  *)
(* Max other repositories have been used.                                    *)
Rushed(e) == phase[e] = "stillborn" /\ Cardinality(meanwhile[e]) >= Max

InUseIsOpen ==
    \A e \in Entry :
        Tracked(e) /\ Holders(e) # {} /\ drain \in {"none", "waiting"}
            => ~closed[e] \/ Rushed(e)

(* An open store can still be found, so that somebody will close it.         *)
NoLeak ==
    \A e \in Entry : Opened(e) /\ ~closed[e] /\ Tracked(e)
                       => e \in cache \/ evicted[keyOf[e]] = e

(* Once shutdown has closed the pool no store is open and none will be       *)
(* opened, although an open may have been under way when it was called.      *)
ShutdownDrains ==
    drain \in {"closing", "done"} =>
        \A e \in Entry : Tracked(e) => phase[e] # "opening" /\ (Opened(e) => closed[e])

(* Without shutdown a store is closed only by the step that finds or leaves  *)
(* its counter at zero, for any entry, and a closed store stays closed.      *)
ClosedUnreferenced ==
    [][\A e \in Entry : /\ closed[e] => closed'[e]
                        /\ closed'[e] /\ ~closed[e] /\ drain' = drain
                             => refCount'[e] = 0]_vars

(* With no more repositories than the cache has room for, and calls shorter  *)
(* than the TTL, a repository is never opened while an earlier handle of it  *)
(* is open or in use.                                                        *)
Fits == IsFiniteSet(Key) /\ Cardinality(Key) <= Max /\ ~LongCalls
FitsNoOverlap == Fits => overlap = {}

(* ... and the counter is exactly the number of calls that use the store.    *)
FitsExactCount ==
    Fits /\ drain \in {"none", "waiting"} =>
        \A e \in Entry : Opened(e) => refCount[e] = Cardinality(Holders(e))

(* acquire returns. *)
AcquireReturns ==
    \A c \in Call : awaits[c] # NoEntry ~> awaits[c] = NoEntry

(* A handle parked by an eviction is closed once its users are done, unless  *)
(* a reference was lost before (release does not find an expired entry).     *)
ParkedIsClosed ==
    \A e \in Entry :
        (closePending[e] /\ refCount[e] = Cardinality(Holders(e)) /\ ~closed[e])
            ~> (closed[e] \/ ~Tracked(e))

(* The header's promise for every entry, which fails even when no entry was  *)
(* evicted before it was handed over: an eviction never closes a store that  *)
(* is in use.                                                                *)
EvictionSparesInUse ==
    drain = "none" /\ (\A e \in Entry : phase[e] # "stillborn") =>
        \A e \in Entry : phase[e] = "live" /\ Holders(e) # {} => ~closed[e]

-----------------------------------------------------------------------------
(* The inductive invariant: the properties above and what they rest on.      *)
Over(e) == OverAfter(e, closed)

(* What has happened to an entry in each phase of its life.                  *)
PhaseInv ==
    \A e \in Entry :
        /\ (phase[e] = "free") <=> (keyOf[e] = NoKey)
        /\ phase[e] \in {"free", "opening", "rejected", "failed"} =>
             refCount[e] = 0 /\ ~closed[e] /\ ~closePending[e] /\ Holders(e) = {}
        /\ Waiters(e) # {} => phase[e] \in {"opening", "resolved", "rejected"}

(* A recorded promise is one that has not been continued.                    *)
InflightInv ==
    \A k \in Key : inflight[k] # NoEntry =>
        /\ keyOf[inflight[k]] = k
        /\ phase[inflight[k]] \in {"opening", "resolved", "rejected"}

ParkedInv == ParkedIsPending /\ \A k \in Key : evicted[k] # NoEntry => Opened(evicted[k])

(* A tracked repository has one entry that is not over.                      *)
OneCurrent ==
    \A e, f \in Entry :
        keyOf[e] = keyOf[f] /\ keyOf[e] # NoKey /\ Tracked(e) /\ e # f => Over(e) \/ Over(f)

(* Before shutdown closes the pool, closed means no references are left.     *)
ClosedIsUnreferenced ==
    drain \in {"none", "waiting"} =>
        \A e \in Entry : phase[e] \in {"resolved", "live"} /\ closed[e] => refCount[e] = 0

(* shutdown knows every tracked open that is under way.                      *)
DrainKnows ==
    \A e \in Entry : phase[e] = "opening" /\ Tracked(e) =>
        /\ drain = "none" => inflight[keyOf[e]] = e
        /\ drain = "waiting" => e \in drainSet

IInv ==
    /\ TypeOK
    /\ PhaseInv
    /\ InflightInv
    /\ CachedIsOpen
    /\ ParkedInv
    /\ OneCurrent
    /\ CountCovers
    /\ ClosedIsUnreferenced
    /\ NoLeak
    /\ DrainKnows
    /\ ShutdownDrains

(* What the exception in InUseIsOpen rests on: an entry that waits to be      *)
(* handed over is younger than the others in the cache, but for those used    *)
(* since, ...                                                                *)
YoungestButUsed(e) ==
    phase[e] = "resolved" /\ e \in cache =>
        \A f \in cache \ {e} : <<f, e>> \in older \/ keyOf[f] \in meanwhile[e]

(* ... so that an eviction takes it only after Max of them.                   *)
LeftInRush(e) ==
    (phase[e] = "resolved" /\ e \notin cache) \/ phase[e] = "stillborn" =>
        \/ Cardinality(meanwhile[e]) >= Max
        \/ ~Tracked(e)
        \/ drain \notin {"none", "waiting"}

HandoverInv ==
    /\ IsFiniteSet(cache)
    /\ \A e \in Entry : IsFiniteSet(meanwhile[e]) /\ YoungestButUsed(e) /\ LeftInRush(e)

(* What holds besides when everything fits: a call waits or uses, a           *)
(* promise is recorded until it is continued, nothing is evicted while in     *)
(* use, and only entries that nobody uses expire.                            *)
WaitsOrUses == \A c \in Call : awaits[c] = NoEntry \/ holds[c] = NoEntry

NoneParked == \A k \in Key : evicted[k] = NoEntry

StaleUnused == \A e \in stale : Holders(e) = {} /\ phase[e] # "resolved"

ExactEntry(e) ==
    /\ Opened(e) => refCount[e] = Cardinality(Holders(e))
    /\ phase[e] \in {"opening", "resolved", "rejected"} => inflight[keyOf[e]] = e
    /\ phase[e] \in {"opening", "rejected"} => Cached(keyOf[e]) = {}
    /\ phase[e] = "resolved" => e \in cache
    /\ phase[e] # "stillborn"

FitsInv ==
    Fits =>
        /\ overlap = {} /\ WaitsOrUses
        /\ drain \in {"none", "waiting"} =>
             NoneParked /\ StaleUnused /\ \A e \in Entry : ExactEntry(e)
=============================================================================
