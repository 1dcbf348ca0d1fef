------------------------- MODULE ConnectionPoolProofs -------------------------
(***************************************************************************)
(* For any set of repositories, finite set of calls, set of entries and    *)
(* capacity: IInv is an inductive invariant of ConnectionPool, and         *)
(* HandoverInv and FitsInv are invariants relative to it.                  *)
(***************************************************************************)
EXTENDS ConnectionPool, FiniteSetTheorems, TLAPS

USE PoolAssumption

(* What dispose does to a set D of cached entries, entry by entry. *)
LEMMA DisposeEffect ==
    ASSUME TypeOK, PhaseInv, CachedIsOpen, NEW D \in SUBSET cache
    PROVE  /\ ClosedBy(D) \in [Entry -> BOOLEAN]
           /\ \A e \in Entry : ClosedBy(D)[e] <=> closed[e] \/ (e \in D /\ refCount[e] = 0)
           /\ PendingBy(D) \in [Entry -> BOOLEAN]
           /\ \A e \in Entry : PendingBy(D)[e] <=> closePending[e] \/ (e \in D /\ refCount[e] # 0)
           /\ ParkedBy(D) \in [Key -> Entry \cup {NoEntry}]
           /\ \A k \in Key : \/ ParkedBy(D)[k] = evicted[k]
                             \/ /\ ParkedBy(D)[k] \in D
                                /\ keyOf[ParkedBy(D)[k]] = k
                                /\ refCount[ParkedBy(D)[k]] # 0
           /\ \A e \in D : refCount[e] # 0 => ParkedBy(D)[keyOf[e]] = e
           /\ \A k \in Key : (\A e \in D : keyOf[e] # k) => ParkedBy(D)[k] = evicted[k]
           /\ InflightAfter(D) \in [Key -> Entry \cup {NoEntry}]
           /\ \A k \in Key : \/ InflightAfter(D)[k] = inflight[k]
                             \/ /\ InflightAfter(D)[k] = NoEntry
                                /\ \E e \in D : keyOf[e] = k
<1>1. /\ ClosedBy(D) \in [Entry -> BOOLEAN]
      /\ \A e \in Entry : ClosedBy(D)[e] <=> closed[e] \/ (e \in D /\ refCount[e] = 0)
  BY DEF ClosedBy, DisposeIdle, TypeOK, CachedIsOpen
<1>2. /\ PendingBy(D) \in [Entry -> BOOLEAN]
      /\ \A e \in Entry : PendingBy(D)[e] <=> closePending[e] \/ (e \in D /\ refCount[e] # 0)
  BY DEF PendingBy, DisposeBusy, TypeOK, CachedIsOpen
<1>3. ASSUME NEW k \in Key
      PROVE  /\ ParkedBy(D)[k] \in Entry \cup {NoEntry}
             /\ \/ ParkedBy(D)[k] = evicted[k]
                \/ /\ ParkedBy(D)[k] \in D
                   /\ keyOf[ParkedBy(D)[k]] = k
                   /\ refCount[ParkedBy(D)[k]] # 0
             /\ (\A e \in D : keyOf[e] # k) => ParkedBy(D)[k] = evicted[k]
             /\ \A e \in D : refCount[e] # 0 /\ keyOf[e] = k => ParkedBy(D)[k] = e
  <2>1. CASE \E e \in DisposeBusy(D) : keyOf[e] = k
    <3>1. ParkedBy(D)[k] = CHOOSE e \in DisposeBusy(D) : keyOf[e] = k
      BY <2>1 DEF ParkedBy
    <3>2. ParkedBy(D)[k] \in DisposeBusy(D) /\ keyOf[ParkedBy(D)[k]] = k
      BY <2>1, <3>1
    <3>3. QED
      BY <3>2 DEF DisposeBusy, TypeOK, CachedIsOpen
  <2>2. CASE ~\E e \in DisposeBusy(D) : keyOf[e] = k
    <3>1. ParkedBy(D)[k] = evicted[k]
      BY <2>2 DEF ParkedBy
    <3>2. QED
      BY <2>2, <3>1 DEF DisposeBusy, TypeOK, CachedIsOpen
  <2>3. QED
    BY <2>1, <2>2
<1>4. ParkedBy(D) \in [Key -> Entry \cup {NoEntry}]
  <2>1. ParkedBy(D) = [k \in Key |-> ParkedBy(D)[k]]
    BY DEF ParkedBy
  <2>2. QED
    BY <1>3, <2>1
<1>5. /\ InflightAfter(D) \in [Key -> Entry \cup {NoEntry}]
      /\ \A k \in Key : \/ InflightAfter(D)[k] = inflight[k]
                        \/ /\ InflightAfter(D)[k] = NoEntry
                           /\ \E e \in D : keyOf[e] = k
  BY DEF InflightAfter, TypeOK, CachedIsOpen
<1>6. \A e \in D : keyOf[e] \in Key
  BY DEF TypeOK, PhaseInv, CachedIsOpen, Opened
<1>7. \A e \in D : refCount[e] # 0 => ParkedBy(D)[keyOf[e]] = e
  BY <1>3, <1>6
<1>8. QED
  BY <1>1, <1>2, <1>3, <1>4, <1>5, <1>7

(* The sets of calls at an entry are finite. *)
LEMMA CallSets ==
    ASSUME NEW S \in SUBSET Call
    PROVE  /\ IsFiniteSet(S)
           /\ Cardinality(S) \in Nat
           /\ Cardinality(S) = 0 <=> S = {}
           /\ \A T \in SUBSET S : Cardinality(T) <= Cardinality(S)
<1>1. IsFiniteSet(S)
  BY FS_Subset
<1>2. QED
  BY <1>1, FS_Subset, FS_CardinalityType, FS_EmptySet

(* A union of calls counts at most the two sets. *)
LEMMA CallUnion ==
    ASSUME NEW S \in SUBSET Call, NEW T \in SUBSET Call
    PROVE  Cardinality(S \cup T) <= Cardinality(S) + Cardinality(T)
<1>1. IsFiniteSet(S) /\ IsFiniteSet(T) /\ IsFiniteSet(S \cap T)
  BY CallSets
<1>2. Cardinality(S \cup T) = Cardinality(S) + Cardinality(T) - Cardinality(S \cap T)
  BY <1>1, FS_Union
<1>3. Cardinality(S) \in Nat /\ Cardinality(T) \in Nat /\ Cardinality(S \cap T) \in Nat
  BY <1>1, FS_CardinalityType
<1>4. QED
  BY <1>2, <1>3

(* The entry a release of key k works on. *)
LEMMA TargetOfRelease ==
    ASSUME TypeOK, NEW k \in Key
    PROVE  \/ ReleaseTarget(k) \in cache /\ keyOf[ReleaseTarget(k)] = k
           \/ ReleaseTarget(k) = evicted[k]
<1>1. CASE Fresh(k) # {}
  <2>1. ReleaseTarget(k) = CHOOSE e \in Fresh(k) : TRUE
    BY <1>1 DEF ReleaseTarget
  <2>2. ReleaseTarget(k) \in Fresh(k)
    BY <1>1, <2>1
  <2>3. QED
    BY <2>2 DEF Fresh, Cached
<1>2. CASE Fresh(k) = {}
  BY <1>2 DEF ReleaseTarget
<1>3. QED
  BY <1>1, <1>2

(* The pool starts in the invariant. *)
LEMMA InitIInv == Init => IInv
<1> SUFFICES ASSUME Init PROVE IInv
  OBVIOUS
<1>1. \A e \in Entry : Holders(e) = {} /\ Waiters(e) = {}
  BY DEF Init, Holders, Waiters
<1>2. TypeOK
  BY DEF Init, TypeOK, Phase
<1>3. QED
  BY <1>1, <1>2, FS_EmptySet DEF Init, IInv, PhaseInv, InflightInv, CachedIsOpen, ParkedInv,
     ParkedIsPending, OneCurrent, CountCovers, ClosedIsUnreferenced, NoLeak, DrainKnows,
     ShutdownDrains, Opened

(* A hit adds one holder and one reference. *)
LEMMA HitStep ==
    ASSUME IInv, NEW c \in Call, NEW k \in Key, AcquireHit(c, k)
    PROVE  IInv'
<1> USE DEF IInv
<1>1. PICK e \in Fresh(k) :
        /\ refCount' = [refCount EXCEPT ![e] = @ + 1]
        /\ holds' = [holds EXCEPT ![c] = e]
        /\ older' = Touched(e)
  BY DEF AcquireHit
<1> DEFINE unchanged == /\ phase' = phase /\ keyOf' = keyOf /\ closed' = closed
                        /\ closePending' = closePending /\ cache' = cache /\ stale' = stale
                        /\ inflight' = inflight /\ evicted' = evicted /\ awaits' = awaits
                        /\ drain' = drain /\ drainSet' = drainSet /\ overlap' = overlap
<1>2. unchanged
  BY DEF AcquireHit, drainVars
<1>3. /\ e \in Entry /\ e \in cache /\ Opened(e) /\ ~closed[e]
      /\ holds[c] = NoEntry
  BY DEF Fresh, Cached, TypeOK, CachedIsOpen, AcquireHit, Idle
<1>4. \A f \in Entry : Waiters(f)' = Waiters(f)
  BY <1>2 DEF Waiters
<1>5. \A f \in Entry : Holders(f)' = IF f = e THEN Holders(f) \cup {c} ELSE Holders(f)
  BY <1>1, <1>3 DEF Holders, TypeOK
<1>6. TypeOK'
  <2>1. meanwhile' = UsedBetween(k)
    BY DEF AcquireHit
  <2>2. meanwhile' \in [Entry -> SUBSET Key]
    BY <2>1 DEF UsedBetween, TypeOK
  <2>3. older' \subseteq Entry \X Entry /\ refCount' \in [Entry -> Nat]
        /\ holds' \in [Call -> Entry \cup {NoEntry}]
    BY <1>1, <1>3 DEF TypeOK, Touched
  <2>4. QED
    BY <1>2, <2>2, <2>3 DEF TypeOK
<1>7. \A f \in Entry : Opened(f)' = Opened(f) /\ Tracked(f)' = Tracked(f)
  BY <1>2 DEF Opened, Tracked
<1>8. PhaseInv'
  BY <1>1, <1>2, <1>3, <1>4, <1>5 DEF PhaseInv, TypeOK, Opened
<1>9. InflightInv' /\ CachedIsOpen' /\ ParkedInv'
  BY <1>1, <1>2, <1>7 DEF InflightInv, CachedIsOpen, ParkedInv, ParkedIsPending, TypeOK
<1>10. \A f \in Entry : Over(f) => Over(f)'
  BY <1>2, <1>3, <1>5 DEF Over, OverAfter, Opened
<1>11. OneCurrent'
  BY <1>2, <1>7, <1>10 DEF OneCurrent
<1>12. CountCovers'
  <2> SUFFICES ASSUME NEW f \in Entry, Opened(f), Tracked(f)
               PROVE  Cardinality(Holders(f)') <= refCount'[f]
    BY <1>7 DEF CountCovers
  <2>1. Cardinality(Holders(f)) <= refCount[f]
    BY DEF CountCovers
  <2>2. /\ IsFiniteSet(Holders(f)) /\ Cardinality(Holders(f)) \in Nat
        /\ c \notin Holders(f)
    BY <1>3, CallSets DEF Holders
  <2>3. Cardinality(Holders(f) \cup {c}) = Cardinality(Holders(f)) + 1
    BY <2>2, FS_AddElement
  <2>4. CASE f = e
    <3>1. Holders(f)' = Holders(f) \cup {c} /\ refCount'[f] = refCount[f] + 1
      BY <1>1, <1>3, <1>5, <2>4 DEF TypeOK
    <3>2. QED
      BY <2>1, <2>2, <2>3, <3>1 DEF TypeOK
  <2>5. CASE f # e
    <3>1. Holders(f)' = Holders(f) /\ refCount'[f] = refCount[f]
      BY <1>1, <1>5, <2>5 DEF TypeOK
    <3>2. QED
      BY <2>1, <3>1
  <2>6. QED
    BY <2>4, <2>5
<1>13. ClosedIsUnreferenced'
  BY <1>1, <1>2, <1>3 DEF ClosedIsUnreferenced, TypeOK
<1>14. NoLeak' /\ DrainKnows' /\ ShutdownDrains'
  BY <1>2, <1>7 DEF NoLeak, DrainKnows, ShutdownDrains
<1>15. QED
  BY <1>6, <1>8, <1>9, <1>11, <1>12, <1>13, <1>14

(* Waiting for a recorded promise takes nothing. *)
LEMMA JoinStep ==
    ASSUME IInv, NEW c \in Call, NEW k \in Key, AcquireJoin(c, k)
    PROVE  IInv'
<1> USE DEF IInv
<1>1. /\ entryVars' = entryVars /\ lruVars' = lruVars /\ inflight' = inflight
      /\ evicted' = evicted /\ holds' = holds /\ drainVars' = drainVars
      /\ overlap' = overlap /\ meanwhile' = meanwhile /\ awaits' = [awaits EXCEPT ![c] = inflight[k]]
      /\ inflight[k] # NoEntry
  BY DEF AcquireJoin
<1> USE DEF entryVars, lruVars, drainVars
<1>2. TypeOK'
  BY <1>1 DEF TypeOK
<1>3. \A f \in Entry : Holders(f)' = Holders(f) /\ Opened(f)' = Opened(f) /\ Tracked(f)' = Tracked(f)
  BY <1>1 DEF Holders, Opened, Tracked
<1>4. \A f \in Entry : Waiters(f)' # {} => Waiters(f) # {} \/ f = inflight[k]
  BY <1>1 DEF Waiters, TypeOK
<1>5. PhaseInv'
  BY <1>1, <1>3, <1>4 DEF PhaseInv, InflightInv
<1>6. InflightInv' /\ CachedIsOpen' /\ ParkedInv' /\ ClosedIsUnreferenced'
  BY <1>1, <1>3 DEF InflightInv, CachedIsOpen, ParkedInv, ParkedIsPending, TypeOK, ClosedIsUnreferenced
<1>7. OneCurrent'
  BY <1>1, <1>3 DEF OneCurrent, Over, OverAfter
<1>8. CountCovers'
  BY <1>1, <1>3 DEF CountCovers
<1>9. NoLeak' /\ DrainKnows' /\ ShutdownDrains'
  BY <1>1, <1>3 DEF NoLeak, DrainKnows, ShutdownDrains
<1>10. QED
  BY <1>2, <1>5, <1>6, <1>7, <1>8, <1>9

(* An open may dispose the expired entry of its key; a second open of a key
   that is not over ends the tracking of that key. *)
LEMMA OpenStep ==
    ASSUME IInv, NEW c \in Call, NEW k \in Key, NEW e \in Entry, AcquireOpen(c, k, e)
    PROVE  IInv'
<1> USE DEF IInv
<1> DEFINE expired == Cached(k)
<1>1. /\ phase[e] = "free" /\ drain = "none"
      /\ closed' = ClosedBy(expired) /\ closePending' = PendingBy(expired)
      /\ evicted' = ParkedBy(expired) /\ cache' = cache \ expired
      /\ older' = {p \in older : p[1] \notin expired /\ p[2] \notin expired}
      /\ stale' = stale \ expired
      /\ overlap' = IF \A f \in {g \in Entry : keyOf[g] = k} : OverAfter(f, closed')
                    THEN overlap ELSE overlap \cup {k}
      /\ phase' = [phase EXCEPT ![e] = "opening"]
      /\ keyOf' = [keyOf EXCEPT ![e] = k]
      /\ inflight' = [inflight EXCEPT ![k] = e]
      /\ awaits' = [awaits EXCEPT ![c] = e]
      /\ refCount' = refCount /\ holds' = holds /\ drain' = drain /\ drainSet' = drainSet
      /\ meanwhile' = meanwhile
  BY DEF AcquireOpen, disposed, drainVars
<1>2. expired \in SUBSET cache /\ \A f \in expired : keyOf[f] = k
  BY DEF Cached
<1>3. /\ closed' \in [Entry -> BOOLEAN]
      /\ \A f \in Entry : closed'[f] <=> closed[f] \/ (f \in expired /\ refCount[f] = 0)
      /\ closePending' \in [Entry -> BOOLEAN]
      /\ \A f \in Entry : closePending'[f] <=> closePending[f] \/ (f \in expired /\ refCount[f] # 0)
      /\ evicted' \in [Key -> Entry \cup {NoEntry}]
      /\ \A j \in Key : \/ evicted'[j] = evicted[j]
                        \/ /\ evicted'[j] \in expired
                           /\ keyOf[evicted'[j]] = j
                           /\ refCount[evicted'[j]] # 0
      /\ \A f \in expired : refCount[f] # 0 => evicted'[keyOf[f]] = f
      /\ \A j \in Key : (\A f \in expired : keyOf[f] # j) => evicted'[j] = evicted[j]
  BY <1>1, <1>2, DisposeEffect
<1>4. keyOf[e] = NoKey /\ e \notin cache /\ (\A j \in Key : evicted[j] # e)
      /\ Holders(e) = {} /\ Waiters(e) = {} /\ ~closed[e] /\ ~closePending[e] /\ refCount[e] = 0
  BY <1>1 DEF PhaseInv, CachedIsOpen, ParkedInv, Opened
<1>5. TypeOK'
  <2>1. /\ phase' \in [Entry -> Phase] /\ keyOf' \in [Entry -> Key \cup {NoKey}]
        /\ inflight' \in [Key -> Entry \cup {NoEntry}] /\ awaits' \in [Call -> Entry \cup {NoEntry}]
    BY <1>1 DEF TypeOK, Phase
  <2>2. overlap' \subseteq Key /\ cache' \subseteq Entry /\ stale' \subseteq cache'
    BY <1>1 DEF TypeOK
  <2>3. older' \subseteq Entry \X Entry
    BY <1>1 DEF TypeOK
  <2>4. QED
    BY <1>1, <1>3, <2>1, <2>2, <2>3 DEF TypeOK
<1>6. \A f \in Entry : Holders(f)' = Holders(f)
  BY <1>1 DEF Holders
<1>7. \A f \in Entry : f # e => /\ phase'[f] = phase[f] /\ keyOf'[f] = keyOf[f]
                                /\ Opened(f)' = Opened(f)
  BY <1>1 DEF Opened, TypeOK
<1>8. phase'[e] = "opening" /\ keyOf'[e] = k /\ ~Opened(e)'
  BY <1>1 DEF Opened, TypeOK
<1>9. \A f \in Entry : Waiters(f)' # {} => Waiters(f) # {} \/ f = e
  BY <1>1 DEF Waiters, TypeOK
<1>10. PhaseInv'
  <2> SUFFICES ASSUME NEW f \in Entry
               PROVE  /\ (phase'[f] = "free") <=> (keyOf'[f] = NoKey)
                      /\ phase'[f] \in {"free", "opening", "rejected", "failed"} =>
                           refCount'[f] = 0 /\ ~closed'[f] /\ ~closePending'[f] /\ Holders(f)' = {}
                      /\ Waiters(f)' # {} => phase'[f] \in {"opening", "resolved", "rejected"}
    BY DEF PhaseInv
  <2>1. CASE f = e
    BY <1>1, <1>2, <1>3, <1>4, <1>6, <1>8, <2>1
  <2>2. CASE f # e
    <3>1. f \in expired => Opened(f)
      BY <1>2 DEF CachedIsOpen
    <3>2. QED
      BY <1>1, <1>3, <1>6, <1>7, <1>9, <2>2, <3>1 DEF PhaseInv, Opened
  <2>3. QED
    BY <2>1, <2>2
<1>11. InflightInv'
  BY <1>1, <1>4, <1>7, <1>8 DEF InflightInv, TypeOK
<1>12. CachedIsOpen'
  BY <1>1, <1>2, <1>3, <1>4, <1>7 DEF CachedIsOpen, TypeOK
<1>13. ParkedInv'
  <2> SUFFICES ASSUME NEW j \in Key, evicted'[j] # NoEntry
               PROVE  /\ keyOf'[evicted'[j]] = j /\ evicted'[j] \notin cache'
                      /\ closePending'[evicted'[j]] /\ ~closed'[evicted'[j]]
                      /\ phase'[evicted'[j]] \in {"resolved", "live", "stillborn"}
    BY DEF ParkedInv, ParkedIsPending, Opened
  <2>1. CASE evicted'[j] = evicted[j]
    <3>1. /\ evicted[j] \in Entry /\ evicted[j] # e /\ evicted[j] \notin cache
          /\ keyOf[evicted[j]] = j /\ closePending[evicted[j]] /\ ~closed[evicted[j]]
          /\ phase[evicted[j]] \in {"resolved", "live", "stillborn"}
      BY <1>4, <2>1 DEF ParkedInv, ParkedIsPending, TypeOK, Opened
    <3>2. QED
      BY <1>1, <1>2, <1>3, <1>7, <2>1, <3>1
  <2>2. CASE evicted'[j] \in expired /\ keyOf[evicted'[j]] = j /\ refCount[evicted'[j]] # 0
    <3>1. /\ evicted'[j] \in Entry /\ evicted'[j] # e /\ ~closed[evicted'[j]]
          /\ phase[evicted'[j]] \in {"resolved", "live", "stillborn"}
      BY <1>2, <1>4, <2>2 DEF CachedIsOpen, TypeOK, Opened
    <3>2. QED
      BY <1>1, <1>3, <1>7, <2>2, <3>1
  <2>3. QED
    BY <1>3, <2>1, <2>2
<1>14. overlap \subseteq overlap' /\ \A f \in Entry : Tracked(f)' /\ f # e => Tracked(f)
  BY <1>1, <1>7 DEF Tracked
<1>15. \A f \in Entry : f # e /\ Over(f) => Over(f)'
  BY <1>3, <1>6, <1>7 DEF Over, OverAfter
<1>16. Tracked(e)' => \A f \in Entry : f # e /\ keyOf[f] = k => Over(f)'
  BY <1>1, <1>6, <1>7, <1>8 DEF Tracked, Over, OverAfter
<1>17. OneCurrent'
  <2> SUFFICES ASSUME NEW f \in Entry, NEW g \in Entry, keyOf'[f] = keyOf'[g],
                      keyOf'[f] # NoKey, Tracked(f)', f # g
               PROVE  Over(f)' \/ Over(g)'
    BY DEF OneCurrent
  <2>1. Tracked(g)'
    BY DEF Tracked
  <2>2. CASE f = e
    BY <1>7, <1>8, <1>16, <2>2
  <2>3. CASE g = e
    BY <1>7, <1>8, <1>16, <2>1, <2>3
  <2>4. CASE f # e /\ g # e
    BY <1>7, <1>14, <1>15, <2>4 DEF OneCurrent
  <2>5. QED
    BY <2>2, <2>3, <2>4
<1>18. CountCovers'
  <2> SUFFICES ASSUME NEW f \in Entry, Opened(f)', Tracked(f)'
               PROVE  Cardinality(Holders(f)') <= refCount'[f]
    BY DEF CountCovers
  <2>1. f # e /\ Opened(f) /\ Tracked(f)
    BY <1>7, <1>8, <1>14
  <2>2. Cardinality(Holders(f)) <= refCount[f]
    BY <2>1 DEF CountCovers
  <2>3. QED
    BY <1>1, <1>6, <2>2
<1>19. ClosedIsUnreferenced'
  BY <1>1, <1>3, <1>7, <1>8 DEF ClosedIsUnreferenced
<1>20. NoLeak'
  <2> SUFFICES ASSUME NEW f \in Entry, Opened(f)', ~closed'[f], Tracked(f)'
               PROVE  f \in cache' \/ evicted'[keyOf'[f]] = f
    BY DEF NoLeak
  <2>1. f # e /\ Opened(f) /\ Tracked(f) /\ ~closed[f] /\ keyOf'[f] = keyOf[f]
    BY <1>3, <1>7, <1>8, <1>14
  <2>2. CASE f \in expired
    BY <1>3, <2>1, <2>2
  <2>3. CASE f \notin expired
    <3>1. keyOf[f] # k \/ f \notin cache
      BY <2>3 DEF Cached
    <3>2. f \in cache \/ evicted[keyOf[f]] = f
      BY <2>1 DEF NoLeak
    <3>3. CASE f \in cache
      BY <1>1, <2>3, <3>3
    <3>4. CASE evicted[keyOf[f]] = f /\ keyOf[f] # k
      BY <1>2, <1>3, <2>1, <3>4 DEF TypeOK, PhaseInv, Opened
    <3>5. CASE evicted[keyOf[f]] = f /\ keyOf[f] = k
      <4>1. Over(f)'
        BY <1>1, <1>6, <1>7, <2>1, <3>5 DEF Tracked, Over, OverAfter
      <4>2. QED
        BY <1>7, <2>1, <4>1 DEF Over, OverAfter, Opened
    <3>6. QED
      BY <3>2, <3>3, <3>4, <3>5
  <2>4. QED
    BY <2>2, <2>3
<1>21. DrainKnows'
  <2> SUFFICES ASSUME NEW f \in Entry, phase'[f] = "opening", Tracked(f)'
               PROVE  inflight'[keyOf'[f]] = f
    BY <1>1 DEF DrainKnows
  <2>1. CASE f = e
    BY <1>1, <1>8, <2>1 DEF TypeOK
  <2>2. CASE f # e
    <3>1. phase[f] = "opening" /\ Tracked(f) /\ keyOf'[f] = keyOf[f] /\ keyOf[f] \in Key
      BY <1>7, <1>14, <2>2 DEF PhaseInv, TypeOK
    <3>2. inflight[keyOf[f]] = f
      BY <1>1, <3>1 DEF DrainKnows
    <3>3. keyOf[f] # k
      <4> SUFFICES ASSUME keyOf[f] = k PROVE FALSE
        OBVIOUS
      <4>1. ~OverAfter(f, closed')
        BY <3>1 DEF OverAfter
      <4>2. k \in overlap'
        BY <1>1, <4>1
      <4>3. QED
        BY <3>1, <4>2 DEF Tracked
    <3>4. QED
      BY <1>1, <3>1, <3>2, <3>3 DEF TypeOK
  <2>3. QED
    BY <2>1, <2>2
<1>22. ShutdownDrains'
  BY <1>1 DEF ShutdownDrains
<1>23. QED
  BY <1>5, <1>10, <1>11, <1>12, <1>13, <1>17, <1>18, <1>19, <1>20, <1>21, <1>22

(* The new entry enters the cache; the one it displaces is closed or parked. *)
LEMMA ResolveStep ==
    ASSUME IInv, NEW e \in Entry, FactoryResolves(e)
    PROVE  IInv'
<1> USE DEF IInv
<1>1. PICK gone \in SUBSET cache :
        /\ IF Cached(keyOf[e]) # {} THEN gone = Cached(keyOf[e])
           ELSE IF Cardinality(cache) >= Max
                THEN \E v \in LeastRecent : gone = {v}
                ELSE gone = {}
        /\ closed' = ClosedBy(gone) /\ closePending' = PendingBy(gone)
        /\ evicted' = ParkedBy(gone) /\ inflight' = InflightAfter(gone)
        /\ cache' = (cache \ gone) \cup {e}
        /\ older' = {p \in older : p[1] \notin gone /\ p[2] \notin gone}
                      \cup {<<f, e>> : f \in cache \ gone}
        /\ stale' = stale \ gone
  BY DEF FactoryResolves
<1>2. /\ phase[e] = "opening" /\ phase' = [phase EXCEPT ![e] = "resolved"]
      /\ keyOf' = keyOf /\ refCount' = refCount /\ awaits' = awaits /\ holds' = holds
      /\ drain' = drain /\ drainSet' = drainSet /\ overlap' = overlap
  BY DEF FactoryResolves, callVars, drainVars
<1>3. Cached(keyOf[e]) \subseteq gone
  <2>1. CASE Cached(keyOf[e]) # {}
    BY <1>1, <2>1
  <2>2. CASE Cached(keyOf[e]) = {}
    BY <2>2
  <2>3. QED
    BY <2>1, <2>2
<1>4. /\ closed' \in [Entry -> BOOLEAN]
      /\ \A f \in Entry : closed'[f] <=> closed[f] \/ (f \in gone /\ refCount[f] = 0)
      /\ closePending' \in [Entry -> BOOLEAN]
      /\ \A f \in Entry : closePending'[f] <=> closePending[f] \/ (f \in gone /\ refCount[f] # 0)
      /\ evicted' \in [Key -> Entry \cup {NoEntry}]
      /\ \A j \in Key : \/ evicted'[j] = evicted[j]
                        \/ /\ evicted'[j] \in gone
                           /\ keyOf[evicted'[j]] = j
                           /\ refCount[evicted'[j]] # 0
      /\ \A f \in gone : refCount[f] # 0 => evicted'[keyOf[f]] = f
      /\ \A j \in Key : (\A f \in gone : keyOf[f] # j) => evicted'[j] = evicted[j]
      /\ inflight' \in [Key -> Entry \cup {NoEntry}]
      /\ \A j \in Key : \/ inflight'[j] = inflight[j]
                        \/ inflight'[j] = NoEntry /\ \E f \in gone : keyOf[f] = j
  BY <1>1, DisposeEffect
<1>5. keyOf[e] \in Key /\ e \notin cache /\ e \notin gone /\ (\A j \in Key : evicted[j] # e)
      /\ Holders(e) = {} /\ ~closed[e] /\ ~closePending[e] /\ refCount[e] = 0 /\ ~Over(e)
  BY <1>1, <1>2 DEF PhaseInv, CachedIsOpen, ParkedInv, Opened, TypeOK, Over, OverAfter
<1>6. \A f \in Entry : /\ Holders(f)' = Holders(f) /\ Waiters(f)' = Waiters(f)
                       /\ Tracked(f)' = Tracked(f)
  BY <1>2 DEF Holders, Waiters, Tracked
<1>7. \A f \in Entry : f # e => phase'[f] = phase[f] /\ Opened(f)' = Opened(f)
  BY <1>2 DEF Opened, TypeOK
<1>8. phase'[e] = "resolved" /\ Opened(e)' /\ ~closed'[e] /\ ~closePending'[e]
  BY <1>2, <1>4, <1>5 DEF Opened, TypeOK
<1>9. \A f \in gone : f \in Entry /\ f \in cache /\ Opened(f) /\ ~closed[f] /\ ~closePending[f]
  BY <1>1 DEF CachedIsOpen, TypeOK
<1>10. TypeOK'
  <2>1. phase' \in [Entry -> Phase] /\ cache' \subseteq Entry /\ stale' \subseteq cache'
    BY <1>1, <1>2 DEF TypeOK, Phase
  <2>2. older' \subseteq Entry \X Entry
    BY <1>1 DEF TypeOK
  <2>3. meanwhile' = UsedBetween(keyOf[e])
    BY DEF FactoryResolves
  <2>4. meanwhile' \in [Entry -> SUBSET Key]
    BY <1>5, <2>3 DEF UsedBetween, TypeOK
  <2>5. QED
    BY <1>2, <1>4, <2>1, <2>2, <2>4 DEF TypeOK
<1>11. PhaseInv'
  <2> SUFFICES ASSUME NEW f \in Entry
               PROVE  /\ (phase'[f] = "free") <=> (keyOf'[f] = NoKey)
                      /\ phase'[f] \in {"free", "opening", "rejected", "failed"} =>
                           refCount'[f] = 0 /\ ~closed'[f] /\ ~closePending'[f] /\ Holders(f)' = {}
                      /\ Waiters(f)' # {} => phase'[f] \in {"opening", "resolved", "rejected"}
    BY DEF PhaseInv
  <2>1. CASE f = e
    BY <1>2, <1>5, <1>8, <2>1
  <2>2. CASE f # e
    BY <1>2, <1>4, <1>6, <1>7, <1>9, <2>2 DEF PhaseInv, Opened
  <2>3. QED
    BY <2>1, <2>2
<1>12. InflightInv'
  <2> SUFFICES ASSUME NEW j \in Key, inflight'[j] # NoEntry
               PROVE  /\ keyOf'[inflight'[j]] = j
                      /\ phase'[inflight'[j]] \in {"opening", "resolved", "rejected"}
    BY DEF InflightInv
  <2>1. inflight'[j] = inflight[j] /\ inflight[j] \in Entry
    BY <1>4 DEF TypeOK
  <2>2. QED
    BY <1>2, <1>7, <1>8, <2>1 DEF InflightInv
<1>13. CachedIsOpen'
  <2>1. ASSUME NEW f \in cache'
        PROVE  f \in Entry /\ Opened(f)' /\ ~closed'[f] /\ ~closePending'[f]
    BY <1>1, <1>4, <1>7, <1>8 DEF CachedIsOpen, TypeOK
  <2>2. ASSUME NEW f \in cache', NEW g \in cache', keyOf'[f] = keyOf'[g]
        PROVE  f = g
    BY <1>1, <1>2, <1>3, <2>2 DEF CachedIsOpen, Cached
  <2>3. QED
    BY <2>1, <2>2 DEF CachedIsOpen
<1>14. ParkedInv'
  <2> SUFFICES ASSUME NEW j \in Key, evicted'[j] # NoEntry
               PROVE  /\ keyOf'[evicted'[j]] = j /\ evicted'[j] \notin cache'
                      /\ closePending'[evicted'[j]] /\ ~closed'[evicted'[j]]
                      /\ phase'[evicted'[j]] \in {"resolved", "live", "stillborn"}
    BY DEF ParkedInv, ParkedIsPending, Opened
  <2>1. CASE evicted'[j] = evicted[j]
    <3>1. /\ evicted[j] \in Entry /\ evicted[j] # e /\ evicted[j] \notin cache
          /\ keyOf[evicted[j]] = j /\ closePending[evicted[j]] /\ ~closed[evicted[j]]
          /\ phase[evicted[j]] \in {"resolved", "live", "stillborn"}
      BY <1>5, <2>1 DEF ParkedInv, ParkedIsPending, TypeOK, Opened
    <3>2. QED
      BY <1>1, <1>2, <1>4, <1>7, <2>1, <3>1
  <2>2. CASE evicted'[j] \in gone /\ keyOf[evicted'[j]] = j /\ refCount[evicted'[j]] # 0
    <3>1. /\ evicted'[j] \in Entry /\ evicted'[j] # e /\ ~closed[evicted'[j]]
          /\ phase[evicted'[j]] \in {"resolved", "live", "stillborn"}
      BY <1>5, <1>9, <2>2 DEF Opened
    <3>2. QED
      BY <1>1, <1>2, <1>4, <1>7, <2>2, <3>1
  <2>3. QED
    BY <1>4, <2>1, <2>2
<1>15. \A f \in Entry : Over(f) => Over(f)'
  BY <1>4, <1>5, <1>6, <1>7 DEF Over, OverAfter
<1>16. OneCurrent'
  <2> SUFFICES ASSUME NEW f \in Entry, NEW g \in Entry, keyOf'[f] = keyOf'[g],
                      keyOf'[f] # NoKey, Tracked(f)', f # g
               PROVE  Over(f)' \/ Over(g)'
    BY DEF OneCurrent
  <2>1. QED
    BY <1>2, <1>6, <1>15 DEF OneCurrent
<1>17. CountCovers'
  <2> SUFFICES ASSUME NEW f \in Entry, Opened(f)', Tracked(f)'
               PROVE  Cardinality(Holders(f)') <= refCount'[f]
    BY DEF CountCovers
  <2>1. CASE f = e
    <3>1. Holders(f)' = {} /\ refCount'[f] = 0
      BY <1>2, <1>5, <1>6, <2>1
    <3>2. QED
      BY <3>1, FS_EmptySet
  <2>2. CASE f # e
    <3>1. Cardinality(Holders(f)) <= refCount[f]
      BY <1>6, <1>7, <2>2 DEF CountCovers
    <3>2. QED
      BY <1>2, <1>6, <3>1
  <2>3. QED
    BY <2>1, <2>2
<1>18. ClosedIsUnreferenced'
  BY <1>2, <1>4, <1>7, <1>8 DEF ClosedIsUnreferenced
<1>19. NoLeak'
  <2> SUFFICES ASSUME NEW f \in Entry, Opened(f)', ~closed'[f], Tracked(f)'
               PROVE  f \in cache' \/ evicted'[keyOf'[f]] = f
    BY DEF NoLeak
  <2>1. CASE f = e
    BY <1>1, <2>1
  <2>2. CASE f \in gone
    BY <1>2, <1>4, <1>9, <2>2
  <2>3. CASE f # e /\ f \notin gone
    <3>1. Opened(f) /\ Tracked(f) /\ ~closed[f] /\ keyOf'[f] = keyOf[f]
      BY <1>2, <1>4, <1>6, <1>7, <2>3
    <3>2. f \in cache \/ evicted[keyOf[f]] = f
      BY <3>1 DEF NoLeak
    <3>3. CASE f \in cache
      BY <1>1, <2>3, <3>3
    <3>4. CASE evicted[keyOf[f]] = f
      <4>1. keyOf[f] \in Key
        BY <3>1 DEF PhaseInv, TypeOK, Opened
      <4>2. ASSUME NEW g \in gone, keyOf[g] = keyOf[f] PROVE FALSE
        <5>1. Over(f) \/ Over(g)
          BY <1>9, <2>3, <3>1, <4>1, <4>2 DEF OneCurrent
        <5>2. QED
          BY <1>9, <3>1, <4>2, <5>1 DEF Over, OverAfter, Opened
      <4>3. QED
        BY <1>4, <3>1, <3>4, <4>1, <4>2
    <3>5. QED
      BY <3>2, <3>3, <3>4
  <2>4. QED
    BY <2>1, <2>2, <2>3
<1>20. DrainKnows'
  <2> SUFFICES ASSUME NEW f \in Entry, phase'[f] = "opening", Tracked(f)'
               PROVE  /\ drain' = "none" => inflight'[keyOf'[f]] = f
                      /\ drain' = "waiting" => f \in drainSet'
    BY DEF DrainKnows
  <2>1. f # e /\ phase[f] = "opening" /\ Tracked(f) /\ keyOf'[f] = keyOf[f] /\ keyOf[f] \in Key
    BY <1>2, <1>6, <1>7, <1>8 DEF PhaseInv, TypeOK
  <2>2. ASSUME NEW g \in gone, keyOf[g] = keyOf[f] PROVE FALSE
    <3>1. f # g
      BY <1>9, <2>1 DEF Opened
    <3>2. Over(f) \/ Over(g)
      BY <1>9, <2>1, <2>2, <3>1 DEF OneCurrent
    <3>3. QED
      BY <1>9, <2>1, <3>2 DEF Over, OverAfter, Opened
  <2>3. QED
    BY <1>2, <1>4, <2>1, <2>2 DEF DrainKnows
<1>21. ShutdownDrains'
  <2> SUFFICES ASSUME drain \in {"closing", "done"}, NEW f \in Entry, Tracked(f)
               PROVE  phase'[f] # "opening" /\ (Opened(f)' => closed'[f])
    BY <1>2, <1>6 DEF ShutdownDrains
  <2>1. f # e
    BY <1>2 DEF ShutdownDrains
  <2>2. QED
    BY <1>4, <1>7, <2>1 DEF ShutdownDrains
<1>22. QED
  BY <1>10, <1>11, <1>12, <1>13, <1>14, <1>16, <1>17, <1>18, <1>19, <1>20, <1>21

(* An open that failed leaves nothing behind. *)
LEMMA RejectStep ==
    ASSUME IInv, NEW e \in Entry, FactoryRejects(e)
    PROVE  IInv'
<1> USE DEF IInv
<1>1. /\ phase[e] = "opening" /\ phase' = [phase EXCEPT ![e] = "rejected"]
      /\ keyOf' = keyOf /\ refCount' = refCount /\ closed' = closed
      /\ closePending' = closePending /\ lruVars' = lruVars /\ inflight' = inflight
      /\ evicted' = evicted /\ callVars' = callVars /\ drainVars' = drainVars
      /\ overlap' = overlap /\ meanwhile' = meanwhile
  BY DEF FactoryRejects
<1> USE DEF lruVars, callVars, drainVars
<1>2. \A f \in Entry : /\ Holders(f)' = Holders(f) /\ Waiters(f)' = Waiters(f)
                       /\ Tracked(f)' = Tracked(f) /\ Opened(f)' = Opened(f)
  BY <1>1 DEF Holders, Waiters, Tracked, Opened, TypeOK
<1>3. \A f \in Entry : /\ f # e => phase'[f] = phase[f]
                       /\ phase'[e] = "rejected"
                       /\ Over(f) => Over(f)'
  BY <1>1, <1>2 DEF TypeOK, Over, OverAfter
<1>4. TypeOK'
  BY <1>1 DEF TypeOK, Phase
<1>5. PhaseInv'
  BY <1>1, <1>2, <1>3 DEF PhaseInv
<1>6. InflightInv' /\ CachedIsOpen' /\ ParkedInv' /\ ClosedIsUnreferenced'
  BY <1>1, <1>2, <1>3 DEF InflightInv, CachedIsOpen, ParkedInv, ParkedIsPending, TypeOK,
     ClosedIsUnreferenced
<1>7. OneCurrent'
  BY <1>1, <1>2, <1>3 DEF OneCurrent
<1>8. CountCovers'
  BY <1>1, <1>2 DEF CountCovers
<1>9. NoLeak' /\ DrainKnows' /\ ShutdownDrains'
  BY <1>1, <1>2, <1>3 DEF NoLeak, DrainKnows, ShutdownDrains
<1>10. QED
  BY <1>4, <1>5, <1>6, <1>7, <1>8, <1>9

(* The waiters become holders, and the counter grows by as many. *)
LEMMA ContinueStep ==
    ASSUME IInv, NEW e \in Entry, Continue(e)
    PROVE  IInv'
<1> USE DEF IInv
<1>1. /\ phase[e] \in {"resolved", "rejected"}
      /\ awaits' = [c \in Call |-> IF c \in Waiters(e) THEN NoEntry ELSE awaits[c]]
      /\ inflight' = [inflight EXCEPT ![keyOf[e]] = NoEntry]
      /\ \/ /\ phase[e] = "resolved"
            /\ refCount' = [refCount EXCEPT ![e] = @ + Cardinality(Waiters(e))]
            /\ holds' = [c \in Call |-> IF c \in Waiters(e) THEN e ELSE holds[c]]
            /\ phase' = [phase EXCEPT ![e] = IF closed[e] THEN "stillborn" ELSE "live"]
         \/ /\ phase[e] = "rejected"
            /\ phase' = [phase EXCEPT ![e] = "failed"]
            /\ refCount' = refCount /\ holds' = holds
      /\ keyOf' = keyOf /\ closed' = closed /\ closePending' = closePending
      /\ lruVars' = lruVars /\ evicted' = evicted /\ drainVars' = drainVars
      /\ overlap' = overlap
  BY DEF Continue, References
<1> USE DEF lruVars, drainVars
<1>2. \A f \in Entry : f # e => /\ phase'[f] = phase[f] /\ refCount'[f] = refCount[f]
                                /\ Waiters(f)' = Waiters(f) /\ Holders(f)' \subseteq Holders(f)
  BY <1>1 DEF TypeOK, Waiters, Holders
<1>3. Waiters(e)' = {} /\ Holders(e)' \subseteq Holders(e) \cup Waiters(e)
  BY <1>1 DEF Waiters, Holders, TypeOK
<1>4. Cardinality(Waiters(e)) \in Nat
  BY CallSets DEF Waiters
<1>19. /\ keyOf' = keyOf /\ closed' = closed /\ closePending' = closePending
       /\ cache' = cache /\ older' = older /\ stale' = stale /\ evicted' = evicted
       /\ drain' = drain /\ drainSet' = drainSet /\ overlap' = overlap
       /\ phase[e] = "resolved" \/ phase[e] = "rejected"
  BY <1>1
<1>5. /\ phase[e] = "resolved" =>
           /\ phase'[e] \in {"live", "stillborn"}
           /\ phase'[e] = "live" => ~closed[e]
           /\ refCount'[e] = refCount[e] + Cardinality(Waiters(e))
      /\ phase[e] = "rejected" =>
           /\ phase'[e] = "failed"
           /\ refCount'[e] = refCount[e]
           /\ Holders(e)' = Holders(e)
  BY <1>1 DEF TypeOK, Holders
<1>6. keyOf[e] \in Key /\ ~Over(e)
  BY <1>1 DEF TypeOK, PhaseInv, Over, OverAfter
<1>7. \A f \in Entry : Opened(f)' = Opened(f) /\ Tracked(f)' = Tracked(f)
  <2>1. \A f \in Entry : Tracked(f)' = Tracked(f)
    BY <1>19 DEF Tracked
  <2>2. Opened(e)' = Opened(e)
    BY <1>5, <1>19 DEF Opened
  <2>3. QED
    BY <1>2, <2>1, <2>2 DEF Opened
<1>8. TypeOK'
  <2>1. phase' \in [Entry -> Phase]
    BY <1>1 DEF TypeOK, Phase
  <2>2. refCount' \in [Entry -> Nat]
    BY <1>1, <1>4 DEF TypeOK
  <2>3. awaits' \in [Call -> Entry \cup {NoEntry}]
    BY <1>1 DEF TypeOK
  <2>4. holds' \in [Call -> Entry \cup {NoEntry}]
    BY <1>1 DEF TypeOK
  <2>5. inflight' \in [Key -> Entry \cup {NoEntry}]
    BY <1>1, <1>6 DEF TypeOK
  <2>6. meanwhile' \in [Entry -> SUBSET Key]
    <3>1. meanwhile' = meanwhile \/ meanwhile' = [meanwhile EXCEPT ![e] = {}]
      BY DEF Continue
    <3>2. QED
      BY <3>1 DEF TypeOK
  <2>7. QED
    BY <1>19, <2>1, <2>2, <2>3, <2>4, <2>5, <2>6 DEF TypeOK
<1>9. PhaseInv'
  <2> SUFFICES ASSUME NEW f \in Entry
               PROVE  /\ (phase'[f] = "free") <=> (keyOf'[f] = NoKey)
                      /\ phase'[f] \in {"free", "opening", "rejected", "failed"} =>
                           refCount'[f] = 0 /\ ~closed'[f] /\ ~closePending'[f] /\ Holders(f)' = {}
                      /\ Waiters(f)' # {} => phase'[f] \in {"opening", "resolved", "rejected"}
    BY DEF PhaseInv
  <2>1. CASE f = e
    BY <1>3, <1>5, <1>6, <1>19, <2>1 DEF PhaseInv
  <2>2. CASE f # e
    BY <1>1, <1>2, <2>2 DEF PhaseInv
  <2>3. QED
    BY <2>1, <2>2
<1>10. InflightInv'
  <2> SUFFICES ASSUME NEW j \in Key, inflight'[j] # NoEntry
               PROVE  /\ keyOf'[inflight'[j]] = j
                      /\ phase'[inflight'[j]] \in {"opening", "resolved", "rejected"}
    BY DEF InflightInv
  <2>1. j # keyOf[e] /\ inflight'[j] = inflight[j] /\ inflight[j] \in Entry
    BY <1>1 DEF TypeOK
  <2>2. inflight[j] # e
    BY <2>1 DEF InflightInv
  <2>3. QED
    BY <1>1, <1>2, <2>1, <2>2 DEF InflightInv
<1>11. CachedIsOpen' /\ ParkedInv'
  BY <1>1, <1>7 DEF CachedIsOpen, ParkedInv, ParkedIsPending, TypeOK
<1>12. \A f \in Entry : f # e /\ Over(f) => Over(f)'
  BY <1>1, <1>2 DEF Over, OverAfter
<1>13. OneCurrent'
  <2> SUFFICES ASSUME NEW f \in Entry, NEW g \in Entry, keyOf'[f] = keyOf'[g],
                      keyOf'[f] # NoKey, Tracked(f)', f # g
               PROVE  Over(f)' \/ Over(g)'
    BY DEF OneCurrent
  <2>1. Over(f) \/ Over(g)
    BY <1>1, <1>7 DEF OneCurrent
  <2>2. QED
    BY <1>6, <1>12, <2>1
<1>14. CountCovers'
  <2> SUFFICES ASSUME NEW f \in Entry, Opened(f), Tracked(f)
               PROVE  Cardinality(Holders(f)') <= refCount'[f]
    BY <1>7 DEF CountCovers
  <2>1. Cardinality(Holders(f)) <= refCount[f] /\ refCount[f] \in Nat
    BY DEF CountCovers, TypeOK
  <2>2. Holders(f) \in SUBSET Call /\ Waiters(f) \in SUBSET Call /\ Holders(f)' \in SUBSET Call
    BY DEF Holders, Waiters
  <2>3. CASE f = e
    <3>1. phase[e] = "resolved"
      BY <1>1, <2>3 DEF Opened
    <3>2. Cardinality(Holders(e)') <= Cardinality(Holders(e) \cup Waiters(e))
      BY <1>3, <2>2, <2>3, CallSets
    <3>3. Cardinality(Holders(e) \cup Waiters(e)) <= Cardinality(Holders(e)) + Cardinality(Waiters(e))
      BY <2>2, <2>3, CallUnion
    <3>4. /\ Cardinality(Holders(e)') \in Nat /\ Cardinality(Holders(e)) \in Nat
          /\ Cardinality(Holders(e) \cup Waiters(e)) \in Nat
      BY <2>2, <2>3, CallSets
    <3>5. refCount'[e] = refCount[e] + Cardinality(Waiters(e))
      BY <1>5, <3>1
    <3>7. refCount[e] \in Nat /\ Cardinality(Holders(e)) <= refCount[e]
      BY <2>1, <2>3
    <3>8. Cardinality(Holders(e)') <= refCount'[e]
      BY <1>4, <3>2, <3>3, <3>4, <3>5, <3>7
    <3>6. QED
      BY <2>3, <3>8
  <2>4. CASE f # e
    <3>1. Cardinality(Holders(f)') <= Cardinality(Holders(f))
      BY <1>2, <2>2, <2>4, CallSets
    <3>2. Cardinality(Holders(f)') \in Nat /\ Cardinality(Holders(f)) \in Nat
      BY <2>2, CallSets
    <3>3. QED
      BY <1>2, <2>1, <2>4, <3>1, <3>2
  <2>5. QED
    BY <2>3, <2>4
<1>15. ClosedIsUnreferenced'
  <2> SUFFICES ASSUME drain \in {"none", "waiting"}, NEW f \in Entry,
                      phase'[f] \in {"resolved", "live"}, closed[f]
               PROVE  refCount'[f] = 0
    BY <1>19 DEF ClosedIsUnreferenced
  <2>1. f # e
    BY <1>5, <1>19
  <2>2. QED
    BY <1>2, <2>1 DEF ClosedIsUnreferenced
<1>16. NoLeak' /\ ShutdownDrains'
  <2>1. NoLeak'
    BY <1>7, <1>19 DEF NoLeak
  <2>2. \A f \in Entry : phase'[f] = "opening" => phase[f] = "opening"
    BY <1>2, <1>5, <1>19
  <2>3. ShutdownDrains'
    BY <1>7, <1>19, <2>2 DEF ShutdownDrains
  <2>4. QED
    BY <2>1, <2>3
<1>17. DrainKnows'
  <2> SUFFICES ASSUME NEW f \in Entry, phase'[f] = "opening", Tracked(f)
               PROVE  /\ drain = "none" => inflight'[keyOf[f]] = f
                      /\ drain = "waiting" => f \in drainSet
    BY <1>1, <1>7 DEF DrainKnows
  <2>1. f # e /\ phase[f] = "opening" /\ keyOf[f] \in Key
    BY <1>1, <1>2, <1>5 DEF PhaseInv, TypeOK
  <2>2. keyOf[f] # keyOf[e]
    <3> SUFFICES ASSUME keyOf[f] = keyOf[e] PROVE FALSE
      OBVIOUS
    <3>1. Over(f) \/ Over(e)
      BY <1>6, <2>1 DEF OneCurrent
    <3>2. QED
      BY <1>6, <2>1, <3>1 DEF Over, OverAfter
  <2>3. QED
    BY <1>1, <2>1, <2>2 DEF DrainKnows, TypeOK
<1>18. QED
  BY <1>8, <1>9, <1>10, <1>11, <1>13, <1>14, <1>15, <1>16, <1>17

(* An expired entry stays in the cache. *)
LEMMA ExpireStep ==
    ASSUME IInv, NEW e \in Entry, Expire(e)
    PROVE  IInv'
<1> USE DEF IInv
<1>1. /\ e \in cache /\ stale' = stale \cup {e}
      /\ entryVars' = entryVars /\ cache' = cache /\ older' = older /\ inflight' = inflight
      /\ evicted' = evicted /\ callVars' = callVars /\ drainVars' = drainVars
      /\ overlap' = overlap /\ meanwhile' = meanwhile
  BY DEF Expire
<1> USE DEF entryVars, callVars, drainVars
<1>2. TypeOK'
  BY <1>1 DEF TypeOK
<1>3. \A f \in Entry : /\ Holders(f)' = Holders(f) /\ Waiters(f)' = Waiters(f)
                       /\ Tracked(f)' = Tracked(f) /\ Opened(f)' = Opened(f)
                       /\ Over(f)' = Over(f)
  BY <1>1 DEF Holders, Waiters, Tracked, Opened, Over, OverAfter
<1>4. PhaseInv' /\ InflightInv' /\ CachedIsOpen' /\ ParkedInv'
  BY <1>1, <1>3 DEF PhaseInv, InflightInv, CachedIsOpen, ParkedInv, ParkedIsPending, TypeOK
<1>5. OneCurrent'
  BY <1>1, <1>3 DEF OneCurrent
<1>6. CountCovers' /\ ClosedIsUnreferenced'
  BY <1>1, <1>3 DEF CountCovers, ClosedIsUnreferenced
<1>7. NoLeak' /\ DrainKnows' /\ ShutdownDrains'
  BY <1>1, <1>3 DEF NoLeak, DrainKnows, ShutdownDrains
<1>8. QED
  BY <1>2, <1>4, <1>5, <1>6, <1>7

(* A release finds the entry it took, if the key is tracked. *)
LEMMA ReleaseStep ==
    ASSUME IInv, NEW c \in Call, Release(c)
    PROVE  IInv'
<1> USE DEF IInv
<1> DEFINE x == holds[c]
           k == keyOf[x]
           e == ReleaseTarget(k)
<1>1. /\ x # NoEntry /\ holds' = [holds EXCEPT ![c] = NoEntry]
      /\ phase' = phase /\ keyOf' = keyOf /\ closePending' = closePending
      /\ cache' = cache /\ older' = older /\ stale' = stale /\ inflight' = inflight
      /\ awaits' = awaits /\ drain' = drain /\ drainSet' = drainSet /\ overlap' = overlap
      /\ meanwhile' = meanwhile
  BY DEF Release, lruVars, drainVars
<1>2. \/ e = NoEntry /\ refCount' = refCount /\ closed' = closed /\ evicted' = evicted
      \/ /\ e # NoEntry
         /\ refCount' = [refCount EXCEPT ![e] = Decremented(@)]
         /\ closed' = [closed EXCEPT ![e] = @ \/ LastRelease(e)]
         /\ evicted' = IF LastRelease(e) THEN [evicted EXCEPT ![k] = NoEntry] ELSE evicted
  BY DEF Release
<1>3. x \in Entry /\ k \in Key /\ c \in Holders(x) /\ Opened(x)
  BY <1>1 DEF TypeOK, Holders, PhaseInv, Phase, Opened
<1>4. \/ e \in cache /\ e \in Entry /\ keyOf[e] = k
      \/ e = evicted[k] /\ e \in Entry /\ keyOf[e] = k /\ e \notin cache
      \/ e = NoEntry
  BY <1>3, TargetOfRelease DEF TypeOK, ParkedInv, ParkedIsPending
<1>5. e # NoEntry => e \in Entry /\ keyOf[e] = k /\ Opened(e) /\ ~closed[e]
  BY <1>3, <1>4 DEF ParkedInv, ParkedIsPending, CachedIsOpen
<1>6. e # NoEntry /\ LastRelease(e) => e = evicted[k] /\ e \notin cache
  BY <1>3, <1>4 DEF LastRelease, CachedIsOpen, TypeOK
<1>7. \A f \in Entry : /\ Waiters(f)' = Waiters(f) /\ Tracked(f)' = Tracked(f)
                       /\ Opened(f)' = Opened(f)
                       /\ Holders(f)' = Holders(f) \ {c}
  BY <1>1 DEF Waiters, Tracked, Opened, Holders, TypeOK
<1>8. /\ refCount' \in [Entry -> Nat] /\ closed' \in [Entry -> BOOLEAN]
      /\ \A f \in Entry : /\ f # e => refCount'[f] = refCount[f] /\ closed'[f] = closed[f]
                          /\ closed[f] => closed'[f]
                          /\ closed'[f] => closed[f] \/ (f = e /\ LastRelease(e))
                          /\ refCount'[f] <= refCount[f]
  <2>1. CASE e = NoEntry
    BY <1>2, <2>1 DEF TypeOK
  <2>2. CASE e # NoEntry
    <3> HIDE DEF e
    <3>1. Decremented(refCount[e]) \in Nat /\ Decremented(refCount[e]) <= refCount[e]
      BY <1>5, <2>2 DEF Decremented, TypeOK
    <3>2. LastRelease(e) \in BOOLEAN
      BY DEF LastRelease
    <3>3. refCount' \in [Entry -> Nat] /\ \A f \in Entry : refCount'[f] <= refCount[f]
      BY <1>2, <1>5, <2>2, <3>1 DEF TypeOK
    <3>4. closed' \in [Entry -> BOOLEAN]
      BY <1>2, <1>5, <2>2, <3>2 DEF TypeOK
    <3>5. QED
      BY <1>2, <1>5, <2>2, <3>2, <3>3, <3>4 DEF TypeOK
  <2>3. QED
    BY <2>1, <2>2
<1>9. /\ evicted' \in [Key -> Entry \cup {NoEntry}]
      /\ \A j \in Key : evicted'[j] = evicted[j] \/ (evicted'[j] = NoEntry /\ j = k)
      /\ e # NoEntry /\ LastRelease(e) => evicted'[k] = NoEntry
      /\ ~(e # NoEntry /\ LastRelease(e)) => evicted' = evicted
  BY <1>2, <1>3 DEF TypeOK
<1>10. TypeOK'
  BY <1>1, <1>8, <1>9 DEF TypeOK
<1>11. \A f \in Entry : closed'[f] /\ ~closed[f] => f = e /\ e # NoEntry /\ LastRelease(e)
  BY <1>2, <1>8
<1>12. PhaseInv'
  <2> SUFFICES ASSUME NEW f \in Entry
               PROVE  /\ (phase[f] = "free") <=> (keyOf[f] = NoKey)
                      /\ phase[f] \in {"free", "opening", "rejected", "failed"} =>
                           refCount'[f] = 0 /\ ~closed'[f] /\ ~closePending[f] /\ Holders(f)' = {}
                      /\ Waiters(f) # {} => phase[f] \in {"opening", "resolved", "rejected"}
    BY <1>1, <1>7 DEF PhaseInv
  <2>1. ~Opened(f) => f # e
    BY <1>5
  <2>2. QED
    BY <1>7, <1>8, <2>1 DEF PhaseInv, Opened
<1>13. InflightInv'
  BY <1>1 DEF InflightInv
<1>14. CachedIsOpen'
  BY <1>1, <1>6, <1>7, <1>11 DEF CachedIsOpen, TypeOK
<1>15. ParkedInv'
  <2> SUFFICES ASSUME NEW j \in Key, evicted'[j] # NoEntry
               PROVE  /\ keyOf[evicted'[j]] = j /\ evicted'[j] \notin cache
                      /\ closePending[evicted'[j]] /\ ~closed'[evicted'[j]]
                      /\ phase[evicted'[j]] \in {"resolved", "live", "stillborn"}
    BY <1>1 DEF ParkedInv, ParkedIsPending, Opened
  <2>1. evicted'[j] = evicted[j] /\ evicted[j] \in Entry
    BY <1>9 DEF TypeOK
  <2>2. /\ keyOf[evicted[j]] = j /\ evicted[j] \notin cache /\ closePending[evicted[j]]
        /\ ~closed[evicted[j]] /\ phase[evicted[j]] \in {"resolved", "live", "stillborn"}
    BY <2>1 DEF ParkedInv, ParkedIsPending, Opened
  <2>3. ~closed'[evicted[j]]
    <3> SUFFICES ASSUME closed'[evicted[j]] PROVE FALSE
      OBVIOUS
    <3>1. evicted[j] = e /\ e # NoEntry /\ LastRelease(e)
      BY <1>11, <2>1, <2>2
    <3>2. j = k /\ evicted'[k] = NoEntry
      BY <1>5, <1>9, <2>2, <3>1
    <3>3. QED
      BY <3>2
  <2>4. QED
    BY <2>1, <2>2, <2>3
<1>16. \A f \in Entry : Over(f) => Over(f)'
  BY <1>1, <1>7, <1>8 DEF Over, OverAfter
<1>17. OneCurrent'
  BY <1>1, <1>7, <1>16 DEF OneCurrent
<1>18. CountCovers'
  <2> SUFFICES ASSUME NEW f \in Entry, Opened(f), Tracked(f)
               PROVE  Cardinality(Holders(f)') <= refCount'[f]
    BY <1>7 DEF CountCovers
  <2>1. /\ Cardinality(Holders(f)) <= refCount[f] /\ refCount[f] \in Nat
        /\ Holders(f) \in SUBSET Call
    BY DEF CountCovers, TypeOK, Holders
  <2>2. /\ Cardinality(Holders(f) \ {c}) \in Nat /\ Cardinality(Holders(f)) \in Nat
        /\ Cardinality(Holders(f) \ {c}) <= Cardinality(Holders(f))
        /\ c \in Holders(f) => Cardinality(Holders(f) \ {c}) = Cardinality(Holders(f)) - 1
    <3>1. IsFiniteSet(Holders(f)) /\ Holders(f) \ {c} \in SUBSET Holders(f)
      BY <2>1, CallSets
    <3>2. QED
      BY <2>1, <3>1, CallSets, FS_RemoveElement
  <2>3. CASE f # e
    <3>1. refCount'[f] = refCount[f]
      BY <1>8, <2>3
    <3>2. QED
      BY <1>7, <2>1, <2>2, <3>1
  <2>4. CASE f = e /\ f = x
    <3>1. refCount'[f] = IF refCount[f] > 0 THEN refCount[f] - 1 ELSE 0
      BY <1>2, <1>3, <2>4 DEF Decremented, TypeOK
    <3>2. c \in Holders(f)
      BY <1>3, <2>4
    <3>3. QED
      BY <1>7, <2>1, <2>2, <3>1, <3>2
  <2>5. CASE f = e /\ f # x
    <3>1. keyOf[f] = keyOf[x] /\ keyOf[f] # NoKey /\ e # NoEntry
      BY <1>3, <1>5, <2>5
    <3>2. Over(f) \/ Over(x)
      BY <1>3, <2>5, <3>1 DEF OneCurrent
    <3>3. ~Over(x)
      BY <1>3 DEF Over, OverAfter, Opened
    <3>4. Over(f) => FALSE
      BY <1>5, <2>5, <3>1 DEF Over, OverAfter, Opened
    <3>5. QED
      BY <3>2, <3>3, <3>4
  <2>6. QED
    BY <2>3, <2>4, <2>5
<1>19. ClosedIsUnreferenced'
  <2> SUFFICES ASSUME drain \in {"none", "waiting"}, NEW f \in Entry,
                      phase[f] \in {"resolved", "live"}, closed'[f]
               PROVE  refCount'[f] = 0
    BY <1>1 DEF ClosedIsUnreferenced
  <2>1. CASE closed[f]
    <3>1. refCount[f] = 0
      BY <2>1 DEF ClosedIsUnreferenced
    <3>2. QED
      BY <1>8, <3>1 DEF TypeOK
  <2>2. CASE ~closed[f]
    <3>1. f = e /\ e # NoEntry /\ LastRelease(e)
      BY <1>11, <2>2
    <3>2. refCount'[f] = Decremented(refCount[f])
      BY <1>2, <3>1 DEF TypeOK
    <3>3. QED
      BY <3>1, <3>2 DEF LastRelease
  <2>3. QED
    BY <2>1, <2>2
<1>20. NoLeak'
  <2> SUFFICES ASSUME NEW f \in Entry, Opened(f), ~closed'[f], Tracked(f)
               PROVE  f \in cache \/ evicted'[keyOf[f]] = f
    BY <1>1, <1>7 DEF NoLeak
  <2>1. ~closed[f]
    BY <1>8
  <2>2. f \in cache \/ evicted[keyOf[f]] = f
    BY <2>1 DEF NoLeak
  <2>3. CASE f \notin cache /\ evicted[keyOf[f]] = f
    <3>1. CASE e # NoEntry /\ LastRelease(e) /\ keyOf[f] = k
      <4>1. f = e
        BY <1>6, <2>3, <3>1
      <4>2. closed'[f]
        BY <1>2, <3>1, <4>1 DEF TypeOK
      <4>3. QED
        BY <4>2
    <3>2. CASE ~(e # NoEntry /\ LastRelease(e) /\ keyOf[f] = k)
      <4>1. keyOf[f] \in Key
        BY DEF PhaseInv, TypeOK, Opened
      <4>2. QED
        BY <1>9, <2>3, <3>2, <4>1
    <3>3. QED
      BY <3>1, <3>2
  <2>4. QED
    BY <2>2, <2>3
<1>21. DrainKnows' /\ ShutdownDrains'
  BY <1>1, <1>7, <1>8 DEF DrainKnows, ShutdownDrains
<1>22. QED
  BY <1>10, <1>12, <1>13, <1>14, <1>15, <1>17, <1>18, <1>19, <1>20, <1>21

(* shutdown takes note of every tracked open under way. *)
LEMMA ShutdownBeginStep ==
    ASSUME IInv, ShutdownBegin
    PROVE  IInv'
<1> USE DEF IInv
<1>1. /\ drain = "none" /\ drain' = "waiting"
      /\ drainSet' = {inflight[k] : k \in Key} \ {NoEntry}
      /\ entryVars' = entryVars /\ lruVars' = lruVars /\ inflight' = inflight
      /\ evicted' = evicted /\ callVars' = callVars /\ overlap' = overlap
      /\ meanwhile' = meanwhile
  BY DEF ShutdownBegin, disposed
<1> USE DEF entryVars, lruVars, callVars
<1>2. TypeOK'
  BY <1>1 DEF TypeOK
<1>3. \A f \in Entry : /\ Holders(f)' = Holders(f) /\ Waiters(f)' = Waiters(f)
                       /\ Tracked(f)' = Tracked(f) /\ Opened(f)' = Opened(f)
                       /\ Over(f)' = Over(f)
  BY <1>1 DEF Holders, Waiters, Tracked, Opened, Over, OverAfter
<1>4. PhaseInv' /\ InflightInv' /\ CachedIsOpen' /\ ParkedInv'
  BY <1>1, <1>3 DEF PhaseInv, InflightInv, CachedIsOpen, ParkedInv, ParkedIsPending, TypeOK
<1>5. OneCurrent'
  BY <1>1, <1>3 DEF OneCurrent
<1>6. CountCovers' /\ ClosedIsUnreferenced'
  BY <1>1, <1>3 DEF CountCovers, ClosedIsUnreferenced
<1>7. NoLeak' /\ ShutdownDrains'
  BY <1>1, <1>3 DEF NoLeak, ShutdownDrains
<1>8. DrainKnows'
  <2> SUFFICES ASSUME NEW f \in Entry, phase[f] = "opening", Tracked(f)
               PROVE  f \in drainSet'
    BY <1>1, <1>3 DEF DrainKnows
  <2>1. inflight[keyOf[f]] = f /\ keyOf[f] \in Key
    BY <1>1 DEF DrainKnows, PhaseInv, TypeOK
  <2>2. QED
    BY <1>1, <2>1
<1>9. QED
  BY <1>2, <1>4, <1>5, <1>6, <1>7, <1>8

(* When those opens have settled, every tracked store is in the cache or parked,
   and closing both closes them all. *)
LEMMA ShutdownCloseStep ==
    ASSUME IInv, ShutdownClose
    PROVE  IInv'
<1> USE DEF IInv
<1> DEFINE parked == ParkedBy(cache)
           drained == (cache \ stale) \cup {parked[k] : k \in Key}
<1>1. /\ drain = "waiting" /\ OpensSettled /\ drain' = "closing"
      /\ closed' = [e \in Entry |-> ClosedBy(cache)[e] \/ e \in drained]
      /\ closePending' = PendingBy(cache)
      /\ cache' = {} /\ older' = {} /\ stale' = {}
      /\ inflight' = [k \in Key |-> NoEntry] /\ evicted' = [k \in Key |-> NoEntry]
      /\ phase' = phase /\ keyOf' = keyOf /\ refCount' = refCount
      /\ awaits' = awaits /\ holds' = holds /\ drainSet' = drainSet /\ overlap' = overlap
      /\ meanwhile' = meanwhile
  BY DEF ShutdownClose, callVars
<1>2. /\ \A f \in Entry : ClosedBy(cache)[f] <=> closed[f] \/ (f \in cache /\ refCount[f] = 0)
      /\ closePending' \in [Entry -> BOOLEAN]
      /\ \A f \in Entry : closePending'[f] <=> closePending[f] \/ (f \in cache /\ refCount[f] # 0)
      /\ parked \in [Key -> Entry \cup {NoEntry}]
      /\ \A k \in Key : parked[k] = evicted[k] \/ parked[k] \in cache
      /\ \A f \in cache : refCount[f] # 0 => parked[keyOf[f]] = f
      /\ \A k \in Key : (\A f \in cache : keyOf[f] # k) => parked[k] = evicted[k]
  BY <1>1, DisposeEffect
<1>3. \A f \in cache : f \in Entry /\ keyOf[f] \in Key /\ Opened(f) /\ ~closed[f]
  BY DEF CachedIsOpen, TypeOK, PhaseInv, Opened
<1> HIDE DEF parked
<1>4. /\ closed' \in [Entry -> BOOLEAN]
      /\ \A f \in Entry : closed[f] => closed'[f]
      /\ \A f \in cache : closed'[f]
      /\ \A f \in Entry, k \in Key : parked[k] = f => closed'[f]
      /\ \A f \in Entry : closed'[f] => closed[f] \/ f \in cache \/ \E k \in Key : parked[k] = f
  <2>1. \A f \in Entry : closed'[f] <=> \/ closed[f] \/ (f \in cache /\ refCount[f] = 0)
                                        \/ f \in cache \ stale
                                       \/ \E k \in Key : f = parked[k]
    BY <1>1, <1>2
  <2>2. closed' \in [Entry -> BOOLEAN]
    <3>1. \A f \in Entry : (ClosedBy(cache)[f] \/ f \in drained) \in BOOLEAN
      OBVIOUS
    <3>2. QED
      BY <1>1, <3>1
  <2>3. ASSUME NEW f \in cache PROVE closed'[f]
    <3>1. CASE refCount[f] = 0
      BY <1>3, <2>1, <3>1
    <3>2. CASE refCount[f] # 0
      BY <1>2, <1>3, <2>1, <3>2
    <3>3. QED
      BY <3>1, <3>2
  <2>4. QED
    BY <2>1, <2>2, <2>3
<1>5. \A f \in Entry : /\ Holders(f)' = Holders(f) /\ Waiters(f)' = Waiters(f)
                       /\ Tracked(f)' = Tracked(f) /\ Opened(f)' = Opened(f)
  BY <1>1 DEF Holders, Waiters, Tracked, Opened
<1>6. \A f \in Entry : closed'[f] \/ closePending'[f] => Opened(f) \/ closed[f] \/ closePending[f]
  BY <1>2, <1>3, <1>4 DEF ParkedInv, TypeOK
<1>7. TypeOK'
  BY <1>1, <1>2, <1>4 DEF TypeOK
<1>8. PhaseInv'
  <2> SUFFICES ASSUME NEW f \in Entry
               PROVE  /\ (phase[f] = "free") <=> (keyOf[f] = NoKey)
                      /\ phase[f] \in {"free", "opening", "rejected", "failed"} =>
                           refCount[f] = 0 /\ ~closed'[f] /\ ~closePending'[f] /\ Holders(f) = {}
                      /\ Waiters(f) # {} => phase[f] \in {"opening", "resolved", "rejected"}
    BY <1>1, <1>5 DEF PhaseInv
  <2>1. QED
    BY <1>6 DEF PhaseInv, Opened
<1>9. InflightInv' /\ CachedIsOpen' /\ ParkedInv'
  BY <1>1 DEF InflightInv, CachedIsOpen, ParkedInv, ParkedIsPending
<1>10. \A f \in Entry : Over(f) => Over(f)'
  BY <1>1, <1>4, <1>5 DEF Over, OverAfter
<1>11. OneCurrent'
  BY <1>1, <1>5, <1>10 DEF OneCurrent
<1>12. CountCovers' /\ ClosedIsUnreferenced' /\ DrainKnows'
  BY <1>1, <1>5 DEF CountCovers, ClosedIsUnreferenced, DrainKnows
<1>13. \A f \in Entry : Opened(f) /\ Tracked(f) => closed'[f]
  <2> SUFFICES ASSUME NEW f \in Entry, Opened(f), Tracked(f), ~closed[f], f \notin cache
               PROVE  closed'[f]
    BY <1>4
  <2>1. evicted[keyOf[f]] = f /\ keyOf[f] \in Key
    BY DEF NoLeak, PhaseInv, TypeOK, Opened
  <2>2. ASSUME NEW g \in cache, keyOf[g] = keyOf[f] PROVE FALSE
    <3>1. Over(f) \/ Over(g)
      BY <1>3, <2>2 DEF OneCurrent
    <3>2. QED
      BY <1>3, <2>2, <3>1 DEF Over, OverAfter, Opened
  <2>3. parked[keyOf[f]] = f
    BY <1>2, <2>1, <2>2
  <2>4. QED
    BY <1>4, <2>1, <2>3
<1>14. NoLeak' /\ ShutdownDrains'
  <2>1. \A f \in Entry : phase[f] = "opening" /\ Tracked(f) => FALSE
    BY <1>1 DEF DrainKnows, OpensSettled
  <2>2. QED
    BY <1>1, <1>5, <1>13, <2>1 DEF NoLeak, ShutdownDrains
<1>15. QED
  BY <1>7, <1>8, <1>9, <1>11, <1>12, <1>14

(* The return changes nothing else. *)
LEMMA ShutdownReturnStep ==
    ASSUME IInv, ShutdownReturn \/ UNCHANGED vars
    PROVE  IInv'
<1> USE DEF IInv
<1>1. /\ drain' = drain \/ (drain = "closing" /\ drain' = "done")
      /\ entryVars' = entryVars /\ lruVars' = lruVars /\ inflight' = inflight
      /\ evicted' = evicted /\ callVars' = callVars /\ drainSet' = drainSet
      /\ overlap' = overlap /\ meanwhile' = meanwhile
  BY DEF ShutdownReturn, vars, drainVars
<1> USE DEF entryVars, lruVars, callVars
<1>2. TypeOK'
  BY <1>1 DEF TypeOK
<1>3. \A f \in Entry : /\ Holders(f)' = Holders(f) /\ Waiters(f)' = Waiters(f)
                       /\ Tracked(f)' = Tracked(f) /\ Opened(f)' = Opened(f)
                       /\ Over(f)' = Over(f)
  BY <1>1 DEF Holders, Waiters, Tracked, Opened, Over, OverAfter
<1>4. PhaseInv' /\ InflightInv' /\ CachedIsOpen' /\ ParkedInv'
  BY <1>1, <1>3 DEF PhaseInv, InflightInv, CachedIsOpen, ParkedInv, ParkedIsPending, TypeOK
<1>5. OneCurrent'
  BY <1>1, <1>3 DEF OneCurrent
<1>6. CountCovers' /\ ClosedIsUnreferenced'
  BY <1>1, <1>3 DEF CountCovers, ClosedIsUnreferenced
<1>7. NoLeak' /\ ShutdownDrains' /\ DrainKnows'
  BY <1>1, <1>3 DEF NoLeak, ShutdownDrains, DrainKnows
<1>8. QED
  BY <1>2, <1>4, <1>5, <1>6, <1>7

(* Every step of the pool keeps the invariant. *)
LEMMA NextIInv == IInv /\ [Next]_vars => IInv'
<1> SUFFICES ASSUME IInv, [Next]_vars PROVE IInv'
  OBVIOUS
<1>1. ASSUME NEW c \in Call, NEW k \in Key, AcquireHit(c, k) PROVE IInv'
  BY <1>1, HitStep
<1>2. ASSUME NEW c \in Call, NEW k \in Key, AcquireJoin(c, k) PROVE IInv'
  BY <1>2, JoinStep
<1>3. ASSUME NEW c \in Call, NEW k \in Key, NEW e \in Entry, AcquireOpen(c, k, e) PROVE IInv'
  BY <1>3, OpenStep
<1>4. ASSUME NEW e \in Entry, FactoryResolves(e) PROVE IInv'
  BY <1>4, ResolveStep
<1>5. ASSUME NEW e \in Entry, FactoryRejects(e) PROVE IInv'
  BY <1>5, RejectStep
<1>6. ASSUME NEW e \in Entry, Continue(e) PROVE IInv'
  BY <1>6, ContinueStep
<1>7. ASSUME NEW e \in Entry, Expire(e) PROVE IInv'
  BY <1>7, ExpireStep
<1>8. ASSUME NEW c \in Call, Release(c) PROVE IInv'
  BY <1>8, ReleaseStep
<1>9. CASE ShutdownBegin
  BY <1>9, ShutdownBeginStep
<1>10. CASE ShutdownClose
  BY <1>10, ShutdownCloseStep
<1>11. CASE ShutdownReturn \/ UNCHANGED vars
  BY <1>11, ShutdownReturnStep
<1>12. QED
  BY <1>1, <1>2, <1>3, <1>4, <1>5, <1>6, <1>7, <1>8, <1>9, <1>10, <1>11 DEF Next

(* IInv is an invariant of the pool. *)
THEOREM Invariance == Spec => []IInv
<1>1. Init => IInv
  BY InitIInv
<1>2. IInv /\ [Next]_vars => IInv'
  BY NextIInv
<1>3. QED
  BY <1>1, <1>2, PTL DEF Spec

(* The variables of connection-pool.ts keep their types. *)
THEOREM TypeCorrect == Spec => []TypeOK
<1>1. IInv => TypeOK
  BY DEF IInv
<1>2. QED
  BY <1>1, Invariance, PTL

(* acquire never finds a closed store in the cache, nor two for one key. *)
THEOREM CacheServesOpenStores == Spec => []CachedIsOpen
<1>1. IInv => CachedIsOpen
  BY DEF IInv
<1>2. QED
  BY <1>1, Invariance, PTL

(* The counter of a tracked entry covers the calls that use its store. *)
THEOREM CountsCoverHolders == Spec => []CountCovers
<1>1. IInv => CountCovers
  BY DEF IInv
<1>2. QED
  BY <1>1, Invariance, PTL

-----------------------------------------------------------------------------
(* The exception in InUseIsOpen: HandoverInv is an invariant relative to IInv. *)

(* What a use of k adds to the histories.                                    *)
LEMMA UseEffect ==
    ASSUME TypeOK, NEW k \in Key, NEW e \in Entry, IsFiniteSet(meanwhile[e])
    PROVE  LET after == UsedBetween(k)[e]
           IN /\ IsFiniteSet(after) /\ Cardinality(after) \in Nat
              /\ meanwhile[e] \subseteq after
              /\ Cardinality(meanwhile[e]) >= Max => Cardinality(after) >= Max
              /\ phase[e] = "resolved" /\ k # keyOf[e] => k \in after
<1> DEFINE after == UsedBetween(k)[e]
<1>1. /\ meanwhile[e] \subseteq after /\ after \subseteq meanwhile[e] \cup {k}
      /\ phase[e] = "resolved" /\ k # keyOf[e] => k \in after
  BY DEF UsedBetween
<1> HIDE DEF after
<1>2. IsFiniteSet(meanwhile[e] \cup {k})
  BY FS_AddElement
<1>3. IsFiniteSet(after)
  BY <1>1, <1>2, FS_Subset
<1>4. /\ Cardinality(after) \in Nat /\ Cardinality(meanwhile[e]) \in Nat
      /\ Cardinality(meanwhile[e]) <= Cardinality(after)
  BY <1>1, <1>3, FS_Subset, FS_CardinalityType
<1>5. Cardinality(meanwhile[e]) >= Max => Cardinality(after) >= Max
  BY <1>4
<1>6. QED
  BY <1>1, <1>3, <1>4, <1>5 DEF after

(* When the opening of x evicts an entry that waits to be handed over, Max    *)
(* others have been used: those in the cache and x itself.                   *)
LEMMA EvictedInRush ==
    ASSUME IInv, HandoverInv, NEW x \in Entry, keyOf[x] \in Key, Cached(keyOf[x]) = {},
           Cardinality(cache) >= Max, NEW e \in LeastRecent, phase[e] = "resolved"
    PROVE  Cardinality(UsedBetween(keyOf[x])[e]) >= Max
<1> DEFINE others == cache \ {e}
           used == UsedBetween(keyOf[x])[e]
           name == [f \in others |-> keyOf[f]]
<1>1. e \in cache /\ e \in Entry /\ cache \subseteq Entry /\ keyOf[e] # keyOf[x]
  BY DEF LeastRecent, IInv, TypeOK, Cached
<1>2. \A f \in others : keyOf[f] \in meanwhile[e] /\ keyOf[f] # keyOf[x]
  BY <1>1 DEF HandoverInv, YoungestButUsed, LeastRecent, Cached
<1>3. /\ IsFiniteSet(used) /\ Cardinality(used) \in Nat
      /\ meanwhile[e] \subseteq used /\ keyOf[x] \in used
  BY <1>1, UseEffect DEF IInv, HandoverInv
<1> HIDE DEF used
<1>4. name \in [others -> used \ {keyOf[x]}] /\ \A f, g \in others : name[f] = name[g] => f = g
  BY <1>2, <1>3 DEF IInv, CachedIsOpen
<1>5. name \in Injection(others, used \ {keyOf[x]})
  BY <1>4 DEF Injection, IsInjective
<1> HIDE DEF name
<1>6. IsFiniteSet(used \ {keyOf[x]}) /\ Cardinality(used \ {keyOf[x]}) = Cardinality(used) - 1
  BY <1>3, FS_RemoveElement
<1>7. Cardinality(others) <= Cardinality(used \ {keyOf[x]})
  BY <1>5, <1>6, FS_Injection
<1>8. Cardinality(others) = Cardinality(cache) - 1 /\ Cardinality(cache) \in Nat
  BY <1>1, FS_RemoveElement, FS_CardinalityType DEF HandoverInv
<1>9. Cardinality(used) >= Max
  BY <1>3, <1>6, <1>7, <1>8
<1>10. QED
  BY <1>9 DEF used

(* Steps that leave the cache, the histories and the waiting entries alone.   *)
LEMMA HandoverKept ==
    ASSUME HandoverInv,
           UNCHANGED <<keyOf, cache, older, meanwhile, overlap>>,
           drain' = drain \/ drain' = "waiting" \/ drain' = "done",
           drain' = "waiting" => drain \in {"none", "waiting"},
           \A e \in Entry : phase'[e] = phase[e] \/ phase'[e] \notin {"resolved", "stillborn"}
    PROVE  HandoverInv'
<1>1. ASSUME NEW e \in Entry PROVE (YoungestButUsed(e) /\ LeftInRush(e))'
  BY DEF HandoverInv, YoungestButUsed, LeftInRush, Tracked
<1>2. QED
  BY <1>1 DEF HandoverInv

LEMMA HandoverHit ==
    ASSUME IInv, HandoverInv, NEW c \in Call, NEW k \in Key, AcquireHit(c, k)
    PROVE  HandoverInv'
<1>1. PICK g \in Fresh(k) : older' = Touched(g)
  BY DEF AcquireHit
<1>2. /\ phase' = phase /\ keyOf' = keyOf /\ cache' = cache /\ drain' = drain
      /\ overlap' = overlap /\ meanwhile' = UsedBetween(k)
  BY DEF AcquireHit, drainVars
<1>3. g \in cache /\ keyOf[g] = k /\ cache \subseteq Entry
  BY DEF Fresh, Cached, IInv, TypeOK
<1>4. ASSUME NEW e \in Entry
      PROVE  IsFiniteSet(meanwhile'[e]) /\ YoungestButUsed(e)' /\ LeftInRush(e)'
  <2>1. /\ IsFiniteSet(meanwhile'[e]) /\ meanwhile[e] \subseteq meanwhile'[e]
        /\ Cardinality(meanwhile[e]) >= Max => Cardinality(meanwhile'[e]) >= Max
        /\ phase[e] = "resolved" /\ k # keyOf[e] => k \in meanwhile'[e]
    BY <1>2, UseEffect DEF IInv, HandoverInv
  <2>2. LeftInRush(e)'
    BY <1>2, <2>1 DEF HandoverInv, LeftInRush, Tracked
  <2>3. ASSUME phase[e] = "resolved", e \in cache, NEW f \in cache \ {e}
        PROVE  <<f, e>> \in older' \/ keyOf[f] \in meanwhile'[e]
    <3>1. CASE e = g
      BY <1>1, <2>3, <3>1 DEF Touched
    <3>2. CASE f = g
      BY <1>3, <2>1, <2>3, <3>2 DEF IInv, CachedIsOpen
    <3>3. CASE e # g /\ f # g
      <4>1. <<f, e>> \in older => <<f, e>> \in older'
        BY <1>1, <3>3 DEF Touched
      <4>2. QED
        BY <2>1, <2>3, <4>1 DEF HandoverInv, YoungestButUsed
    <3>4. QED
      BY <3>1, <3>2, <3>3
  <2>4. YoungestButUsed(e)'
    BY <1>2, <2>3 DEF YoungestButUsed
  <2>5. QED
    BY <2>1, <2>2, <2>4
<1>5. QED
  BY <1>2, <1>4 DEF HandoverInv

(* An entry that expired before it was handed over is not tracked any more.   *)
LEMMA HandoverOpen ==
    ASSUME IInv, HandoverInv, NEW c \in Call, NEW k \in Key, NEW x \in Entry,
           AcquireOpen(c, k, x)
    PROVE  HandoverInv'
<1> DEFINE expired == Cached(k)
<1>1. /\ phase[x] = "free" /\ phase' = [phase EXCEPT ![x] = "opening"]
      /\ keyOf' = [keyOf EXCEPT ![x] = k]
      /\ cache' = cache \ expired /\ meanwhile' = meanwhile /\ drain' = drain
      /\ older' = {p \in older : p[1] \notin expired /\ p[2] \notin expired}
      /\ overlap' = IF \A f \in {g \in Entry : keyOf[g] = k} : OverAfter(f, closed')
                    THEN overlap ELSE overlap \cup {k}
  BY DEF AcquireOpen, drainVars
<1>2. IsFiniteSet(cache') /\ x \notin cache /\ cache \subseteq Entry
  BY <1>1, FS_Subset DEF HandoverInv, IInv, TypeOK, CachedIsOpen, Opened
<1>3. ASSUME NEW e \in Entry
      PROVE  YoungestButUsed(e)' /\ LeftInRush(e)'
  <2>1. CASE e = x
    <3>1. phase'[e] = "opening"
      BY <1>1, <2>1 DEF IInv, TypeOK
    <3>2. QED
      BY <3>1 DEF YoungestButUsed, LeftInRush
  <2>2. CASE e # x
    <3>1. phase'[e] = phase[e] /\ keyOf'[e] = keyOf[e]
      BY <1>1, <2>2 DEF IInv, TypeOK
    <3>2. ASSUME phase[e] = "resolved", e \in cache', NEW f \in cache' \ {e}
          PROVE  <<f, e>> \in older' \/ keyOf'[f] \in meanwhile'[e]
      <4>1. /\ e \in cache /\ f \in cache \ {e} /\ f \in Entry /\ f # x
            /\ e \notin expired /\ f \notin expired
        BY <1>1, <1>2, <3>2
      <4>2. keyOf'[f] = keyOf[f]
        BY <1>1, <4>1 DEF IInv, TypeOK
      <4>3. <<f, e>> \in older \/ keyOf[f] \in meanwhile[e]
        BY <3>2, <4>1 DEF HandoverInv, YoungestButUsed
      <4>4. QED
        BY <1>1, <4>1, <4>2, <4>3
    <3>3. YoungestButUsed(e)'
      BY <3>1, <3>2 DEF YoungestButUsed
    <3>4. Tracked(e)' => Tracked(e)
      BY <1>1, <3>1 DEF Tracked
    <3>5. phase[e] = "resolved" /\ e \in expired => ~Tracked(e)'
      BY <1>1, <3>1 DEF Tracked, Cached, OverAfter
    <3>6. LeftInRush(e)'
      BY <1>1, <3>1, <3>4, <3>5 DEF HandoverInv, LeftInRush
    <3>7. QED
      BY <3>3, <3>6
  <2>3. QED
    BY <2>1, <2>2
<1>4. QED
  BY <1>1, <1>2, <1>3 DEF HandoverInv

LEMMA HandoverResolve ==
    ASSUME IInv, HandoverInv, NEW x \in Entry, FactoryResolves(x)
    PROVE  HandoverInv'
<1> DEFINE k == keyOf[x]
<1>1. PICK gone \in SUBSET cache :
        /\ IF Cached(k) # {} THEN gone = Cached(k)
           ELSE IF Cardinality(cache) >= Max
                THEN \E v \in LeastRecent : gone = {v}
                ELSE gone = {}
        /\ cache' = (cache \ gone) \cup {x}
        /\ older' = {p \in older : p[1] \notin gone /\ p[2] \notin gone}
                      \cup {<<f, x>> : f \in cache \ gone}
  BY DEF FactoryResolves
<1>2. /\ phase[x] = "opening" /\ phase' = [phase EXCEPT ![x] = "resolved"]
      /\ keyOf' = keyOf /\ drain' = drain /\ overlap' = overlap
      /\ meanwhile' = UsedBetween(k)
  BY DEF FactoryResolves, drainVars
<1>3. k \in Key /\ x \notin cache /\ cache \subseteq Entry
  BY <1>2 DEF IInv, TypeOK, PhaseInv, CachedIsOpen, Opened
<1>4. IsFiniteSet(cache')
  BY <1>1, FS_Subset, FS_AddElement DEF HandoverInv
<1>5. ASSUME NEW e \in Entry
      PROVE  IsFiniteSet(meanwhile'[e]) /\ YoungestButUsed(e)' /\ LeftInRush(e)'
  <2>1. /\ IsFiniteSet(meanwhile'[e]) /\ meanwhile[e] \subseteq meanwhile'[e]
        /\ Cardinality(meanwhile[e]) >= Max => Cardinality(meanwhile'[e]) >= Max
        /\ phase[e] = "resolved" /\ k # keyOf[e] => k \in meanwhile'[e]
    BY <1>2, <1>3, UseEffect DEF IInv, HandoverInv
  <2>2. CASE e = x
    <3>1. phase'[e] = "resolved" /\ e \in cache' /\ \A f \in cache' \ {e} : <<f, e>> \in older'
      BY <1>1, <1>2, <1>3, <2>2 DEF IInv, TypeOK
    <3>2. QED
      BY <2>1, <3>1 DEF YoungestButUsed, LeftInRush
  <2>3. CASE e # x
    <3>1. phase'[e] = phase[e]
      BY <1>2, <2>3 DEF IInv, TypeOK
    <3>2. ASSUME phase[e] = "resolved", e \in cache', NEW f \in cache' \ {e}
          PROVE  <<f, e>> \in older' \/ keyOf[f] \in meanwhile'[e]
      <4>1. e \in cache /\ e \notin gone
        BY <1>1, <2>3, <3>2
      <4>2. CASE f = x
        <5>1. e \notin Cached(k)
          BY <1>1, <4>1
        <5>2. QED
          BY <2>1, <3>2, <4>1, <4>2, <5>1 DEF Cached
      <4>3. CASE f # x
        <5>1. f \in cache \ {e} /\ f \notin gone
          BY <1>1, <3>2, <4>3
        <5>2. <<f, e>> \in older \/ keyOf[f] \in meanwhile[e]
          BY <3>2, <4>1, <5>1 DEF HandoverInv, YoungestButUsed
        <5>3. QED
          BY <1>1, <2>1, <4>1, <5>1, <5>2
      <4>4. QED
        BY <4>2, <4>3
    <3>3. YoungestButUsed(e)'
      BY <1>2, <3>1, <3>2 DEF YoungestButUsed
    <3>4. ASSUME phase[e] = "resolved", e \in gone
          PROVE  Cardinality(meanwhile'[e]) >= Max \/ ~Tracked(e)
      <4>1. CASE Cached(k) # {}
        <5>1. keyOf[e] = keyOf[x]
          BY <1>1, <3>4, <4>1 DEF Cached
        <5>2. ~Over(e) /\ ~Over(x)
          BY <1>2, <3>4 DEF Over, OverAfter
        <5>3. QED
          BY <1>3, <2>3, <5>1, <5>2 DEF IInv, OneCurrent
      <4>2. CASE Cached(k) = {}
        <5>1. Cardinality(cache) >= Max /\ e \in LeastRecent
          BY <1>1, <3>4, <4>2
        <5>2. QED
          BY <1>2, <1>3, <3>4, <4>2, <5>1, EvictedInRush
      <4>3. QED
        BY <4>1, <4>2
    <3>5. e \notin cache' => e \notin cache \/ e \in gone
      BY <1>1
    <3>6. LeftInRush(e)'
      BY <1>2, <2>1, <3>1, <3>4, <3>5 DEF HandoverInv, LeftInRush, Tracked
    <3>7. QED
      BY <2>1, <3>3, <3>6
  <2>4. QED
    BY <2>2, <2>3
<1>6. QED
  BY <1>4, <1>5 DEF HandoverInv

LEMMA HandoverContinue ==
    ASSUME IInv, HandoverInv, NEW x \in Entry, Continue(x)
    PROVE  HandoverInv'
<1>1. /\ UNCHANGED <<keyOf, cache, older, drain, overlap>>
      /\ \/ /\ phase[x] = "resolved"
            /\ phase' = [phase EXCEPT ![x] = IF closed[x] THEN "stillborn" ELSE "live"]
            /\ meanwhile' = IF closed[x] THEN meanwhile ELSE [meanwhile EXCEPT ![x] = {}]
         \/ /\ phase[x] = "rejected"
            /\ phase' = [phase EXCEPT ![x] = "failed"]
            /\ meanwhile' = meanwhile
  BY DEF Continue, lruVars, drainVars
<1>2. ASSUME NEW e \in Entry
      PROVE  IsFiniteSet(meanwhile'[e]) /\ YoungestButUsed(e)' /\ LeftInRush(e)'
  <2>1. CASE e # x
    <3>1. phase'[e] = phase[e] /\ meanwhile'[e] = meanwhile[e]
      BY <1>1, <2>1 DEF IInv, TypeOK
    <3>2. QED
      BY <1>1, <3>1 DEF HandoverInv, YoungestButUsed, LeftInRush, Tracked
  <2>2. CASE e = x
    <3>1. phase'[e] # "resolved" /\ (meanwhile'[e] = meanwhile[e] \/ meanwhile'[e] = {})
      BY <1>1, <2>2 DEF IInv, TypeOK
    <3>2. phase'[e] = "stillborn" =>
             phase[e] = "resolved" /\ closed[e] /\ meanwhile'[e] = meanwhile[e]
      BY <1>1, <2>2 DEF IInv, TypeOK
    <3>3. closed[e] => e \notin cache
      BY DEF IInv, CachedIsOpen
    <3>4. LeftInRush(e)'
      BY <1>1, <3>1, <3>2, <3>3 DEF HandoverInv, LeftInRush, Tracked
    <3>5. QED
      BY <3>1, <3>4, FS_EmptySet DEF HandoverInv, YoungestButUsed
  <2>3. QED
    BY <2>1, <2>2
<1>3. QED
  BY <1>1, <1>2 DEF HandoverInv

LEMMA HandoverClose ==
    ASSUME IInv, HandoverInv, ShutdownClose
    PROVE  HandoverInv'
<1>1. /\ cache' = {} /\ drain' = "closing" /\ meanwhile' = meanwhile /\ phase' = phase
  BY DEF ShutdownClose
<1>2. QED
  BY <1>1, FS_EmptySet DEF HandoverInv, YoungestButUsed, LeftInRush

LEMMA HandoverNext == IInv /\ HandoverInv /\ [Next]_vars => HandoverInv'
<1> SUFFICES ASSUME IInv, HandoverInv, [Next]_vars PROVE HandoverInv'
  OBVIOUS
<1>1. ASSUME NEW c \in Call, NEW k \in Key, AcquireHit(c, k) PROVE HandoverInv'
  BY <1>1, HandoverHit
<1>2. ASSUME NEW c \in Call, NEW k \in Key, NEW e \in Entry, AcquireOpen(c, k, e)
      PROVE  HandoverInv'
  BY <1>2, HandoverOpen
<1>3. ASSUME NEW e \in Entry, FactoryResolves(e) PROVE HandoverInv'
  BY <1>3, HandoverResolve
<1>4. ASSUME NEW e \in Entry, Continue(e) PROVE HandoverInv'
  BY <1>4, HandoverContinue
<1>5. CASE ShutdownClose
  BY <1>5, HandoverClose
<1>6. CASE \/ \E c \in Call, k \in Key : AcquireJoin(c, k)
           \/ \E e \in Entry : Expire(e)
           \/ \E c \in Call : Release(c)
           \/ UNCHANGED vars
  <2>1. UNCHANGED <<keyOf, cache, older, meanwhile, overlap, drain, phase>>
    BY <1>6 DEF AcquireJoin, Expire, Release, vars, entryVars, lruVars, drainVars
  <2>2. QED
    BY <2>1, HandoverKept
<1>7. CASE ShutdownBegin \/ ShutdownReturn
  <2>1. /\ UNCHANGED <<keyOf, cache, older, meanwhile, overlap, phase>>
        /\ \/ drain = "none" /\ drain' = "waiting"
           \/ drain = "closing" /\ drain' = "done"
    BY <1>7 DEF ShutdownBegin, ShutdownReturn, disposed, entryVars, lruVars
  <2>2. QED
    BY <2>1, HandoverKept
<1>8. ASSUME NEW e \in Entry, FactoryRejects(e) PROVE HandoverInv'
  <2>1. /\ UNCHANGED <<keyOf, cache, older, meanwhile, overlap, drain>>
        /\ phase' = [phase EXCEPT ![e] = "rejected"]
    BY <1>8 DEF FactoryRejects, lruVars, drainVars
  <2>2. \A f \in Entry : phase'[f] = phase[f] \/ phase'[f] = "rejected"
    BY <2>1 DEF IInv, TypeOK
  <2>3. QED
    BY <2>1, <2>2, HandoverKept
<1>9. QED
  BY <1>1, <1>2, <1>3, <1>4, <1>5, <1>6, <1>7, <1>8 DEF Next

(* An entry leaves the cache before its opener has it only after Max other    *)
(* repositories were used, or its repository was opened a second time.        *)
THEOREM HandoverInvariance == Spec => []HandoverInv
<1>1. Init => HandoverInv
  BY FS_EmptySet DEF Init, HandoverInv, YoungestButUsed, LeftInRush
<1>2. IInv /\ HandoverInv /\ [Next]_vars => HandoverInv'
  BY HandoverNext
<1>3. QED
  BY <1>1, <1>2, Invariance, PTL DEF Spec

(* A tracked store that a call uses is open until shutdown closes the pool,   *)
(* unless Max other repositories were used between its opening and its        *)
(* handing over.                                                             *)
THEOREM NoUseAfterClose == Spec => []InUseIsOpen
<1>1. IInv /\ HandoverInv => InUseIsOpen
  <2> SUFFICES ASSUME IInv, HandoverInv, NEW e \in Entry, Tracked(e), Holders(e) # {},
                      drain \in {"none", "waiting"}, closed[e]
               PROVE  Rushed(e)
    BY DEF InUseIsOpen
  <2>1. phase[e] \in {"resolved", "live", "stillborn"}
    BY DEF IInv, TypeOK, Phase, PhaseInv
  <2>2. ASSUME phase[e] \in {"resolved", "live"} PROVE FALSE
    <3>1. refCount[e] = 0
      BY <2>2 DEF IInv, ClosedIsUnreferenced
    <3>2. Cardinality(Holders(e)) <= 0
      BY <2>1, <3>1 DEF IInv, CountCovers, Opened
    <3>3. Cardinality(Holders(e)) \in Nat /\ Cardinality(Holders(e)) # 0
      BY CallSets DEF Holders
    <3>4. QED
      BY <3>2, <3>3
  <2>3. phase[e] = "stillborn"
    BY <2>1, <2>2
  <2>4. QED
    BY <2>3 DEF HandoverInv, LeftInRush, Rushed
<1>2. QED
  BY <1>1, Invariance, HandoverInvariance, PTL

-----------------------------------------------------------------------------
(* An open tracked store stays within reach of release or shutdown. *)
THEOREM NothingLeaks == Spec => []NoLeak
<1>1. IInv => NoLeak
  BY DEF IInv
<1>2. QED
  BY <1>1, Invariance, PTL

(* After shutdown has closed the pool no tracked store is or will be open. *)
THEOREM ShutdownClosesAll == Spec => []ShutdownDrains
<1>1. IInv => ShutdownDrains
  BY DEF IInv
<1>2. QED
  BY <1>1, Invariance, PTL

(* What every step does to the closed flags: they are never reset, and only *)
(* the closing of the pool sets one while the counter is not zero.          *)
LEMMA CloseEffect ==
    ASSUME IInv, [Next]_vars, NEW e \in Entry
    PROVE  /\ closed[e] => closed'[e]
           /\ closed'[e] /\ ~closed[e] /\ drain' = drain => refCount'[e] = 0
<1> USE DEF IInv
<1> DEFINE Goal == /\ closed[e] => closed'[e]
                   /\ closed'[e] /\ ~closed[e] /\ drain' = drain => refCount'[e] = 0
<1>1. CASE closed' = closed
  BY <1>1
<1>2. ASSUME NEW c \in Call, NEW k \in Key, NEW n \in Entry, AcquireOpen(c, k, n) PROVE Goal
  <2>1. closed' = ClosedBy(Cached(k)) /\ refCount' = refCount /\ Cached(k) \in SUBSET cache
    BY <1>2 DEF AcquireOpen, Cached
  <2>2. QED
    BY <2>1, DisposeEffect
<1>3. ASSUME NEW n \in Entry, FactoryResolves(n) PROVE Goal
  <2>1. PICK gone \in SUBSET cache : closed' = ClosedBy(gone)
    BY <1>3 DEF FactoryResolves
  <2>2. refCount' = refCount
    BY <1>3 DEF FactoryResolves
  <2>3. QED
    BY <2>1, <2>2, DisposeEffect
<1>4. ASSUME NEW c \in Call, Release(c) PROVE Goal
  <2> DEFINE t == ReleaseTarget(keyOf[holds[c]])
  <2>1. \/ closed' = closed
        \/ /\ t # NoEntry /\ refCount' = [refCount EXCEPT ![t] = Decremented(@)]
           /\ closed' = [closed EXCEPT ![t] = @ \/ LastRelease(t)]
    BY <1>4 DEF Release
  <2> HIDE DEF t
  <2>2. CASE e = t /\ refCount' = [refCount EXCEPT ![t] = Decremented(@)]
             /\ closed' = [closed EXCEPT ![t] = @ \/ LastRelease(t)]
    BY <2>2 DEF LastRelease, TypeOK
  <2>3. CASE e # t /\ closed' = [closed EXCEPT ![t] = @ \/ LastRelease(t)]
    BY <2>3 DEF TypeOK
  <2>4. QED
    BY <1>1, <2>1, <2>2, <2>3
<1>5. CASE ShutdownClose
  <2>1. drain' # drain /\ (ClosedBy(cache)[e] => closed'[e])
    BY <1>5 DEF ShutdownClose
  <2>2. QED
    BY <2>1, DisposeEffect
<1>6. CASE \/ ShutdownBegin \/ ShutdownReturn \/ UNCHANGED vars
           \/ \E c \in Call, k \in Key : AcquireHit(c, k) \/ AcquireJoin(c, k)
           \/ \E n \in Entry : FactoryRejects(n) \/ Continue(n) \/ Expire(n)
  <2>1. closed' = closed
    BY <1>6 DEF ShutdownBegin, ShutdownReturn, vars, entryVars, AcquireHit, AcquireJoin,
       FactoryRejects, Continue, Expire
  <2>2. QED
    BY <1>1, <2>1
<1>7. QED
  BY <1>2, <1>3, <1>4, <1>5, <1>6 DEF Next

(* A store is closed only by the step that finds or leaves its counter at   *)
(* zero, or by shutdown, and it stays closed.                               *)
THEOREM ClosesUnreferenced == Spec => ClosedUnreferenced
<1>1. IInv /\ [Next]_vars =>
        [\A e \in Entry : /\ closed[e] => closed'[e]
                          /\ closed'[e] /\ ~closed[e] /\ drain' = drain
                               => refCount'[e] = 0]_vars
  BY CloseEffect
<1>2. QED
  BY <1>1, Invariance, PTL DEF Spec, ClosedUnreferenced

-----------------------------------------------------------------------------
(* When everything fits: what the two properties about it rest on. The       *)
(* cache has room for a repository that it does not have.                    *)
LEMMA FitsRoom ==
    ASSUME IInv, Fits, NEW k \in Key, Cached(k) = {}
    PROVE  Cardinality(cache) < Max
<1> DEFINE key == [e \in cache |-> keyOf[e]]
<1>1. cache \subseteq Entry /\ \A e \in cache : keyOf[e] \in Key \ {k}
  BY DEF IInv, TypeOK, PhaseInv, CachedIsOpen, Opened, Cached
<1>2. key \in [cache -> Key \ {k}]
  BY <1>1
<1>3. \A e, f \in cache : key[e] = key[f] => e = f
  BY DEF IInv, CachedIsOpen
<1>4. key \in Injection(cache, Key \ {k})
  BY <1>2, <1>3 DEF Injection, IsInjective
<1>5. IsFiniteSet(Key \ {k}) /\ Cardinality(Key \ {k}) = Cardinality(Key) - 1
      /\ Cardinality(Key) \in Nat
  BY FS_RemoveElement, FS_CardinalityType DEF Fits
<1>6. IsFiniteSet(cache) /\ Cardinality(cache) <= Cardinality(Key \ {k})
  <2> HIDE DEF key
  <2>1. QED
    BY <1>4, <1>5, FS_Injection
<1>7. Cardinality(cache) \in Nat /\ Cardinality(Key) <= Max
  BY <1>6, FS_CardinalityType DEF Fits
<1>8. QED
  BY <1>5, <1>6, <1>7

(* A store in use is the one the cache finds for its repository.             *)
LEMMA FitsHeld ==
    ASSUME IInv, Fits, FitsInv, drain \in {"none", "waiting"},
           NEW e \in Entry, Holders(e) # {}
    PROVE  /\ Opened(e) /\ ~closed[e] /\ ~closePending[e] /\ keyOf[e] \in Key
           /\ Fresh(keyOf[e]) = {e} /\ refCount[e] = Cardinality(Holders(e))
<1>1. Opened(e) /\ keyOf[e] \in Key
  BY DEF IInv, TypeOK, PhaseInv, Phase, Opened
<1>2. refCount[e] = Cardinality(Holders(e)) /\ phase[e] # "stillborn" /\ e \notin stale
  BY <1>1 DEF FitsInv, ExactEntry, StaleUnused
<1>3. Cardinality(Holders(e)) # 0
  BY CallSets DEF Holders
<1>4. ~closed[e]
  BY <1>1, <1>2, <1>3 DEF IInv, ClosedIsUnreferenced, Opened
<1>5. e \in cache
  BY <1>1, <1>4 DEF IInv, NoLeak, Tracked, FitsInv, NoneParked
<1>6. QED
  BY <1>1, <1>2, <1>4, <1>5 DEF IInv, TypeOK, CachedIsOpen, Fresh, Cached

(* An entry that is opened but not cached is over; so is every entry of k     *)
(* when k has to be opened.                                                  *)
LEMMA FitsOver ==
    ASSUME IInv, Fits, FitsInv, drain \in {"none", "waiting"},
           NEW e \in Entry, phase[e] \notin {"free", "opening", "resolved", "rejected"},
           e \notin cache
    PROVE  Over(e)
<1>1. CASE phase[e] = "failed"
  BY <1>1 DEF Over, OverAfter
<1>2. CASE phase[e] = "live"
  <2>1. closed[e]
    BY <1>2 DEF IInv, NoLeak, Opened, Tracked, FitsInv, NoneParked, TypeOK, PhaseInv
  <2>2. Holders(e) = {}
    BY <2>1, FitsHeld
  <2>3. QED
    BY <1>2, <2>1, <2>2 DEF Over, OverAfter
<1>3. phase[e] \in {"failed", "live"}
  BY DEF IInv, TypeOK, Phase, FitsInv, ExactEntry
<1>4. QED
  BY <1>1, <1>2, <1>3

LEMMA FitsHit ==
    ASSUME IInv, Fits, FitsInv, NEW c \in Call, NEW k \in Key, AcquireHit(c, k)
    PROVE  FitsInv'
<1>1. PICK e \in Fresh(k) : /\ ~closed[e]
                            /\ refCount' = [refCount EXCEPT ![e] = @ + 1]
                            /\ holds' = [holds EXCEPT ![c] = e]
  BY DEF AcquireHit
<1>2. /\ phase' = phase /\ keyOf' = keyOf /\ closed' = closed /\ cache' = cache
      /\ stale' = stale /\ inflight' = inflight /\ evicted' = evicted /\ awaits' = awaits
      /\ drain' = drain /\ overlap' = overlap /\ drain = "none"
  BY DEF AcquireHit, drainVars, disposed
<1>3. e \in Entry /\ e \in cache \ stale /\ holds[c] = NoEntry /\ awaits[c] = NoEntry
  BY DEF Fresh, Cached, IInv, TypeOK, AcquireHit, Idle
<1>4. \A f \in Entry : Holders(f)' = IF f = e THEN Holders(f) \cup {c} ELSE Holders(f)
  BY <1>1, <1>3 DEF Holders, IInv, TypeOK
<1>5. WaitsOrUses'
  BY <1>1, <1>2, <1>3 DEF WaitsOrUses, FitsInv, IInv, TypeOK
<1>6. NoneParked' /\ StaleUnused'
  BY <1>2, <1>3, <1>4 DEF FitsInv, NoneParked, StaleUnused, IInv, TypeOK
<1>7. ASSUME NEW f \in Entry
      PROVE  ExactEntry(f)'
  <2>1. Cached(keyOf[f])' = Cached(keyOf[f]) /\ Opened(f)' = Opened(f)
    BY <1>2 DEF Cached, Opened
  <2>2. ASSUME Opened(f)
        PROVE  refCount'[f] = Cardinality(Holders(f))'
    <3>1. refCount[f] = Cardinality(Holders(f))
      BY <1>2, <2>2 DEF FitsInv, ExactEntry
    <3>2. CASE f = e
      <4>1. c \notin Holders(e)
        BY <1>3 DEF Holders
      <4>2. Cardinality(Holders(e) \cup {c}) = Cardinality(Holders(e)) + 1
        BY <4>1, CallSets, FS_AddElement DEF Holders
      <4>3. Holders(f)' = Holders(e) \cup {c}
        BY <1>4, <3>2
      <4>4. QED
        BY <1>1, <1>3, <3>1, <3>2, <4>2, <4>3 DEF IInv, TypeOK
    <3>3. CASE f # e
      BY <1>1, <1>3, <1>4, <3>1, <3>3 DEF IInv, TypeOK
    <3>4. QED
      BY <3>2, <3>3
  <2>3. ExactEntry(f)
    BY <1>2 DEF FitsInv
  <2>4. QED
    BY <1>2, <2>1, <2>2, <2>3 DEF ExactEntry
<1>8. QED
  BY <1>2, <1>5, <1>6, <1>7 DEF FitsInv, Fits

LEMMA FitsJoin ==
    ASSUME IInv, Fits, FitsInv, NEW c \in Call, NEW k \in Key, AcquireJoin(c, k)
    PROVE  FitsInv'
<1>1. /\ UNCHANGED <<entryVars, lruVars, inflight, evicted, holds, drain, overlap>>
      /\ awaits' = [awaits EXCEPT ![c] = inflight[k]] /\ holds[c] = NoEntry
  BY DEF AcquireJoin, Idle, drainVars
<1>2. WaitsOrUses'
  BY <1>1 DEF WaitsOrUses, FitsInv, IInv, TypeOK
<1>3. \A e \in Entry : Holders(e)' = Holders(e) /\ ExactEntry(e)' = ExactEntry(e)
  BY <1>1 DEF Holders, ExactEntry, Opened, Cached, entryVars, lruVars
<1>4. NoneParked' = NoneParked /\ StaleUnused' = StaleUnused
  BY <1>1, <1>3 DEF NoneParked, StaleUnused, lruVars, entryVars, Holders
<1>5. QED
  BY <1>1, <1>2, <1>3, <1>4 DEF FitsInv, Fits

LEMMA FitsOpen ==
    ASSUME IInv, Fits, FitsInv, NEW c \in Call, NEW k \in Key, NEW e \in Entry,
           AcquireOpen(c, k, e)
    PROVE  FitsInv'
<1> DEFINE expired == Cached(k)
<1>1. /\ phase[e] = "free" /\ MustOpen(k) /\ drain = "none" /\ drain' = drain
      /\ closed' = ClosedBy(expired) /\ evicted' = ParkedBy(expired)
      /\ cache' = cache \ expired /\ stale' = stale \ expired
      /\ phase' = [phase EXCEPT ![e] = "opening"] /\ keyOf' = [keyOf EXCEPT ![e] = k]
      /\ inflight' = [inflight EXCEPT ![k] = e] /\ awaits' = [awaits EXCEPT ![c] = e]
      /\ refCount' = refCount /\ holds' = holds /\ holds[c] = NoEntry
  BY DEF AcquireOpen, Idle, disposed, drainVars
<1>2. expired \in SUBSET cache /\ expired \subseteq stale /\ e \notin cache
      /\ \A f \in expired : f \in Entry /\ keyOf[f] = k
  BY <1>1 DEF MustOpen, Fresh, Cached, IInv, TypeOK, CachedIsOpen, Opened
<1>3. \A f \in expired : Holders(f) = {} /\ refCount[f] = 0 /\ phase[f] = "live"
  <2> SUFFICES ASSUME NEW f \in expired
               PROVE  Holders(f) = {} /\ refCount[f] = 0 /\ phase[f] = "live"
    OBVIOUS
  <2>1. Holders(f) = {} /\ phase[f] # "resolved" /\ Opened(f) /\ ExactEntry(f)
    BY <1>1, <1>2 DEF FitsInv, StaleUnused, IInv, CachedIsOpen
  <2>2. QED
    BY <2>1, FS_EmptySet DEF ExactEntry, Opened
<1>4. NoneParked'
  BY <1>1, <1>2, <1>3, DisposeEffect DEF FitsInv, NoneParked, IInv
<1>5. overlap' = {}
  <2>1. ASSUME NEW f \in Entry, keyOf[f] = k
        PROVE  OverAfter(f, closed')
    <3>1. CASE f \in expired
      BY <1>1, <1>2, <1>3, <3>1, DisposeEffect DEF OverAfter, IInv
    <3>2. CASE expired # {} /\ f \notin expired
      <4>1. PICK g \in expired : TRUE
        BY <3>2
      <4>2. ~Over(g)
        BY <1>2, <1>3 DEF Over, OverAfter, IInv, CachedIsOpen
      <4>3. Over(f)
        BY <1>2, <2>1, <3>2, <4>2 DEF IInv, OneCurrent, Tracked, FitsInv
      <4>4. QED
        BY <1>1, <1>2, <4>3, DisposeEffect DEF Over, OverAfter, IInv
    <3>3. CASE expired = {}
      <4>1. inflight[k] = NoEntry /\ f \notin cache /\ phase[f] # "free"
        BY <1>1, <2>1, <3>3 DEF MustOpen, Cached, IInv, PhaseInv
      <4>2. ExactEntry(f)
        BY <1>1 DEF FitsInv
      <4>3. phase[f] \notin {"opening", "resolved", "rejected"}
        BY <2>1, <4>1, <4>2 DEF ExactEntry
      <4>4. Over(f)
        BY <1>1, <4>1, <4>3, FitsOver
      <4>5. QED
        BY <1>1, <1>2, <4>4, DisposeEffect DEF Over, OverAfter, IInv
    <3>4. QED
      BY <3>1, <3>2, <3>3
  <2>2. overlap = {}
    BY DEF FitsInv
  <2>3. QED
    BY <2>1, <2>2 DEF AcquireOpen
<1>6. WaitsOrUses'
  BY <1>1 DEF WaitsOrUses, FitsInv, IInv, TypeOK
<1>7. \A f \in Entry : Holders(f)' = Holders(f)
  BY <1>1 DEF Holders
<1>8. StaleUnused'
  BY <1>1, <1>2, <1>7 DEF StaleUnused, FitsInv, IInv, TypeOK, CachedIsOpen
<1>9. ASSUME NEW f \in Entry
      PROVE  ExactEntry(f)'
  <2>1. ExactEntry(f)
    BY <1>1 DEF FitsInv
  <2>2. CASE f = e
    <3>1. phase'[f] = "opening" /\ keyOf'[f] = k /\ inflight'[k] = f
      BY <1>1, <2>2 DEF IInv, TypeOK
    <3>2. Cached(k)' = {}
      BY <1>1, <1>2 DEF Cached, IInv, TypeOK
    <3>3. QED
      BY <3>1, <3>2 DEF ExactEntry, Opened, Cached
  <2>3. CASE f # e
    <3>1. phase'[f] = phase[f] /\ keyOf'[f] = keyOf[f] /\ Opened(f)' = Opened(f)
      BY <1>1, <2>3 DEF IInv, TypeOK, Opened
    <3>2. phase[f] \in {"opening", "resolved", "rejected"} => keyOf[f] # k
      <4>1. ASSUME phase[f] \in {"opening", "resolved", "rejected"}, keyOf[f] = k
            PROVE  FALSE
        <5>1. inflight[k] = f
          BY <2>1, <4>1 DEF ExactEntry
        <5>2. expired # {}
          BY <1>1, <5>1 DEF MustOpen
        <5>3. phase[f] = "resolved" /\ f \in cache
          BY <2>1, <4>1, <5>2 DEF ExactEntry
        <5>4. f \in expired
          BY <4>1, <5>3 DEF Cached
        <5>5. QED
          BY <1>3, <5>3, <5>4
      <4>2. QED
        BY <4>1
    <3>3. phase[f] \in {"opening", "resolved", "rejected"} => inflight'[keyOf[f]] = inflight[keyOf[f]]
      BY <1>1, <3>2 DEF IInv, TypeOK
    <3>4. Cached(keyOf[f])' \subseteq Cached(keyOf[f])
      BY <1>1, <1>2, <3>1 DEF Cached, IInv, TypeOK
    <3>5. phase[f] = "resolved" /\ f \in cache => f \in cache'
      BY <1>1, <1>3
    <3>6. QED
      BY <1>1, <1>7, <2>1, <3>1, <3>3, <3>4, <3>5 DEF ExactEntry
  <2>4. QED
    BY <2>2, <2>3
<1>10. QED
  BY <1>4, <1>5, <1>6, <1>8, <1>9 DEF FitsInv, Fits

LEMMA FitsResolve ==
    ASSUME IInv, Fits, FitsInv, NEW e \in Entry, FactoryResolves(e)
    PROVE  FitsInv'
<1>1. /\ phase[e] = "opening" /\ phase' = [phase EXCEPT ![e] = "resolved"]
      /\ UNCHANGED <<keyOf, refCount, awaits, holds, drain, overlap>>
  BY DEF FactoryResolves, callVars, drainVars
<1>2. WaitsOrUses' /\ overlap' = {}
  BY <1>1 DEF WaitsOrUses, FitsInv
<1> SUFFICES ASSUME drain \in {"none", "waiting"}
             PROVE  (NoneParked /\ StaleUnused /\ \A f \in Entry : ExactEntry(f))'
  BY <1>1, <1>2 DEF FitsInv, Fits
<1>3. /\ Cached(keyOf[e]) = {} /\ inflight[keyOf[e]] = e /\ keyOf[e] \in Key
      /\ e \notin cache
  BY <1>1 DEF FitsInv, ExactEntry, IInv, TypeOK, PhaseInv, CachedIsOpen, Opened
<1>4. Cardinality(cache) < Max
  BY <1>3, FitsRoom
<1>5. ~(Cardinality(cache) >= Max)
  <2>1. IsFiniteSet(cache)
    <3> DEFINE key == [x \in cache |-> keyOf[x]]
    <3>1. key \in [cache -> Key]
      BY DEF IInv, TypeOK, PhaseInv, CachedIsOpen, Opened
    <3>2. key \in Injection(cache, Key)
      BY <3>1 DEF Injection, IsInjective, IInv, CachedIsOpen
    <3> HIDE DEF key
    <3>3. QED
      BY <3>2, FS_Injection DEF Fits
  <2>2. Cardinality(cache) \in Nat
    BY <2>1, FS_CardinalityType
  <2>3. QED
    BY <1>4, <2>2
<1>6. PICK gone \in SUBSET cache :
          /\ gone = {}
          /\ closed' = ClosedBy(gone) /\ evicted' = ParkedBy(gone)
          /\ inflight' = InflightAfter(gone)
          /\ cache' = (cache \ gone) \cup {e} /\ stale' = stale \ gone
  BY <1>3, <1>5 DEF FactoryResolves
<1>7. cache' = cache \cup {e} /\ stale' = stale
  BY <1>6
<1>8. NoneParked' /\ inflight' = inflight
  <2>1. inflight' = [k \in Key |-> inflight[k]] /\ inflight \in [Key -> Entry \cup {NoEntry}]
    BY <1>6 DEF InflightAfter, IInv, TypeOK
  <2>2. evicted' = [k \in Key |-> evicted[k]]
    BY <1>6 DEF ParkedBy, DisposeBusy
  <2>3. QED
    BY <2>1, <2>2 DEF NoneParked, FitsInv
<1>9. \A f \in Entry : Holders(f)' = Holders(f)
  BY <1>1 DEF Holders
<1>10. StaleUnused'
  BY <1>1, <1>3, <1>7, <1>9 DEF StaleUnused, FitsInv, IInv, TypeOK
<1>11. ASSUME NEW f \in Entry
       PROVE  ExactEntry(f)'
  <2>1. ExactEntry(f)
    BY DEF FitsInv
  <2>2. CASE f = e
    <3>1. phase'[f] = "resolved" /\ f \in cache' /\ inflight'[keyOf'[f]] = f
      BY <1>1, <1>3, <1>7, <1>8, <2>2 DEF IInv, TypeOK
    <3>2. refCount[f] = 0 /\ Holders(f) = {}
      BY <1>1, <2>2 DEF IInv, PhaseInv
    <3>3. refCount'[f] = Cardinality(Holders(f))'
      BY <1>1, <1>9, <3>2, FS_EmptySet
    <3>4. QED
      BY <3>1, <3>3 DEF ExactEntry
  <2>3. CASE f # e
    <3>1. phase'[f] = phase[f] /\ keyOf'[f] = keyOf[f] /\ Opened(f)' = Opened(f)
      BY <1>1, <2>3 DEF IInv, TypeOK, Opened
    <3>2. ASSUME phase[f] \in {"opening", "rejected"}
          PROVE  Cached(keyOf[f])' = {}
      <4>1. Cached(keyOf[f]) = {} /\ keyOf[f] # keyOf[e]
        BY <1>3, <2>1, <2>3, <3>2 DEF ExactEntry
      <4>2. QED
        BY <1>1, <1>7, <4>1 DEF Cached
    <3>3. QED
      BY <1>1, <1>7, <1>8, <1>9, <2>1, <3>1, <3>2 DEF ExactEntry
  <2>4. QED
    BY <2>2, <2>3
<1>12. QED
  BY <1>8, <1>10, <1>11

LEMMA FitsReject ==
    ASSUME IInv, Fits, FitsInv, NEW e \in Entry, FactoryRejects(e)
    PROVE  FitsInv'
<1>1. /\ phase[e] = "opening" /\ phase' = [phase EXCEPT ![e] = "rejected"]
      /\ UNCHANGED <<keyOf, refCount, cache, stale, inflight, evicted, awaits, holds, drain,
                     overlap>>
  BY DEF FactoryRejects, lruVars, callVars, drainVars
<1>2. WaitsOrUses' = WaitsOrUses /\ NoneParked' = NoneParked
  BY <1>1 DEF WaitsOrUses, NoneParked
<1>3. \A f \in Entry : Holders(f)' = Holders(f) /\ Cached(keyOf[f])' = Cached(keyOf[f])
  BY <1>1 DEF Holders, Cached
<1>4. ASSUME StaleUnused
      PROVE  StaleUnused'
  BY <1>1, <1>3, <1>4 DEF StaleUnused, IInv, TypeOK
<1>5. ASSUME NEW f \in Entry, ExactEntry(f)
      PROVE  ExactEntry(f)'
  <2>1. CASE f = e
    <3>1. phase'[f] = "rejected" /\ inflight'[keyOf'[f]] = f /\ Cached(keyOf[f])' = {}
      BY <1>1, <1>3, <1>5, <2>1 DEF ExactEntry, IInv, TypeOK
    <3>2. QED
      BY <3>1 DEF ExactEntry, Opened
  <2>2. CASE f # e
    <3>1. phase'[f] = phase[f] /\ Opened(f)' = Opened(f)
      BY <1>1, <2>2 DEF IInv, TypeOK, Opened
    <3>2. QED
      BY <1>1, <1>3, <1>5, <3>1 DEF ExactEntry
  <2>3. QED
    BY <2>1, <2>2
<1>6. QED
  BY <1>1, <1>2, <1>4, <1>5 DEF FitsInv, Fits

LEMMA FitsContinue ==
    ASSUME IInv, Fits, FitsInv, NEW e \in Entry, Continue(e)
    PROVE  FitsInv'
<1>1. /\ phase[e] \in {"resolved", "rejected"}
      /\ awaits' = [c \in Call |-> IF c \in Waiters(e) THEN NoEntry ELSE awaits[c]]
      /\ inflight' = [inflight EXCEPT ![keyOf[e]] = NoEntry]
      /\ UNCHANGED <<keyOf, cache, stale, evicted, drain, overlap>>
  BY DEF Continue, lruVars, drainVars
<1>2. \/ /\ phase[e] = "resolved"
         /\ refCount' = [refCount EXCEPT ![e] = @ + Cardinality(Waiters(e))]
         /\ holds' = [c \in Call |-> IF c \in Waiters(e) THEN e ELSE holds[c]]
         /\ phase' = [phase EXCEPT ![e] = IF closed[e] THEN "stillborn" ELSE "live"]
      \/ /\ phase[e] = "rejected" /\ refCount' = refCount /\ holds' = holds
         /\ phase' = [phase EXCEPT ![e] = "failed"]
  BY DEF Continue, References
<1>3. \A c \in Waiters(e) : holds[c] = NoEntry
  BY DEF Waiters, FitsInv, WaitsOrUses
<1>4. WaitsOrUses' /\ overlap' = {}
  BY <1>1, <1>2 DEF WaitsOrUses, FitsInv
<1> SUFFICES ASSUME drain \in {"none", "waiting"}
             PROVE  (NoneParked /\ StaleUnused /\ \A f \in Entry : ExactEntry(f))'
  BY <1>1, <1>4 DEF FitsInv, Fits
<1>5. NoneParked'
  BY <1>1 DEF NoneParked, FitsInv
<1>6. \A f \in Entry : f # e => /\ Holders(f)' = Holders(f) /\ phase'[f] = phase[f]
                                /\ refCount'[f] = refCount[f]
  BY <1>2, <1>3 DEF Holders, IInv, TypeOK
<1>7. e \notin stale
  BY <1>1 DEF FitsInv, StaleUnused, IInv, CachedIsOpen, Opened, TypeOK
<1>8. StaleUnused'
  BY <1>1, <1>6, <1>7 DEF StaleUnused, FitsInv, IInv, TypeOK
<1>9. ASSUME NEW f \in Entry
      PROVE  ExactEntry(f)'
  <2>1. ExactEntry(f) /\ ExactEntry(e)
    BY DEF FitsInv
  <2>2. CASE f # e
    <3>1. phase'[f] = phase[f] /\ Opened(f)' = Opened(f) /\ Cached(keyOf[f])' = Cached(keyOf[f])
      BY <1>1, <1>6, <2>2 DEF Opened, Cached
    <3>2. phase[f] \in {"opening", "resolved", "rejected"} => keyOf[f] # keyOf[e]
      BY <1>1, <2>1, <2>2 DEF ExactEntry
    <3>3. phase[f] \in {"opening", "resolved", "rejected"}
            => inflight'[keyOf[f]] = inflight[keyOf[f]]
      BY <1>1, <3>2 DEF IInv, TypeOK
    <3>4. QED
      BY <1>1, <1>6, <2>1, <2>2, <3>1, <3>3 DEF ExactEntry
  <2>3. CASE f = e /\ phase[e] = "rejected"
    <3>1. phase'[f] = "failed"
      BY <1>2, <2>3 DEF IInv, TypeOK
    <3>2. QED
      BY <3>1 DEF ExactEntry, Opened
  <2>4. CASE f = e /\ phase[e] = "resolved"
    <3>1. ~closed[e]
      BY <2>1, <2>4 DEF ExactEntry, IInv, CachedIsOpen
    <3>2. phase'[f] = "live"
      BY <1>2, <2>4, <3>1 DEF IInv, TypeOK
    <3>3. Holders(e)' = Holders(e) \cup Waiters(e) /\ Holders(e) \cap Waiters(e) = {}
      BY <1>2, <1>3, <2>4 DEF Holders, Waiters
    <3>4. /\ IsFiniteSet(Holders(e)) /\ IsFiniteSet(Waiters(e))
          /\ Cardinality(Holders(e)) \in Nat /\ Cardinality(Waiters(e)) \in Nat
      BY CallSets DEF Holders, Waiters
    <3>5. Cardinality(Holders(e) \cup Waiters(e)) = Cardinality(Holders(e)) + Cardinality(Waiters(e))
      <4>1. Cardinality(Holders(e) \cup Waiters(e))
              = Cardinality(Holders(e)) + Cardinality(Waiters(e)) - Cardinality({})
        BY <3>3, <3>4, FS_Union
      <4>2. QED
        BY <3>4, <4>1, FS_EmptySet
    <3>6. refCount[e] = Cardinality(Holders(e))
      BY <2>1, <2>4 DEF ExactEntry, Opened
    <3>7. refCount'[f] = refCount[e] + Cardinality(Waiters(e))
      BY <1>2, <2>4 DEF IInv, TypeOK
    <3>8. refCount'[f] = Cardinality(Holders(f))'
      BY <2>4, <3>3, <3>5, <3>6, <3>7
    <3>9. QED
      BY <3>2, <3>8 DEF ExactEntry, Opened
  <2>5. QED
    BY <1>1, <2>2, <2>3, <2>4
<1>10. QED
  BY <1>5, <1>8, <1>9

LEMMA FitsExpire ==
    ASSUME IInv, Fits, FitsInv, NEW e \in Entry, Expire(e)
    PROVE  FitsInv'
<1>1. /\ phase[e] # "resolved" /\ Holders(e) = {} /\ stale' = stale \cup {e}
      /\ UNCHANGED <<phase, keyOf, refCount, cache, inflight, evicted, awaits, holds, drain,
                     overlap>>
  BY DEF Expire, Fits, entryVars, callVars, drainVars
<1>2. WaitsOrUses' = WaitsOrUses /\ NoneParked' = NoneParked
  BY <1>1 DEF WaitsOrUses, NoneParked
<1>3. \A f \in Entry : Holders(f)' = Holders(f) /\ ExactEntry(f)' = ExactEntry(f)
  BY <1>1 DEF Holders, ExactEntry, Opened, Cached
<1>4. StaleUnused => StaleUnused'
  BY <1>1 DEF StaleUnused, Holders
<1>5. QED
  BY <1>1, <1>2, <1>3, <1>4 DEF FitsInv, Fits

LEMMA FitsRelease ==
    ASSUME IInv, Fits, FitsInv, NEW c \in Call, Release(c)
    PROVE  FitsInv'
<1>0. PICK x \in Entry : holds[c] = x
  BY DEF Release, IInv, TypeOK
<1> DEFINE t == ReleaseTarget(keyOf[x])
<1>1. /\ x # NoEntry /\ holds' = [holds EXCEPT ![c] = NoEntry]
      /\ UNCHANGED <<phase, keyOf, cache, stale, inflight, awaits, drain, overlap>>
  BY <1>0 DEF Release, lruVars, drainVars
<1>2. WaitsOrUses' /\ overlap' = {}
  BY <1>1 DEF WaitsOrUses, FitsInv, IInv, TypeOK
<1> SUFFICES ASSUME drain \in {"none", "waiting"}
             PROVE  (NoneParked /\ StaleUnused /\ \A f \in Entry : ExactEntry(f))'
  BY <1>1, <1>2 DEF FitsInv, Fits
<1>3. x \in Entry /\ c \in Holders(x) /\ Holders(x) # {}
  BY <1>0, <1>1 DEF IInv, TypeOK, Holders
<1>4. /\ Opened(x) /\ ~closePending[x] /\ Fresh(keyOf[x]) = {x}
      /\ refCount[x] = Cardinality(Holders(x))
  BY <1>3, FitsHeld
<1>5. t = x
  BY <1>4 DEF ReleaseTarget
<1>6. refCount' = [refCount EXCEPT ![x] = Decremented(@)] /\ evicted' = evicted
  <2>1. LastRelease(t) = FALSE /\ t # NoEntry
    BY <1>1, <1>4, <1>5 DEF LastRelease
  <2>2. QED
    BY <1>0, <1>5, <2>1 DEF Release
<1>7. \A f \in Entry : Holders(f)' = Holders(f) \ {c}
  BY <1>1 DEF Holders, IInv, TypeOK
<1>8. \A f \in Entry : f # x => Holders(f)' = Holders(f)
  BY <1>0, <1>7 DEF Holders
<1>9. refCount'[x] = Cardinality(Holders(x))'
  <2>1. IsFiniteSet(Holders(x)) /\ Cardinality(Holders(x)) \in Nat /\ Cardinality(Holders(x)) # 0
    BY <1>3, CallSets DEF Holders
  <2>2. Cardinality(Holders(x) \ {c}) = Cardinality(Holders(x)) - 1
    BY <1>3, <2>1, FS_RemoveElement
  <2>3. refCount'[x] = refCount[x] - 1
    BY <1>3, <1>4, <1>6, <2>1 DEF Decremented, IInv, TypeOK
  <2>4. QED
    BY <1>3, <1>4, <1>7, <2>2, <2>3
<1>10. NoneParked'
  BY <1>6 DEF NoneParked, FitsInv
<1>11. StaleUnused'
  BY <1>1, <1>7 DEF StaleUnused, FitsInv, IInv, TypeOK
<1>12. ASSUME NEW f \in Entry
       PROVE  ExactEntry(f)'
  <2>1. ExactEntry(f) /\ Opened(f)' = Opened(f) /\ Cached(keyOf[f])' = Cached(keyOf[f])
    BY <1>1 DEF FitsInv, Opened, Cached
  <2>2. Opened(f) => refCount'[f] = Cardinality(Holders(f))'
    <3>1. CASE f = x
      BY <1>9, <3>1
    <3>2. CASE f # x
      BY <1>3, <1>6, <1>8, <2>1, <3>2 DEF ExactEntry, IInv, TypeOK
    <3>3. QED
      BY <3>1, <3>2
  <2>3. QED
    BY <1>1, <2>1, <2>2 DEF ExactEntry
<1>13. QED
  BY <1>10, <1>11, <1>12

LEMMA FitsShutdown ==
    ASSUME IInv, Fits, FitsInv,
           ShutdownBegin \/ ShutdownClose \/ ShutdownReturn \/ UNCHANGED vars
    PROVE  FitsInv'
<1>1. /\ UNCHANGED <<phase, keyOf, refCount, awaits, holds, overlap>>
      /\ drain' \in {"none", "waiting"} =>
           drain \in {"none", "waiting"} /\ UNCHANGED <<cache, stale, inflight, evicted>>
  BY DEF ShutdownBegin, ShutdownClose, ShutdownReturn, vars, entryVars, lruVars, callVars,
         drainVars, disposed
<1>2. WaitsOrUses' = WaitsOrUses
  BY <1>1 DEF WaitsOrUses
<1>3. ASSUME drain' \in {"none", "waiting"}
      PROVE  /\ NoneParked' = NoneParked /\ StaleUnused' = StaleUnused
             /\ \A f \in Entry : ExactEntry(f)' = ExactEntry(f)
  BY <1>1, <1>3 DEF NoneParked, StaleUnused, ExactEntry, Holders, Opened, Cached
<1>4. QED
  BY <1>1, <1>2, <1>3 DEF FitsInv, Fits

LEMMA FitsInit == Init => FitsInv
<1> SUFFICES ASSUME Init
             PROVE  FitsInv
  OBVIOUS
<1>1. \A e \in Entry : ExactEntry(e)
  BY DEF Init, ExactEntry, Opened
<1>2. overlap = {} /\ WaitsOrUses /\ NoneParked /\ StaleUnused
  BY DEF Init, WaitsOrUses, NoneParked, StaleUnused
<1>3. QED
  BY <1>1, <1>2 DEF FitsInv

LEMMA FitsNext == IInv /\ FitsInv /\ [Next]_vars => FitsInv'
<1> SUFFICES ASSUME IInv, FitsInv, [Next]_vars
             PROVE  FitsInv'
  OBVIOUS
<1>1. CASE ~Fits
  BY <1>1 DEF FitsInv, Fits
<1>2. CASE Fits
  <2>1. ASSUME NEW c \in Call, NEW k \in Key,
               AcquireHit(c, k) \/ AcquireJoin(c, k) \/ \E e \in Entry : AcquireOpen(c, k, e)
        PROVE  FitsInv'
    BY <1>2, <2>1, FitsHit, FitsJoin, FitsOpen
  <2>2. ASSUME NEW e \in Entry,
               FactoryResolves(e) \/ FactoryRejects(e) \/ Continue(e) \/ Expire(e)
        PROVE  FitsInv'
    BY <1>2, <2>2, FitsResolve, FitsReject, FitsContinue, FitsExpire
  <2>3. ASSUME NEW c \in Call, Release(c)
        PROVE  FitsInv'
    BY <1>2, <2>3, FitsRelease
  <2>4. CASE ShutdownBegin \/ ShutdownClose \/ ShutdownReturn \/ UNCHANGED vars
    BY <1>2, <2>4, FitsShutdown
  <2>5. QED
    BY <2>1, <2>2, <2>3, <2>4 DEF Next
<1>3. QED
  BY <1>1, <1>2

(* A pool with room for every repository, and calls shorter than the TTL:    *)
(* no repository is opened while an earlier handle of it is open or in use.  *)
THEOREM FitsNeverOverlaps == Spec => []FitsNoOverlap
<1>1. FitsInv => FitsNoOverlap
  BY DEF FitsInv, FitsNoOverlap
<1>2. Init => FitsInv
  BY FitsInit
<1>3. IInv /\ FitsInv /\ [Next]_vars => FitsInv'
  BY FitsNext
<1>4. QED
  BY <1>1, <1>2, <1>3, Invariance, PTL DEF Spec

(* ... and until shutdown closes the pool the counter of a store is exactly  *)
(* the number of calls that use it.                                          *)
THEOREM FitsCountsExactly == Spec => []FitsExactCount
<1>1. FitsInv => FitsExactCount
  BY DEF FitsInv, ExactEntry, FitsExactCount
<1>2. Init => FitsInv
  BY FitsInit
<1>3. IInv /\ FitsInv /\ [Next]_vars => FitsInv'
  BY FitsNext
<1>4. QED
  BY <1>1, <1>2, <1>3, Invariance, PTL DEF Spec
=============================================================================
