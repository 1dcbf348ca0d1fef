---------------------------- MODULE McpServerProofs ----------------------------
(***************************************************************************)
(* The server leaves the pool's invariant alone, and one trigger exits     *)
(* with the pool drained.                                                  *)
(***************************************************************************)
EXTENDS McpServer, ConnectionPoolProofs

(* Each step of the server is a step of the pool or leaves the pool alone.  *)
LEMMA PoolOrStutter ==
    ASSUME [ServerNext]_serverVars
    PROVE  [Next]_vars
<1>1. CASE PoolStep
  BY <1>1 DEF PoolStep, Next
<1>2. ASSUME NEW t \in Trigger, Fire(t) \/ ShutdownPool(t) \/ Drained(t) \/ Exit(t)
      PROVE  [Next]_vars
  <2>1. CASE UNCHANGED vars
    BY <2>1
  <2>2. CASE ShutdownBegin
    BY <2>2 DEF Next
  <2>3. QED
    BY <1>2, <2>1, <2>2 DEF Fire, ShutdownPool, Drained, Exit
<1>3. CASE UNCHANGED serverVars
  BY <1>3 DEF serverVars
<1>4. QED
  BY <1>1, <1>2, <1>3 DEF ServerNext

(* The pool's own steps carry a shutdown on; they do not begin one.         *)
LEMMA PoolStepDrain ==
    ASSUME PoolStep
    PROVE  /\ bail' = bail /\ exited' = exited
           /\ \/ drain' = drain
              \/ drain = "waiting" /\ drain' = "closing"
              \/ drain = "closing" /\ drain' = "done"
<1>1. ASSUME NEW c \in Call, NEW k \in Key,
             AcquireHit(c, k) \/ AcquireJoin(c, k) \/ \E e \in Entry : AcquireOpen(c, k, e)
      PROVE  drain' = drain
  BY <1>1 DEF AcquireHit, AcquireJoin, AcquireOpen, drainVars
<1>2. ASSUME NEW e \in Entry,
             FactoryResolves(e) \/ FactoryRejects(e) \/ Continue(e) \/ Expire(e)
      PROVE  drain' = drain
  BY <1>2 DEF FactoryResolves, FactoryRejects, Continue, Expire, drainVars
<1>3. ASSUME NEW c \in Call, Release(c)
      PROVE  drain' = drain
  BY <1>3 DEF Release, drainVars
<1>4. CASE ShutdownClose \/ ShutdownReturn
  BY <1>4 DEF ShutdownClose, ShutdownReturn, PoolStep
<1>5. QED
  BY <1>1, <1>2, <1>3, <1>4 DEF PoolStep

LEMMA BailInit == ServerInit => ServerTypeOK /\ BailInv
<1> SUFFICES ASSUME ServerInit
             PROVE  ServerTypeOK /\ BailInv
  OBVIOUS
<1>1. TypeOK
  BY InitIInv DEF ServerInit, IInv
<1>2. ServerTypeOK
  BY <1>1 DEF ServerInit, ServerTypeOK
<1>3. BailInv
  BY DEF ServerInit, Init, BailInv, Fired
<1>4. QED
  BY <1>2, <1>3

LEMMA BailStep ==
    ASSUME ServerTypeOK, BailInv, TypeOK', [ServerNext]_serverVars
    PROVE  ServerTypeOK' /\ BailInv'
<1>1. CASE UNCHANGED serverVars
  BY <1>1 DEF serverVars, vars, drainVars, ServerTypeOK, BailInv, Fired
<1>2. CASE PoolStep
  <2>1. ServerTypeOK'
    BY <1>2, PoolStepDrain DEF ServerTypeOK
  <2>2. Fired' = Fired
    BY <1>2, PoolStepDrain DEF Fired
  <2>3. BailInv'
    BY <1>2, <2>2, PoolStepDrain DEF BailInv, Fired
  <2>4. QED
    BY <2>1, <2>3
<1>3. ASSUME NEW t \in Trigger, Fire(t)
      PROVE  ServerTypeOK' /\ BailInv'
  <2>1. /\ bail[t] = "idle" /\ bail' = [bail EXCEPT ![t] = "closing"]
        /\ drain' = drain /\ exited' = exited
    BY <1>3 DEF Fire, vars, drainVars
  <2>2. ServerTypeOK'
    BY <2>1 DEF ServerTypeOK
  <2>3. Fired' = Fired \cup {t} /\ t \notin Fired
    BY <2>1 DEF Fired, ServerTypeOK
  <2>4. (exited => \E u \in Trigger : bail[u] = "exiting")'
    BY <2>1 DEF BailInv, ServerTypeOK
  <2>5. ASSUME \A u, v \in Fired' : u = v
        PROVE  drain = "none" /\ \A u \in Trigger : u # t => bail'[u] = "idle"
    <3>1. Fired = {}
      BY <2>3, <2>5
    <3>2. \A u \in Trigger : u # t => bail'[u] = bail[u] /\ bail[u] = "idle"
      BY <2>1, <3>1 DEF Fired, ServerTypeOK
    <3>3. QED
      BY <3>1, <3>2 DEF BailInv
  <2>6. bail'[t] = "closing"
    BY <2>1 DEF ServerTypeOK
  <2>7. QED
    BY <2>1, <2>2, <2>3, <2>4, <2>5, <2>6 DEF BailInv
<1>4. ASSUME NEW t \in Trigger, ShutdownPool(t) \/ Drained(t) \/ Exit(t)
      PROVE  ServerTypeOK' /\ BailInv'
  <2>1. bail[t] # "idle"
    BY <1>4 DEF ShutdownPool, Drained, Exit
  <2>2. PICK stage \in {"draining", "exiting"} : bail' = [bail EXCEPT ![t] = stage]
    <3>1. CASE ShutdownPool(t) \/ Drained(t)
      BY <3>1 DEF ShutdownPool, Drained
    <3>2. CASE Exit(t)
      <4>1. bail' = [bail EXCEPT ![t] = "exiting"]
        BY <3>2 DEF Exit, ServerTypeOK
      <4>2. QED
        BY <4>1
    <3>3. QED
      BY <1>4, <3>1, <3>2
  <2>3. exited' \in BOOLEAN
    BY <1>4 DEF ShutdownPool, Drained, Exit, ServerTypeOK
  <2>4. ServerTypeOK'
    BY <2>2, <2>3 DEF ServerTypeOK
  <2>5. bail'[t] = stage /\ \A u \in Trigger : u # t => bail'[u] = bail[u]
    BY <2>2 DEF ServerTypeOK
  <2>6. Fired' = Fired /\ t \in Fired
    BY <2>1, <2>5 DEF Fired
  <2>7. (exited => \E u \in Trigger : bail[u] = "exiting")'
    <3>1. CASE Exit(t)
      BY <3>1 DEF Exit
    <3>2. CASE ShutdownPool(t) \/ Drained(t)
      <4>1. exited' = exited
        BY <3>2 DEF ShutdownPool, Drained
      <4>2. ASSUME NEW u \in Trigger, bail[u] = "exiting"
            PROVE  bail'[u] = "exiting"
        BY <3>2, <4>2, <2>5 DEF ShutdownPool, Drained
      <4>3. QED
        BY <4>1, <4>2 DEF BailInv
    <3>3. QED
      BY <1>4, <3>1, <3>2
  <2>8. ASSUME \A u, v \in Fired' : u = v
        PROVE  stage = "exiting" => drain' = "done"
    <3>1. /\ bail[t] = "closing" => drain = "none"
          /\ bail[t] = "exiting" => drain = "done"
      <4>1. \A u, v \in Fired : u = v
        BY <2>6, <2>8
      <4>2. QED
        BY <4>1 DEF BailInv
    <3>2. CASE ShutdownPool(t)
      <4>1. ~disposed
        BY <3>1, <3>2 DEF ShutdownPool, disposed
      <4>2. bail' = [bail EXCEPT ![t] = "draining"]
        BY <3>2, <4>1 DEF ShutdownPool
      <4>3. stage = "draining"
        BY <2>5, <4>2 DEF ServerTypeOK
      <4>4. QED
        BY <4>3
    <3>3. CASE Drained(t)
      BY <3>3 DEF Drained, DrainAwaited, vars, drainVars
    <3>4. CASE Exit(t)
      BY <3>1, <3>4 DEF Exit, vars, drainVars
    <3>5. QED
      BY <1>4, <3>2, <3>3, <3>4
  <2>9. ASSUME \A u, v \in Fired' : u = v, NEW u \in Trigger, u # t
        PROVE  bail'[u] = "idle"
    BY <2>5, <2>6, <2>9 DEF Fired
  <2>10. QED
    BY <2>4, <2>5, <2>6, <2>7, <2>8, <2>9 DEF BailInv
<1>5. QED
  BY <1>1, <1>2, <1>3, <1>4 DEF ServerNext

(* The pool's invariant and the bail's, in every state of the server.       *)
THEOREM ServerInvariance == ServerSpec => [](IInv /\ ServerTypeOK /\ BailInv)
<1>1. ServerInit => IInv /\ ServerTypeOK /\ BailInv
  BY InitIInv, BailInit DEF ServerInit
<1>2. IInv /\ ServerTypeOK /\ BailInv /\ [ServerNext]_serverVars
        => (IInv /\ ServerTypeOK /\ BailInv)'
  <2> SUFFICES ASSUME IInv, ServerTypeOK, BailInv, [ServerNext]_serverVars
               PROVE  (IInv /\ ServerTypeOK /\ BailInv)'
    OBVIOUS
  <2>1. IInv'
    BY PoolOrStutter, NextIInv
  <2>2. TypeOK'
    BY <2>1 DEF IInv
  <2>3. QED
    BY <2>1, <2>2, BailStep
<1>3. QED
  BY <1>1, <1>2, PTL DEF ServerSpec

(* One trigger alone exits only when shutdown has returned, and then every  *)
(* store of a tracked repository is closed.                                 *)
THEOREM OneBailDrainsPool == ServerSpec => []OneBailDrains
<1>1. IInv /\ ServerTypeOK /\ BailInv => OneBailDrains
  <2> SUFFICES ASSUME IInv, BailInv, exited, Cardinality(Fired) = 1
               PROVE  /\ drain = "done"
                      /\ \A e \in Entry : Opened(e) /\ Tracked(e) => closed[e]
    BY DEF OneBailDrains, Fired
  <2>1. IsFiniteSet(Fired)
    BY TriggerAssumption, FS_Subset DEF Fired
  <2>2. \A t, u \in Fired : t = u
    <3>1. \E x : Fired = {x}
      BY <2>1, FS_Singleton
    <3>2. QED
      BY <3>1
  <2>3. PICK t \in Trigger : bail[t] = "exiting"
    BY DEF BailInv
  <2>4. drain = "done"
    BY <2>2, <2>3 DEF BailInv
  <2>5. QED
    BY <2>4 DEF IInv, ShutdownDrains
<1>2. QED
  BY <1>1, ServerInvariance, PTL
=============================================================================
