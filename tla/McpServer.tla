------------------------------ MODULE McpServer ------------------------------
(***************************************************************************)
(* The stdio server around the pool (startStdioServer and buildServer in   *)
(* packages/mcp/src/server.ts): SIGINT, SIGTERM and the closing of stdin   *)
(* each call bail, which closes the MCP server, shuts the pool down and    *)
(* exits the process.  Nothing runs after the exit.                        *)
(***************************************************************************)
EXTENDS ConnectionPool

CONSTANT Trigger    \* the signals and stdin events that will be delivered

ASSUME TriggerAssumption == IsFiniteSet(Trigger)

VARIABLES
    bail,           \* progress of the bail call each trigger makes
    exited          \* process.exit was called

serverVars == <<vars, bail, exited>>

ServerTypeOK ==
    /\ TypeOK
    /\ bail \in [Trigger -> {"idle", "closing", "draining", "exiting"}]
    /\ exited \in BOOLEAN

ServerInit ==
    /\ Init
    /\ bail = [t \in Trigger |-> "idle"]
    /\ exited = FALSE

(* A handler starts bail: it calls server.close(). *)
Fire(t) ==
    /\ bail[t] = "idle"
    /\ bail' = [bail EXCEPT ![t] = "closing"]
    /\ UNCHANGED <<vars, exited>>

(* The server is closed: bail calls pool.shutdown(), which returns at once *)
(* when it has been called before.                                         *)
ShutdownPool(t) ==
    /\ bail[t] = "closing"
    /\ \/ /\ ShutdownBegin
          /\ bail' = [bail EXCEPT ![t] = "draining"]
       \/ /\ disposed
          /\ bail' = [bail EXCEPT ![t] = "exiting"]
          /\ UNCHANGED vars
    /\ UNCHANGED exited

DrainAwaited_NotAwaited == TRUE

DrainAwaited == drain = "done"

(* The shutdown this bail began has returned. *)
Drained(t) ==
    /\ bail[t] = "draining"
    /\ DrainAwaited
    /\ bail' = [bail EXCEPT ![t] = "exiting"]
    /\ UNCHANGED <<vars, exited>>

Exit(t) ==
    /\ bail[t] = "exiting"
    /\ exited' = TRUE
    /\ UNCHANGED <<vars, bail>>

(* The pool's own steps; its shutdown is begun by bail only. *)
PoolStep ==
    /\ \/ \E c \in Call, k \in Key : AcquireHit(c, k)
       \/ \E c \in Call, k \in Key : AcquireJoin(c, k)
       \/ \E c \in Call, k \in Key, e \in Entry : AcquireOpen(c, k, e)
       \/ \E e \in Entry : FactoryResolves(e)
       \/ \E e \in Entry : FactoryRejects(e)
       \/ \E e \in Entry : Continue(e)
       \/ \E e \in Entry : Expire(e)
       \/ \E c \in Call : Release(c)
       \/ ShutdownClose
       \/ ShutdownReturn
    /\ UNCHANGED <<bail, exited>>

ServerNext ==
    /\ ~exited
    /\ \/ PoolStep
       \/ \E t \in Trigger : Fire(t)
       \/ \E t \in Trigger : ShutdownPool(t)
       \/ \E t \in Trigger : Drained(t)
       \/ \E t \in Trigger : Exit(t)

(* While the process runs, the event loop carries on what was begun; no     *)
(* trigger has to come.                                                     *)
Running(A) == ~exited /\ A /\ UNCHANGED <<bail, exited>>

ServerSpec ==
    /\ ServerInit /\ [][ServerNext]_serverVars
    /\ \A e \in Entry : WF_serverVars(Running(FactoryResolves(e) \/ FactoryRejects(e)))
    /\ \A e \in Entry : WF_serverVars(Running(Continue(e)))
    /\ \A c \in Call : WF_serverVars(Running(Release(c)))
    /\ WF_serverVars(Running(ShutdownClose \/ ShutdownReturn))
    /\ \A t \in Trigger :
         WF_serverVars(~exited /\ (ShutdownPool(t) \/ Drained(t) \/ Exit(t)))

-----------------------------------------------------------------------------
(* One trigger alone: the process exits with the pool drained, no store of  *)
(* a tracked repository left open.                                          *)
OneBailDrains ==
    exited /\ Cardinality({t \in Trigger : bail[t] # "idle"}) = 1
        => /\ drain = "done"
           /\ \A e \in Entry : Opened(e) /\ Tracked(e) => closed[e]

(* What it rests on: until a second trigger fires, each stage of the bail    *)
(* goes with a stage of the shutdown.                                        *)
Fired == {t \in Trigger : bail[t] # "idle"}

BailInv ==
    /\ exited => \E t \in Trigger : bail[t] = "exiting"
    /\ Fired = {} => drain = "none"
    /\ (\A t, u \in Fired : t = u) =>
         \A t \in Trigger : /\ bail[t] = "closing" => drain = "none"
                            /\ bail[t] = "exiting" => drain = "done"

(* Every trigger ends the process, whatever opens are under way and whether *)
(* they succeed.                                                            *)
BailExits == \A t \in Trigger : bail[t] = "closing" ~> exited

(* acquire returns, or the process has exited.                              *)
ServedOrExited == \A c \in Call : awaits[c] # NoEntry ~> (awaits[c] = NoEntry \/ exited)

(* ParkedIsClosed, as long as the process runs.                             *)
ParkedIsClosedOrExited ==
    \A e \in Entry :
        (closePending[e] /\ refCount[e] = Cardinality(Holders(e)) /\ ~closed[e])
            ~> (closed[e] \/ ~Tracked(e) \/ exited)

(* The entry point's comment, which fails for two triggers: the handler     *)
(* drains the pool before exiting.                                          *)
DrainsBeforeExit == exited => drain = "done"
=============================================================================
