------------------------------ MODULE NetnsRig ------------------------------
(***************************************************************************)
(* The rig of a machine and the runs that build and remove it: the lock    *)
(* file (orchestrator/run/acquisition_lock.go), the setup and teardown     *)
(* commands (orchestrator/netops/netops.go) and the way Run                *)
(* (orchestrator/run/runner.go) executes them, stops half way, checks the  *)
(* result with traffic of its own (orchestrator/netops/gate.go), and       *)
(* cleans up what it made.                                                 *)
(*                                                                         *)
(* A command can fail; one that is killed because the operator cancels may *)
(* have had its effect.  An orchestrator can be killed at any point: its   *)
(* lock goes with it, its namespaces stay.                                 *)
(***************************************************************************)
EXTENDS Integers, FiniteSets, Sequences

CONSTANTS
  Runs,       \* orchestrators on the machine, each with one Run
  MaxFailures \* bound: commands that fail for reasons of their own

ASSUME RigAssumption ==
  /\ Runs # {} /\ MaxFailures \in Nat
  /\ {"nobody", "debris"} \intersect Runs = {}

Namespaces == {"server_ns", "client_ns"}
Pieces == Namespaces \union {"pair"}
None == "nobody"

VARIABLES
  holder,    \* who has the lock
  at,        \* where each run is
  completed, \* its setup commands that succeeded
  checked,   \* the checks of its finished rig that passed
  spent,     \* the packet counters of the loss traces are past their start
  todo,      \* the namespaces its teardown has yet to delete
  maker,     \* who made each piece; None when it does not exist
  inside,    \* the namespaces that hold their end of the pair
  canceled,  \* the runs whose operator canceled them
  failures,  \* commands that failed so far
  marred     \* the runs with a failed command (history)

rigVars == <<holder, at, completed, checked, spent, todo, maker, inside, canceled,
             failures, marred>>

RigInit ==
  /\ holder = None
  /\ at = [r \in Runs |-> "locking"]
  /\ completed = [r \in Runs |-> 0]
  /\ checked = [r \in Runs |-> 0]
  /\ spent = FALSE
  /\ todo = [r \in Runs |-> {}]
  /\ maker = [p \in Pieces |-> None]
  /\ inside = {}
  /\ canceled = {} /\ failures = 0 /\ marred = {}

-----------------------------------------------------------------------------
(* The lock                                                                *)

(* Fault: the lock is not asked for.                                       *)
FaultLock(r) ==
  /\ at[r] = "locking"
  /\ holder' = r /\ at' = [at EXCEPT ![r] = "setup"]
  /\ UNCHANGED <<completed, checked, spent, todo, maker, inside, canceled, failures, marred>>

(* flock with LOCK_NB, tried every 100 ms                                  *)
Lock(r) ==
  /\ at[r] = "locking" /\ holder = None
  /\ holder' = r /\ at' = [at EXCEPT ![r] = "setup"]
  /\ UNCHANGED <<completed, checked, spent, todo, maker, inside, canceled, failures, marred>>

GiveUp(r) ==
  /\ at[r] = "locking" /\ r \in canceled
  /\ at' = [at EXCEPT ![r] = "ended"]
  /\ UNCHANGED <<holder, completed, checked, spent, todo, maker, inside, canceled, failures, marred>>

-----------------------------------------------------------------------------
(* Setup                                                                   *)

(* The commands of BuildSetupCommands: the two namespaces, the pair in the *)
(* root namespace, each end into its namespace, and the rest (addresses,   *)
(* links up, offloads, qdiscs, traces) as one.                             *)
Commands == 6

(* `netns add' and `link add' fail when the name is taken.                 *)
CanDo(i) ==
  CASE i = 1 -> maker["server_ns"] = None
    [] i = 2 -> maker["client_ns"] = None
    [] i = 3 -> maker["pair"] = None
    [] OTHER -> TRUE

Effect(r, i) ==
  /\ maker' = CASE i = 1 -> [maker EXCEPT !["server_ns"] = r]
                [] i = 2 -> [maker EXCEPT !["client_ns"] = r]
                [] i = 3 -> [maker EXCEPT !["pair"] = r]
                [] OTHER -> maker
  /\ inside' = CASE i = 4 -> inside \union {"server_ns"}
                 [] i = 5 -> inside \union {"client_ns"}
                 [] OTHER -> inside

SetupCommand(r) ==
  /\ at[r] = "setup"
  /\ CanDo(completed[r] + 1)
  /\ Effect(r, completed[r] + 1)
  /\ completed' = [completed EXCEPT ![r] = @ + 1]
  /\ at' = [at EXCEPT ![r] = IF completed[r] + 1 = Commands THEN "checking" ELSE "setup"]
  /\ UNCHANGED <<holder, checked, spent, todo, canceled, failures, marred>>

(* Fault: whatever has been set up, everything is deleted.                 *)
FaultPartialTeardown(n) == Namespaces

(* partialNetemTeardown: nothing was made, only the server namespace was,  *)
(* or both were.                                                           *)
PartialTeardown(n) ==
  CASE n = 0 -> {}
    [] n = 1 -> {"server_ns"}
    [] OTHER -> Namespaces

(* The command fails: the name is taken, it fails by itself, or it is      *)
(* killed with the canceled context, with or without its effect.           *)
SetupFails(r) ==
  /\ at[r] = "setup"
  /\ \/ /\ ~CanDo(completed[r] + 1)
        /\ UNCHANGED <<maker, inside, failures>>
     \/ /\ failures < MaxFailures /\ failures' = failures + 1
        /\ UNCHANGED <<maker, inside>>
     \/ /\ r \in canceled /\ UNCHANGED failures
        /\ \/ UNCHANGED <<maker, inside>>
           \/ CanDo(completed[r] + 1) /\ Effect(r, completed[r] + 1)
  /\ marred' = marred \union {r}
  /\ at' = [at EXCEPT ![r] = "teardown"]
  /\ todo' = [todo EXCEPT ![r] = PartialTeardown(completed[r])]
  /\ UNCHANGED <<holder, completed, checked, spent, canceled>>

-----------------------------------------------------------------------------
(* The rig is checked                                                      *)

(* The offload settings are read back, ping measures the round trip, iperf *)
(* the loss each way, and the loss traces are set back to their start.     *)
Checks == <<"offloads", "ping", "c2s", "s2c", "reset">>
Traffic == {"ping", "c2s", "s2c"}

(* Traffic goes past the traces and takes packets of them.                 *)
Spend(c) ==
  spent' \in CASE c \in Traffic -> {spent, TRUE}
               [] c = "reset" -> {FALSE}
               [] OTHER -> {spent}

Check(r) ==
  /\ at[r] = "checking"
  /\ Spend(Checks[checked[r] + 1])
  /\ checked' = [checked EXCEPT ![r] = @ + 1]
  /\ at' = [at EXCEPT ![r] = IF checked[r] + 1 = Len(Checks) THEN "measuring" ELSE "checking"]
  /\ UNCHANGED <<holder, completed, todo, maker, inside, canceled, failures, marred>>

(* A tool fails, is canceled, or measures another network than the one     *)
(* asked for: nothing is measured on this rig, and the deferred teardown   *)
(* runs.                                                                   *)
CheckFails(r) ==
  /\ at[r] = "checking"
  /\ Spend(Checks[checked[r] + 1])
  /\ at' = [at EXCEPT ![r] = "teardown"]
  /\ todo' = [todo EXCEPT ![r] = Namespaces]
  /\ UNCHANGED <<holder, completed, checked, maker, inside, canceled, failures, marred>>

-----------------------------------------------------------------------------
(* The run itself, and teardown                                            *)

(* Fault: the second namespace is forgotten.                               *)
FaultFinish(r) ==
  /\ at[r] = "measuring"
  /\ at' = [at EXCEPT ![r] = "teardown"]
  /\ todo' = [todo EXCEPT ![r] = {"server_ns"}]
  /\ UNCHANGED <<holder, completed, checked, spent, maker, inside, canceled, failures, marred>>

(* However the run ends, its deferred teardown follows.                    *)
Finish(r) ==
  /\ at[r] = "measuring"
  /\ at' = [at EXCEPT ![r] = "teardown"]
  /\ todo' = [todo EXCEPT ![r] = Namespaces]
  /\ UNCHANGED <<holder, completed, checked, spent, maker, inside, canceled, failures, marred>>

(* The kernel removes the pair with either of its ends.                    *)
Deleted(ns) == IF ns \in inside THEN {ns, "pair"} ELSE {ns}

(* `netns del' of the next namespace, the server's first.                  *)
Delete(r) ==
  /\ at[r] = "teardown"
  /\ \E ns \in todo[r] :
       /\ ns = "client_ns" => "server_ns" \notin todo[r]
       /\ todo' = [todo EXCEPT ![r] = @ \ {ns}]
       /\ \/ /\ maker' = [p \in Pieces |-> IF p \in Deleted(ns) THEN None ELSE maker[p]]
             /\ inside' = IF ns \in inside THEN {} ELSE inside
             /\ UNCHANGED <<failures, marred>>
          \/ /\ failures < MaxFailures /\ failures' = failures + 1
             /\ marred' = marred \union {r}
             /\ UNCHANGED <<maker, inside>>
  /\ UNCHANGED <<holder, at, completed, checked, spent, canceled>>

(* What Run knew about its rig ends with it.                               *)
Forget(r) ==
  /\ completed' = [completed EXCEPT ![r] = 0]
  /\ checked' = [checked EXCEPT ![r] = 0]
  /\ todo' = [todo EXCEPT ![r] = {}]

Unlock(r) ==
  /\ at[r] = "teardown" /\ todo[r] = {}
  /\ holder' = None /\ at' = [at EXCEPT ![r] = "ended"]
  /\ Forget(r)
  /\ UNCHANGED <<spent, maker, inside, canceled, failures, marred>>

-----------------------------------------------------------------------------
(* Around the run                                                          *)

AtWork(r) == at[r] \in {"setup", "checking", "measuring", "teardown"}

Cancel(r) ==
  /\ at[r] \in {"locking", "setup", "checking"} /\ r \notin canceled
  /\ canceled' = canceled \union {r}
  /\ UNCHANGED <<holder, at, completed, checked, spent, todo, maker, inside, failures, marred>>

(* The orchestrator is killed; the kernel closes its lock file.            *)
Crash(r) ==
  /\ AtWork(r)
  /\ at' = [at EXCEPT ![r] = "crashed"]
  /\ holder' = None
  /\ Forget(r)
  /\ UNCHANGED <<spent, maker, inside, canceled, failures, marred>>

RigStep(r) ==
  \/ Lock(r) \/ GiveUp(r) \/ SetupCommand(r) \/ SetupFails(r) \/ Check(r)
  \/ CheckFails(r) \/ Finish(r) \/ Delete(r) \/ Unlock(r) \/ Cancel(r) \/ Crash(r)

RigNext == \E r \in Runs : RigStep(r)

RigSpec == RigInit /\ [][RigNext]_rigVars

-----------------------------------------------------------------------------
Exist == {p \in Pieces : maker[p] # None}

(* Every variable stays in its range.                                      *)
RigTypeOK ==
  /\ holder \in Runs \union {None}
  /\ at \in [Runs -> {"locking", "setup", "checking", "measuring", "teardown", "ended", "crashed"}]
  /\ completed \in [Runs -> 0..Commands]
  /\ checked \in [Runs -> 0..Len(Checks)] /\ spent \in BOOLEAN
  /\ todo \in [Runs -> SUBSET Namespaces]
  /\ maker \in [Pieces -> Runs \union {None}]
  /\ inside \subseteq Namespaces
  /\ canceled \subseteq Runs /\ failures \in Nat /\ marred \subseteq Runs

(* A measurement runs on a rig that is complete and wholly of its own      *)
(* making, with both ends of the link in place, with loss traces that no   *)
(* packet has used, and alone - whatever crashed, was canceled or failed   *)
(* before it.                                                              *)
MeasuresOwnRig ==
  \A r \in Runs : at[r] = "measuring" =>
    /\ \A p \in Pieces : maker[p] = r
    /\ inside = Namespaces /\ ~spent
    /\ \A q \in Runs \ {r} : ~AtWork(q)

(* A run none of whose commands failed leaves nothing behind when it ends. *)
CleanRunsLeaveNothing ==
  \A r \in Runs \ marred : at[r] = "ended" => \A p \in Pieces : maker[p] # r

(* Nobody deletes what it did not make: the comment of                     *)
(* partialNetemTeardown, over every history of leftovers.                  *)
DeletesOwn ==
  [][\A p \in Pieces : (maker[p] # None /\ maker'[p] = None) => AtWork(maker[p])]_rigVars

(* Who owns the rig                                                        *)
Owner ==
  IF Exist = {} THEN None
  ELSE IF \E r \in Runs : AtWork(r) /\ \A p \in Exist : maker[p] = r
       THEN CHOOSE r \in Runs : AtWork(r) /\ \A p \in Exist : maker[p] = r
       ELSE "debris"

(* The runs implement what RigOwner promises.                              *)
Promise == INSTANCE RigOwner WITH owner <- Owner
PromiseKept == Promise!OwnerSpec
=============================================================================
