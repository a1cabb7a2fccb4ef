----------------------------- MODULE RunControl -----------------------------
(***************************************************************************)
(* The processes of the bot on one state database: the trader loop         *)
(* (`run`), the canary, the one-shot Stage-4 and Stage-7 commands, the     *)
(* preflight and the operator's tools.  They meet in four places: the OS   *)
(* file locks and the trader's pid file (process_lock.py), the rows of     *)
(* process_instances, the op_state rows of the kill switch and of the      *)
(* critical error counter (state_store.py), and time, which ages a row     *)
(* that is not refreshed by a heartbeat.                                   *)
(*                                                                         *)
(* A process is its pid.  It may crash anywhere: the OS then drops its     *)
(* file locks and leaves its pid file and its row.                         *)
(***************************************************************************)
EXTENDS Integers, FiniteSets, FiniteSetsExt

CONSTANTS
    Pid,          \* the pids the OS hands out
    NoPid,        \* no owner of a lock, no pid file
    TTL,          \* process_instance_ttl_seconds, in ticks
    MaxErrors,    \* kill_chain_max_consecutive_errors
    Configs,      \* the settings a process may start with
    StrictStart,  \* state_db_strict_lock
    MaxStarts,    \* starts of commands other than `run`
    CanaryCycles, \* the canary's --max-cycles
    RecheckEvery, \* doctor_recheck_every_cycles
    MaxCrashes,   \* crashes the environment may cause
    UnlinkOwn     \* nobody replaces a pid file between its read and its unlink

\* run_canary refuses --max-cycles below 1; a role is one of the two of ProcessRole.
ASSUME ControlAssumption ==
    /\ TTL \in Nat \ {0} /\ MaxErrors \in Nat \ {0}
    /\ CanaryCycles \in Nat \ {0} /\ RecheckEvery \in Nat \ {0}
    /\ NoPid \notin Pid
    /\ \A k \in Configs : k.role \in {"LIVE", "MONITOR"}

VARIABLES
    proc,    \* each process: its place, command and settings, whether it runs on
             \* a store (open), and the kill_switch of its cycle's executor (observe)
    flock,   \* holder of the file lock of each account key
    pidFile, \* the pid in the trader lock's pid file
    rows,    \* process_instances rows with status 'active'
    hist,    \* some row of the table has status 'stale'
    op,      \* op_state of each role: the kill switch and the critical error count
    streak,  \* of each role: failed Stage-7 cycles since a healthy one, the record
    left     \* starts and crashes the environment has left

vars == <<proc, flock, pidFile, rows, hist, op, streak, left>>

Command == {"run", "canary", "stage4", "stage7", "preflight", "tool"}

\* A row: whose it is, its heartbeat's age, and whether the process runs on it
\* (main) or only opened it on the way.  Rows that agree in all are one.
Role == {"LIVE", "MONITOR"}
Row  == [pid : Pid, age : 0 .. TTL + 1, main : BOOLEAN]

\* The account key of the file lock a command takes; the others take none.
LockKey == [run |-> "trader", stage4 |-> "trader", stage7 |-> "trader",
            canary |-> "canary"]
Locks(c) == c \in DOMAIN LockKey
Place    == {"off", "lock", "p14", "ops", "locks", "open", "cycle", "recover", "refresh",
             "guard", "submit", "sleep", "wait", "release", "unlock", "owned", "unlink",
             "stage7", "failed", "chain", "check"}

-----------------------------------------------------------------------------
(* Settings and the live policy *)

DryRun(c)     == c.dry \/ c.safe
KillSet(c)    == c.kill \/ c.safe

\* Why live side effects are blocked; no reason means they are allowed.
validate_live_side_effects_policy(c) ==
    {r \in {"MONITOR_ROLE", "KILL_SWITCH", "DRY_RUN", "NOT_ARMED", "ACK_MISSING"} :
        \/ r = "MONITOR_ROLE" /\ c.role = "MONITOR"
        \/ r = "KILL_SWITCH"  /\ KillSet(c)
        \/ r = "DRY_RUN"      /\ DryRun(c)
        \/ r = "NOT_ARMED"    /\ ~c.live
        \/ r = "ACK_MISSING"  /\ ~c.ack}

compute_live_policy(c) == validate_live_side_effects_policy(c) = {}

\* A monitor keeps off the live database unless it is told to share it; run,
\* canary and stage4-run insist on the naming convention as well.
StrictNaming == {"run", "canary", "stage4"}
prepare_runtime(c, command) ==
    /\ c.role = "MONITOR" /\ c.liveDb => c.shared
    /\ command \in StrictNaming =>
          \/ (c.role = "LIVE" \/ c.live) = c.liveDb
          \/ c.role = "MONITOR" /\ c.shared

live_armed(c)  == ~c.dry /\ c.live /\ c.ack /\ ~c.kill
StrictLock(c)  == live_armed(c) \/ StrictStart

-----------------------------------------------------------------------------
(* process_instances *)

(* Mutant: a heartbeat exactly TTL old counts as stale. *)
FreshBelow == {r \in rows : r.age < TTL}
Fresh   == {r \in rows : r.age <= TTL}
Expired == rows \ Fresh

(* Mutant: rows block a strict start however old they are. *)
AnyActiveRow == {r \in rows : \A s \in rows : r.age <= s.age}

\* The first fresh row ORDER BY heartbeat DESC; equal heartbeats come in any order.
ActiveRow == {r \in Fresh : \A s \in Fresh : r.age <= s.age}

Beat(r) == [r EXCEPT !.age = 0]

\* BEGIN IMMEDIATE ... of _register_instance_lock.  A fresh row of the same pid
\* is used again before anything else is looked at.  main: the process is to run
\* on the store.
InsertRow(p, main) ==
    /\ rows' = Fresh \cup {[pid |-> p, age |-> 0, main |-> main]}
    /\ hist' = (hist \/ Expired # {})

ReuseRow(p, r, main) ==
    /\ rows' = (rows \ {r}) \cup {[r EXCEPT !.age = 0, !.main = @ \/ main]}
    /\ UNCHANGED hist

RegisterInstanceLock(p, strict, main) ==
    \/ Fresh = {} /\ InsertRow(p, main)
    \/ \E r \in ActiveRow : r.pid = p /\ ~(strict /\ hist) /\ ReuseRow(p, r, main)
    \/ \E r \in ActiveRow : r.pid # p /\ ~strict /\ InsertRow(p, main)

\* The store raises STATE_DB_LOCK_CONFLICT: another process is active, or this
\* one is and the table knows a stale row.
InstanceLockConflict(p, strict) ==
    strict /\ \E r \in ActiveRow : r.pid = p => hist

\* UPDATE ... WHERE instance_id = ?: the row's status is not looked at, so a row
\* that was taken over stays taken over.
heartbeat_instance_lock(p) ==
    rows' = {IF r.pid = p /\ r.main THEN Beat(r) ELSE r : r \in rows}

release_instance_lock(p) == rows' = {r \in rows : ~(r.pid = p /\ r.main)}

-----------------------------------------------------------------------------
(* Starting a process and taking its file lock *)

Off == [at |-> "off", cmd |-> NoPid, cfg |-> NoPid, open |-> FALSE, observe |-> FALSE,
        cycles |-> 0]

Init ==
    /\ proc = [p \in Pid |-> Off]
    /\ flock = [k \in {"trader", "canary"} |-> NoPid]
    /\ pidFile = NoPid
    /\ rows = {} /\ hist = FALSE
    /\ op = [r \in Role |-> [kill |-> FALSE, errors |-> 0]]
    /\ streak = [r \in Role |-> [now |-> 0, longest |-> 0]]
    /\ left = [starts |-> MaxStarts, crashes |-> MaxCrashes]

RoleOf(p)        == proc[p].cfg.role
Goto(p, place)   == proc' = [proc EXCEPT ![p].at = place]
Exit(p)          == proc' = [proc EXCEPT ![p] = Off]

\* A new process gets a pid that no fresh row and no other process has.
PidIsFree(p) == proc[p].at = "off" /\ \A r \in Fresh : r.pid # p

FirstPlace(c) == IF Locks(c) THEN "lock" ELSE "open"

\* main() up to the command: settings are read once, then the command runs.
Begin(p, c, k) ==
    /\ PidIsFree(p)
    /\ prepare_runtime(k, c)
    /\ proc' = [proc EXCEPT ![p] = [Off EXCEPT !.at = FirstPlace(c), !.cmd = c, !.cfg = k]]
    /\ rows' = {IF r.pid = p THEN [r EXCEPT !.main = FALSE] ELSE r : r \in rows}
    /\ UNCHANGED <<flock, pidFile, hist, op, streak>>

StartTrader ==
    /\ \A p \in Pid : proc[p].cmd = "run" => proc[p].at \in {"owned", "unlink"}
    /\ \E p \in Pid, k \in Configs : Begin(p, "run", k)
    /\ UNCHANGED left

StartOther ==
    \E p \in Pid, c \in Command \ {"run"}, k \in Configs :
        /\ left.starts > 0
        /\ c = "canary" => k.role = "LIVE" /\ pidFile # p
        /\ Begin(p, c, k)
        /\ left' = [left EXCEPT !.starts = @ - 1]

\* single_instance_lock: flock(LOCK_EX | LOCK_NB), then the pid file.
SingleInstanceLock(p) ==
    /\ proc[p].at = "lock"
    /\ LET key == LockKey[proc[p].cmd] IN
         \/ /\ flock[key] = NoPid
            /\ flock' = [flock EXCEPT ![key] = p]
            /\ pidFile' = IF key = "trader" THEN p ELSE pidFile
            /\ Goto(p, IF proc[p].cmd = "canary"
                       THEN IF compute_live_policy(proc[p].cfg) THEN "p14" ELSE "unlock"
                       ELSE "open")
         \/ /\ flock[key] # NoPid
            /\ Exit(p)
            /\ UNCHANGED <<flock, pidFile>>
    /\ UNCHANGED <<rows, hist, op, streak, left>>

\* The with-block ends: the lock is dropped first, the pid file looked at after.
Unlock(p) ==
    /\ proc[p].at = "unlock"
    /\ flock' = [flock EXCEPT ![LockKey[proc[p].cmd]] = NoPid]
    /\ Goto(p, "owned")
    /\ UNCHANGED <<pidFile, rows, hist, op, streak, left>>

\* _remove_pid_file_if_owned: read the pid, then unlink the file it named.
ReadPidFile(p) ==
    /\ proc[p].at = "owned"
    /\ IF pidFile = p THEN Goto(p, "unlink") ELSE Exit(p)
    /\ UNCHANGED <<flock, pidFile, rows, hist, op, streak, left>>

UnlinkPidFile(p) ==
    /\ proc[p].at = "unlink"
    /\ pidFile' = IF UnlinkOwn /\ pidFile # p THEN pidFile ELSE NoPid
    /\ Exit(p)
    /\ UNCHANGED <<flock, rows, hist, op, streak, left>>

-----------------------------------------------------------------------------
(* Opening the state store *)

\* _build_state_store of run, canary and preflight, StateStore(db) of the rest.
Strict(p) == CASE proc[p].cmd = "run" -> StrictLock(proc[p].cfg)
               [] proc[p].cmd \in {"canary", "preflight"} -> TRUE
               [] OTHER -> FALSE

AfterOpen == [run |-> "cycle", canary |-> "cycle", stage4 |-> "guard",
              stage7 |-> "stage7", preflight |-> "check", tool |-> "check"]

OpenStore(p) ==
    /\ proc[p].at = "open"
    /\ \/ /\ RegisterInstanceLock(p, Strict(p), TRUE)
          /\ proc' = [proc EXCEPT ![p].open = TRUE, ![p].at = AfterOpen[proc[p].cmd]]
       \/ /\ InstanceLockConflict(p, Strict(p))
          /\ IF Locks(proc[p].cmd) THEN Goto(p, "unlock") ELSE Exit(p)
          /\ UNCHANGED <<rows, hist>>
    /\ UNCHANGED <<flock, pidFile, op, streak, left>>

\* The canary's doctor gate.  The accounting checks open a store of their own;
\* the lock checks after them read the trader's pid file and open another.
DoctorAccounting(p) ==
    /\ proc[p].at = "p14"
    /\ RegisterInstanceLock(p, FALSE, FALSE)
    /\ Goto(p, "ops")
    /\ UNCHANGED <<flock, pidFile, op, streak, left>>

DoctorGateFailed(p) == Goto(p, IF proc[p].open THEN "release" ELSE "unlock")

\* lock_owner_sanity fails for a LIVE role when the file names another pid, dead
\* or alive; any other check may fail or warn as well.
(* Mutant: the doctor does not look at the owner of the trader lock. *)
OwnerUnchecked(p) == TRUE
OwnerIsSane(p) == pidFile \in {NoPid, p}

DoctorOwner(p) ==
    /\ proc[p].at = "ops"
    /\ IF OwnerIsSane(p) THEN Goto(p, "locks") \/ DoctorGateFailed(p)
                         ELSE DoctorGateFailed(p)
    /\ UNCHANGED <<flock, pidFile, rows, hist, op, streak, left>>

DoctorLocks(p) ==
    /\ proc[p].at = "locks"
    /\ RegisterInstanceLock(p, FALSE, FALSE)
    /\ Goto(p, IF proc[p].open THEN "wait" ELSE "open")
    /\ UNCHANGED <<flock, pidFile, op, streak, left>>

-----------------------------------------------------------------------------
(* The cycle of run and canary (run_cycle), and the loop around it *)

\* The executor, and what it was told, lives for one cycle.
Leave(p, place) == proc' = [proc EXCEPT ![p].at = place, ![p].observe = FALSE]
CycleEnds(p)    == Leave(p, "sleep")

\* An exception ends the cycle with code 1: the loop goes on, the canary stops.
CycleFails(p) == Leave(p, IF proc[p].cmd = "canary" THEN "release" ELSE "sleep")

\* The policy gate, the heartbeat, balances and bids.  Stale bids end the cycle.
CycleStart(p) ==
    /\ proc[p].at = "cycle"
    /\ LET c == proc[p].cfg IN
         \/ /\ ~DryRun(c) /\ ~compute_live_policy(c)
            /\ CycleFails(p)
            /\ UNCHANGED rows
         \/ /\ DryRun(c) \/ compute_live_policy(c)
            /\ heartbeat_instance_lock(p)
            /\ \/ proc' = [proc EXCEPT ![p].at = "recover", ![p].observe = KillSet(c)]
               \/ CycleEnds(p)
               \/ CycleFails(p)
    /\ UNCHANGED <<flock, pidFile, hist, op, streak, left>>

\* StartupRecoveryService.run: a missing mark price, a negative balance or a
\* negative position makes the cycle observe only; open replace transactions
\* are only reported.  cancel_stale_orders and accounting follow.
Recover(p) ==
    /\ proc[p].at = "recover"
    /\ \/ Goto(p, "refresh")
       \/ proc' = [proc EXCEPT ![p].at = "refresh", ![p].observe = TRUE]
       \/ CycleFails(p)
    /\ UNCHANGED <<flock, pidFile, rows, hist, op, streak, left>>

\* Intents are generated and the open orders' lifecycle refreshed, which beats
\* the heart; three 429 answers or an open breaker skip the execution.
Refresh(p) ==
    /\ proc[p].at = "refresh"
    /\ heartbeat_instance_lock(p)
    /\ Goto(p, "guard") \/ CycleEnds(p) \/ CycleFails(p)
    /\ UNCHANGED <<flock, pidFile, hist, op, streak, left>>

\* execute_intents asks the kill switch in the database, the secret rotation
\* and the degrade snapshot once; a dry run asks nothing and sends nothing.
\* Stage 4 reads the same switch when its cycle begins.
(* Mutant: the executor looks at its settings only. *)
BlockedBySettings(p) == ~compute_live_policy(proc[p].cfg) \/ proc[p].observe

ExecuteBlocked(p) ==
    \/ DryRun(proc[p].cfg) \/ ~compute_live_policy(proc[p].cfg)
    \/ proc[p].observe \/ op[RoleOf(p)].kill

ExecuteGuard(p) ==
    /\ proc[p].at = "guard"
    /\ \/ ~ExecuteBlocked(p) /\ Goto(p, "submit")
       \/ Leave(p, IF proc[p].cmd = "stage4" THEN "unlock" ELSE "sleep")
    /\ UNCHANGED <<flock, pidFile, rows, hist, op, streak, left>>

Submit(p) ==
    /\ proc[p].at = "submit"
    /\ IF proc[p].cmd = "stage4" THEN Goto(p, "unlock")
       ELSE CycleEnds(p) \/ CycleFails(p)
    /\ UNCHANGED <<flock, pidFile, rows, hist, op, streak, left>>

\* _should_stop_loop_if_killed: asked after every cycle, of a LIVE process only.
ShouldStopLoop(p) == RoleOf(p) = "LIVE" /\ op["LIVE"].kill

\* run_with_optional_loop: stop when the switch is on, after max_cycles, when
\* there is no loop or at ^C; otherwise wait, beating the heart, and go on.
LoopNext(p) ==
    /\ proc[p].at = "sleep" /\ proc[p].cmd = "run"
    /\ \/ ~ShouldStopLoop(p) /\ Goto(p, "cycle")
       \/ Goto(p, "unlock")
    /\ heartbeat_instance_lock(p)
    /\ UNCHANGED <<flock, pidFile, hist, op, streak, left>>

(* Mutant: the cycles are counted after the test. *)
CanaryOneMore(p) ==
    /\ proc[p].at = "sleep" /\ proc[p].cmd = "canary"
    /\ proc' = [proc EXCEPT ![p].cycles = @ + 1,
                            ![p].at = IF proc[p].cycles >= CanaryCycles THEN "release" ELSE "wait"]
    /\ UNCHANGED <<flock, pidFile, rows, hist, op, streak, left>>

\* run_canary after a cycle: stop after the last one, ask the doctor again every
\* RecheckEvery cycles, sleep and go on.
CanaryNext(p) ==
    /\ proc[p].at = "sleep" /\ proc[p].cmd = "canary"
    /\ LET run == proc[p].cycles + 1 IN
         proc' = [proc EXCEPT ![p].cycles = run,
                              ![p].at = IF run >= CanaryCycles THEN "release"
                                        ELSE IF run % RecheckEvery = 0 THEN "p14" ELSE "wait"]
    /\ UNCHANGED <<flock, pidFile, rows, hist, op, streak, left>>

CanaryWait(p) ==
    /\ proc[p].at = "wait"
    /\ heartbeat_instance_lock(p)
    /\ Goto(p, "cycle")
    /\ UNCHANGED <<flock, pidFile, hist, op, streak, left>>

CanaryRelease(p) ==
    /\ proc[p].at = "release"
    /\ release_instance_lock(p)
    /\ proc' = [proc EXCEPT ![p].open = FALSE, ![p].at = "unlock"]
    /\ UNCHANGED <<flock, pidFile, hist, op, streak, left>>

-----------------------------------------------------------------------------
(* Stage 7 and its kill chain *)

Failed(s) == [now |-> s.now + 1, longest |-> Max({s.longest, s.now + 1})]

\* Stage7CycleRunner.run_one_cycle: a cycle that ends well on a healthy API
\* resets the error count, one on a degraded API leaves it.
Stage7Cycle(p) ==
    /\ proc[p].at = "stage7"
    /\ \/ /\ op' = [op EXCEPT ![RoleOf(p)].errors = 0]
          /\ streak' = [streak EXCEPT ![RoleOf(p)].now = 0]
          /\ Goto(p, "unlock")
       \/ Goto(p, "unlock") /\ UNCHANGED <<op, streak>>
       \/ Goto(p, "failed") /\ streak' = [streak EXCEPT ![RoleOf(p)] = Failed(@)] /\ UNCHANGED op
    /\ UNCHANGED <<flock, pidFile, rows, hist, left>>

(* Mutant: the chain is one error too short. *)
ChainTooShort(p) ==
    /\ proc[p].at = "failed"
    /\ op' = [op EXCEPT ![RoleOf(p)].errors = @ + 1]
    /\ Goto(p, IF op[RoleOf(p)].errors + 1 >= MaxErrors - 1 THEN "chain" ELSE "unlock")
    /\ UNCHANGED <<flock, pidFile, rows, hist, streak, left>>

\* The count and the switch are two transactions.
IncrementErrors(p) ==
    /\ proc[p].at = "failed"
    /\ op' = [op EXCEPT ![RoleOf(p)].errors = @ + 1]
    /\ Goto(p, IF op[RoleOf(p)].errors + 1 >= MaxErrors THEN "chain" ELSE "unlock")
    /\ UNCHANGED <<flock, pidFile, rows, hist, streak, left>>

set_kill_switch(p) ==
    /\ proc[p].at = "chain"
    /\ op' = [op EXCEPT ![RoleOf(p)].kill = TRUE]
    /\ Goto(p, "unlock")
    /\ UNCHANGED <<flock, pidFile, rows, hist, streak, left>>

-----------------------------------------------------------------------------
(* Preflight and the operator's commands; they keep no lock *)

Alive(q) == proc[q].at # "off"

run_preflight_checks(p) ==
    /\ proc[p].at = "check" /\ proc[p].cmd = "preflight"
    /\ release_instance_lock(p)
    /\ Exit(p)
    /\ UNCHANGED <<flock, pidFile, hist, op, streak, left>>

\* state-db-unlock --instance-id: refused for a row that is fresh or whose pid
\* lives; --force, which the runbook allows for a dead process only.
UnlockInstance(p) ==
    /\ proc[p].at = "check" /\ proc[p].cmd = "tool"
    /\ \E r \in rows : ~Alive(r.pid) /\ rows' = rows \ {r}
    /\ Exit(p)
    /\ UNCHANGED <<flock, pidFile, hist, op, streak, left>>

\* state-db-unlock --lock-account-key: clears the pid file of a dead owner.
ClearStalePidFile(p) ==
    /\ proc[p].at = "check" /\ proc[p].cmd = "tool"
    /\ pidFile # NoPid /\ ~Alive(pidFile)
    /\ pidFile' = NoPid
    /\ Exit(p)
    /\ UNCHANGED <<flock, rows, hist, op, streak, left>>

\* freeze-status, freeze-clear, degrade and the reports: their store leaves a row.
OtherTool(p) ==
    /\ proc[p].at = "check" /\ proc[p].cmd = "tool"
    /\ Exit(p)
    /\ UNCHANGED <<flock, pidFile, rows, hist, op, streak, left>>

-----------------------------------------------------------------------------
(* The environment *)

Crash(p) ==
    /\ Alive(p) /\ left.crashes > 0
    /\ left' = [left EXCEPT !.crashes = @ - 1]
    /\ flock' = [k \in DOMAIN flock |-> IF flock[k] = p THEN NoPid ELSE flock[k]]
    /\ Exit(p)
    /\ UNCHANGED <<pidFile, rows, hist, op, streak>>

\* Time passes.  A process that runs on a store beats its heart before the row
\* is older than the TTL: every 30 s of the loop's wait and in every cycle.
Tick ==
    /\ \A r \in Fresh : Alive(r.pid) /\ (r.main \/ ~proc[r.pid].open) => r.age < TTL
    /\ rows' = {[r EXCEPT !.age = Min({@ + 1, TTL + 1})] : r \in rows}
    /\ UNCHANGED <<proc, flock, pidFile, hist, op, streak, left>>

Step(p) ==
    \/ SingleInstanceLock(p) \/ Unlock(p) \/ ReadPidFile(p) \/ UnlinkPidFile(p)
    \/ OpenStore(p) \/ DoctorAccounting(p) \/ DoctorOwner(p) \/ DoctorLocks(p)
    \/ CycleStart(p) \/ Recover(p) \/ Refresh(p) \/ ExecuteGuard(p) \/ Submit(p)
    \/ LoopNext(p) \/ CanaryNext(p) \/ CanaryWait(p) \/ CanaryRelease(p)
    \/ Stage7Cycle(p) \/ IncrementErrors(p) \/ set_kill_switch(p)
    \/ run_preflight_checks(p) \/ UnlockInstance(p) \/ ClearStalePidFile(p) \/ OtherTool(p)

Next ==
    \/ StartTrader \/ StartOther \/ Tick
    \/ \E p \in Pid : Step(p) \/ Crash(p)

Fairness == WF_vars(StartTrader) /\ WF_vars(Tick) /\ \A p \in Pid : WF_vars(Step(p))

Spec == Init /\ [][Next]_vars /\ Fairness

-----------------------------------------------------------------------------
(* Properties *)

\* Every variable keeps the shape the tables, files and settings give it.
TypeOK ==
    /\ proc \in [Pid -> {Off} \cup [at : Place, cmd : Command, cfg : Configs,
                                   open : BOOLEAN, observe : BOOLEAN,
                                   cycles : 0 .. CanaryCycles]]
    /\ flock \in [{"trader", "canary"} -> Pid \cup {NoPid}] /\ pidFile \in Pid \cup {NoPid}
    /\ rows \subseteq Row /\ hist \in BOOLEAN
    /\ op \in [Role -> [kill : BOOLEAN, errors : Nat]]
    /\ streak \in [Role -> [now : Nat, longest : Nat]]

Serving(p) == /\ proc[p].cmd \in {"run", "canary"} /\ proc[p].open
              /\ proc[p].at \in {"cycle", "recover", "refresh", "guard", "submit", "sleep", "wait"}

\* The trader loop and the canary take different file locks, so only the rows
\* of process_instances and the trader's pid file keep them apart: the trader
\* writes its pid file and then looks for fresh rows, the canary's doctor opens
\* a row and then looks at the pid file.  They never work on the database at
\* the same time, whatever crashes, restarts and clean-ups come between.
ArmedExclusion == \A p, q \in Pid : Serving(p) /\ Serving(q) => p = q

\* A process that works on the database is never declared stale: its row is the
\* one it opened, active and fresh, so that no strict start passes over it.
ServedRowIsFresh ==
    \A p \in Pid : Serving(p) => \E r \in Fresh : r.pid = p /\ r.main

\* The kill switch comes on only after MaxErrors Stage-7 cycles failed with no
\* healthy one between them, however crashes cut the counting short.
KillNeedsChain ==
    \A r \in Role : op[r].kill => streak[r].longest >= MaxErrors

\* Once the kill switch is on, LIVE processes come to rest: a batch that passed
\* the check goes out, and from some point on no order is sent any more.
KillQuietsTrading ==
    []<>op["LIVE"].kill =>
        <>[](\A p \in Pid : proc[p].at = "submit" => RoleOf(p) # "LIVE")

\* A trader that is started again whenever none runs gets through for ever: no
\* row, pid file or lock of a dead process or of a tool keeps it out for good.
TraderComesBack == []<>(\E p \in Pid : proc[p].cmd = "run" /\ proc[p].at = "cycle")
=============================================================================
