-------------------------- MODULE RunControlProofs --------------------------
(***************************************************************************)
(* Theorems about RunControl, for every set of pids and settings, every    *)
(* time to live and every sequence of starts, crashes and clean-ups: its   *)
(* types, that the kill switch needs a whole chain of errors, that a       *)
(* process keeps the row it works on, and that the trader and the canary   *)
(* exclude each other.                                                     *)
(***************************************************************************)
EXTENDS RunControl, TLAPS

-----------------------------------------------------------------------------
(* The inductive invariant *)

Running == [at : Place, cmd : Command, cfg : Configs, open : BOOLEAN, observe : BOOLEAN,
            cycles : 0 .. CanaryCycles]

CyclePlaces == {"cycle", "recover", "refresh", "sleep"}
BatchPlaces == {"guard", "submit"}
GatePlaces  == {"p14", "ops", "locks"}
ChainPlaces == {"stage7", "failed", "chain"}
LastPlaces  == {"unlock", "owned", "unlink"}
EndPlaces   == {"off", "owned", "unlink"}

(* The places a command goes through, and the canary's cycles: they are    *)
(* below the limit until its last one.                                     *)
Allowed(c, a, n) ==
  /\ a \in CyclePlaces => c \in {"run", "canary"}
  /\ a \in BatchPlaces => c \in {"run", "canary", "stage4"}
  /\ a \in GatePlaces \cup {"wait", "release"} => c = "canary"
  /\ a \in ChainPlaces => c = "stage7"
  /\ a \in LastPlaces \cup {"lock"} => Locks(c)
  /\ a = "check" => c \in {"preflight", "tool"}
  /\ a \notin LastPlaces \cup {"release"} => n < CanaryCycles

Placed(p) == proc[p].at # "off" => Allowed(proc[p].cmd, proc[p].at, proc[p].cycles)

PlaceInv == \A p \in Pid : proc[p] \in {Off} \cup Running /\ (proc[p].at = "off" => proc[p] = Off)
                                                          /\ Placed(p)

(* A process past its lock and not past its unlock holds the file lock.    *)
Holds(p, key) == /\ proc[p].at \notin EndPlaces \cup {"lock"}
                 /\ Locks(proc[p].cmd) /\ LockKey[proc[p].cmd] = key
LockInv == \A p \in Pid, key \in {"trader", "canary"} : Holds(p, key) => flock[key] = p

(* The pid file names the holder of the trader lock, and never a canary.   *)
FileInv == /\ UnlinkOwn => \A p \in Pid : Holds(p, "trader") => pidFile = p
           /\ \A p \in Pid : proc[p].at # "off" /\ proc[p].cmd = "canary" => pidFile # p

(* Fresh rows: a process that runs on a store has the one it opened, a     *)
(* canary whose doctor opened a store has one, and a trader that is to     *)
(* open its store has none.                                                *)
HasRow(p)  == \E r \in Fresh : r.pid = p
MainRow(p) == \E r \in Fresh : r.pid = p /\ r.main
AskedDoctor(p) == proc[p].cmd = "canary" /\ proc[p].at \in {"ops", "locks", "open"}
FreshInv == \A p \in Pid : /\ proc[p].open => MainRow(p)
                           /\ AskedDoctor(p) => HasRow(p)
                           /\ proc[p].cmd = "run" /\ proc[p].at \in {"lock", "open"} => ~HasRow(p)

(* Once the doctor has found no owner of the trader lock, and as long as   *)
(* the canary runs on its store, no trader works.                          *)
Admitted(p) == /\ proc[p].at # "off" /\ proc[p].cmd = "canary"
               /\ proc[p].open \/ proc[p].at \in {"locks", "open"}
Trading(p)  == Serving(p) /\ proc[p].cmd = "run"
GateInv == \A p, q \in Pid : Admitted(q) => ~Trading(p)

(* The error count never runs ahead of the failed cycles it stands for.    *)
ChainInv ==
  /\ \A r \in Role : /\ op[r].errors <= streak[r].now
                     /\ streak[r].now <= streak[r].longest
                     /\ op[r].kill => streak[r].longest >= MaxErrors
  /\ \A p \in Pid : /\ proc[p].at = "failed" => op[RoleOf(p)].errors < streak[RoleOf(p)].now
                    /\ proc[p].at = "chain" => streak[RoleOf(p)].longest >= MaxErrors

ControlInv == TypeOK /\ PlaceInv /\ LockInv /\ FileInv /\ FreshInv /\ GateInv /\ ChainInv

-----------------------------------------------------------------------------
(* Types and places *)

(* One process moves: it ends, or goes on with its command and settings.   *)
Moves(p) ==
  /\ proc' \in [Pid -> {Off} \cup Running]
  /\ \A q \in Pid \ {p} : proc'[q] = proc[q]
  /\ \/ proc'[p] = Off
     \/ /\ proc'[p] \in Running /\ proc'[p].at # "off"
        /\ proc'[p].cmd = proc[p].cmd /\ proc'[p].cfg = proc[p].cfg
  /\ proc'[p].at # "off" => Placed(p)'

LEMMA AliveRuns ==
  ASSUME TypeOK, PlaceInv, NEW p \in Pid, proc[p].at # "off"
  PROVE /\ proc[p] \in Running
        /\ proc[p].cmd \in Command /\ proc[p].cfg \in Configs
        /\ proc[p].open \in BOOLEAN /\ proc[p].observe \in BOOLEAN
        /\ proc[p].cycles \in Nat /\ proc[p].cycles <= CanaryCycles
        /\ RoleOf(p) \in Role
<1>1. proc[p] \in Running
  BY DEF PlaceInv, Off
<1> QED BY <1>1, ControlAssumption DEF ControlAssumption, Running, RoleOf, Role

(* The process goes to place a with this store and cycle count.            *)
Lands(p, a, o, n) ==
  /\ proc' \in [Pid -> {Off} \cup Running]
  /\ \A q \in Pid \ {p} : proc'[q] = proc[q]
  /\ proc'[p] \in Running /\ a # "off"
  /\ proc'[p].at = a /\ proc'[p].open = o /\ proc'[p].cycles = n
  /\ proc'[p].cmd = proc[p].cmd /\ proc'[p].cfg = proc[p].cfg

LEMMA LandingMoves ==
  ASSUME NEW p \in Pid, NEW a, NEW o, NEW n, Lands(p, a, o, n), Allowed(proc[p].cmd, a, n)
  PROVE Moves(p)
BY DEF Moves, Lands, Placed

LEMMA ExitMoves ==
  ASSUME TypeOK, NEW p \in Pid, Exit(p)
  PROVE Moves(p) /\ proc'[p] = Off
BY DEF Exit, Moves, TypeOK, Running, Off, Placed

LEMMA GotoLands ==
  ASSUME TypeOK, PlaceInv, NEW p \in Pid, proc[p].at # "off", NEW a \in Place \ {"off"},
         Goto(p, a) \/ Leave(p, a)
  PROVE Lands(p, a, proc[p].open, proc[p].cycles)
<1>1. proc[p] \in Running /\ proc \in [Pid -> {Off} \cup Running]
  BY AliveRuns DEF TypeOK, Running
<1>2. CASE Goto(p, a)
  <2>1. proc' = [proc EXCEPT ![p] = [proc[p] EXCEPT !.at = a]]
    BY <1>2 DEF Goto
  <2>2. [proc[p] EXCEPT !.at = a] \in Running
    BY <1>1 DEF Running
  <2>3. proc' \in [Pid -> {Off} \cup Running]
    BY <1>1, <2>1, <2>2
  <2> QED BY <1>1, <2>1, <2>2, <2>3 DEF Lands, Running
<1>3. CASE Leave(p, a)
  <2>1. proc' = [proc EXCEPT ![p] = [proc[p] EXCEPT !.at = a, !.observe = FALSE]]
    BY <1>1, <1>3 DEF Leave
  <2>2. [proc[p] EXCEPT !.at = a, !.observe = FALSE] \in Running
    BY <1>1 DEF Running
  <2>3. proc' \in [Pid -> {Off} \cup Running]
    BY <1>1, <2>1, <2>2
  <2> QED BY <1>1, <2>1, <2>2, <2>3 DEF Lands, Running
<1> QED BY <1>2, <1>3

(* Where the steps of a process lead: every action ends it or lands it at  *)
(* one of these places, and only two open or close its store.              *)
Edge(p, places) == \E a \in places : Lands(p, a, proc[p].open, proc[p].cycles)

LEMMA LockEdges ==
  ASSUME TypeOK, PlaceInv, NEW p \in Pid
  PROVE /\ SingleInstanceLock(p) => \/ Edge(p, {"unlock", "open"}) \/ Exit(p)
                                    \/ Edge(p, {"p14"}) /\ proc[p].cmd = "canary"
        /\ Unlock(p) => Edge(p, {"owned"})
        /\ ReadPidFile(p) => Edge(p, {"unlink"}) \/ Exit(p)
        /\ UnlinkPidFile(p) => Exit(p)
<1>1. SingleInstanceLock(p) => \/ Edge(p, {"unlock", "open"}) \/ Exit(p)
                               \/ Edge(p, {"p14"}) /\ proc[p].cmd = "canary"
  <2> SUFFICES ASSUME SingleInstanceLock(p), ~Exit(p)
               PROVE \/ Edge(p, {"unlock", "open"})
                     \/ Edge(p, {"p14"}) /\ proc[p].cmd = "canary"
    OBVIOUS
  <2>1. \/ Goto(p, "unlock") \/ Goto(p, "open")
        \/ (Goto(p, "p14") /\ proc[p].cmd = "canary")
    <3>1. Goto(p, IF proc[p].cmd = "canary"
                  THEN IF compute_live_policy(proc[p].cfg) THEN "p14" ELSE "unlock"
                  ELSE "open")
      BY Zenon DEF SingleInstanceLock
    <3>2. CASE proc[p].cmd # "canary"
      BY <3>1, <3>2
    <3>3. CASE proc[p].cmd = "canary" /\ compute_live_policy(proc[p].cfg)
      BY <3>1, <3>3
    <3>4. CASE proc[p].cmd = "canary" /\ ~compute_live_policy(proc[p].cfg)
      BY <3>1, <3>4
    <3> QED BY <3>2, <3>3, <3>4
  <2>2. {"unlock", "open", "p14"} \subseteq Place \ {"off"} /\ proc[p].at # "off"
    BY DEF Place, SingleInstanceLock
  <2> QED BY <2>1, <2>2, GotoLands DEF Edge
<1>2. Unlock(p) => Edge(p, {"owned"})
  BY GotoLands DEF Unlock, Edge, Place
<1>3. ReadPidFile(p) => Edge(p, {"unlink"}) \/ Exit(p)
  BY GotoLands DEF ReadPidFile, Edge, Place
<1>4. UnlinkPidFile(p) => Exit(p)
  BY DEF UnlinkPidFile
<1> QED BY <1>1, <1>2, <1>3, <1>4

LEMMA DoctorEdges ==
  ASSUME TypeOK, PlaceInv, NEW p \in Pid
  PROVE /\ DoctorAccounting(p) => Edge(p, {"ops"})
        /\ DoctorOwner(p) => Edge(p, {"release", "unlock"}) \/ (Edge(p, {"locks"}) /\ OwnerIsSane(p))
        /\ DoctorLocks(p) => Edge(p, {"wait", "open"})
<1>1. {"ops", "locks", "release", "unlock", "wait", "open"} \subseteq Place \ {"off"}
  BY DEF Place
<1>2. DoctorAccounting(p) => Edge(p, {"ops"})
  BY <1>1, GotoLands DEF DoctorAccounting, Edge
<1>3. DoctorOwner(p) => Edge(p, {"release", "unlock"}) \/ (Edge(p, {"locks"}) /\ OwnerIsSane(p))
  <2> SUFFICES ASSUME DoctorOwner(p)
               PROVE Edge(p, {"release", "unlock"}) \/ (Edge(p, {"locks"}) /\ OwnerIsSane(p))
    OBVIOUS
  <2>1. proc[p].at # "off" /\ (Goto(p, "release") \/ Goto(p, "unlock") \/ (Goto(p, "locks") /\ OwnerIsSane(p)))
    BY DEF DoctorOwner, DoctorGateFailed
  <2> QED BY <1>1, <2>1, GotoLands DEF Edge
<1>4. DoctorLocks(p) => Edge(p, {"wait", "open"})
  <2> SUFFICES ASSUME DoctorLocks(p)
               PROVE Edge(p, {"wait", "open"})
    OBVIOUS
  <2>1. proc[p].at # "off" /\ (Goto(p, "wait") \/ Goto(p, "open"))
    BY DEF DoctorLocks
  <2> QED BY <1>1, <2>1, GotoLands DEF Edge
<1> QED BY <1>2, <1>3, <1>4

LEMMA CycleEdges ==
  ASSUME TypeOK, PlaceInv, NEW p \in Pid
  PROVE /\ CycleStart(p) => Edge(p, {"recover", "sleep"}) \/ (Edge(p, {"release"}) /\ proc[p].cmd = "canary")
        /\ Recover(p) => Edge(p, {"refresh", "sleep"}) \/ (Edge(p, {"release"}) /\ proc[p].cmd = "canary")
        /\ Refresh(p) => Edge(p, {"guard", "sleep"}) \/ (Edge(p, {"release"}) /\ proc[p].cmd = "canary")
        /\ ExecuteGuard(p) => \/ Edge(p, {"submit"})
                              \/ Edge(p, {"unlock"}) /\ proc[p].cmd = "stage4"
                              \/ Edge(p, {"sleep"}) /\ proc[p].cmd # "stage4"
        /\ Submit(p) => \/ Edge(p, {"unlock"}) /\ proc[p].cmd = "stage4"
                        \/ Edge(p, {"sleep"}) /\ proc[p].cmd # "stage4"
                        \/ Edge(p, {"release"}) /\ proc[p].cmd = "canary"
        /\ LoopNext(p) => Edge(p, {"cycle", "unlock"})
        /\ CanaryWait(p) => Edge(p, {"cycle"})
<1>1. {"recover", "refresh", "guard", "submit", "sleep", "release", "cycle", "unlock"} \subseteq Place \ {"off"}
  BY DEF Place
<1>2. ASSUME proc[p].at # "off", NEW a \in Place \ {"off"},
             proc' = [proc EXCEPT ![p].at = a, ![p].observe = TRUE]
                \/ proc' = [proc EXCEPT ![p].at = a, ![p].observe = KillSet(proc[p].cfg)],
             KillSet(proc[p].cfg) \in BOOLEAN
      PROVE Lands(p, a, proc[p].open, proc[p].cycles)
  <2>1. proc[p] \in Running /\ proc \in [Pid -> {Off} \cup Running]
    BY <1>2, AliveRuns DEF TypeOK, Running
  <2>2. PICK b \in BOOLEAN : proc' = [proc EXCEPT ![p].at = a, ![p].observe = b]
    BY <1>2
  <2>3. proc' = [proc EXCEPT ![p] = [proc[p] EXCEPT !.at = a, !.observe = b]]
    BY <2>1, <2>2
  <2>4. [proc[p] EXCEPT !.at = a, !.observe = b] \in Running
    BY <2>1, <1>2 DEF Running
  <2>5. proc' \in [Pid -> {Off} \cup Running]
    BY <2>1, <2>3, <2>4
  <2> QED BY <1>2, <2>1, <2>3, <2>4, <2>5 DEF Lands, Running
<1>3. CycleStart(p) => Edge(p, {"recover", "sleep"}) \/ (Edge(p, {"release"}) /\ proc[p].cmd = "canary")
  <2> SUFFICES ASSUME CycleStart(p)
               PROVE Edge(p, {"recover", "sleep"}) \/ (Edge(p, {"release"}) /\ proc[p].cmd = "canary")
    OBVIOUS
  <2>1. /\ proc[p].at # "off"
        /\ \/ proc' = [proc EXCEPT ![p].at = "recover", ![p].observe = KillSet(proc[p].cfg)]
           \/ CycleEnds(p) \/ CycleFails(p)
    BY Zenon DEF CycleStart
  <2>2. KillSet(proc[p].cfg) \in BOOLEAN
    BY DEF KillSet
  <2>3. CASE CycleEnds(p) \/ CycleFails(p)
    BY <1>1, <2>1, <2>3, GotoLands DEF Edge, CycleEnds, CycleFails
  <2> QED BY <1>1, <1>2, <2>1, <2>2, <2>3 DEF Edge
<1>4. Recover(p) => Edge(p, {"refresh", "sleep"}) \/ (Edge(p, {"release"}) /\ proc[p].cmd = "canary")
  <2> SUFFICES ASSUME Recover(p)
               PROVE Edge(p, {"refresh", "sleep"}) \/ (Edge(p, {"release"}) /\ proc[p].cmd = "canary")
    OBVIOUS
  <2>1. /\ proc[p].at # "off"
        /\ \/ proc' = [proc EXCEPT ![p].at = "refresh", ![p].observe = TRUE]
           \/ Goto(p, "refresh") \/ CycleFails(p)
    BY DEF Recover
  <2>2. KillSet(proc[p].cfg) \in BOOLEAN
    BY DEF KillSet
  <2>3. CASE Goto(p, "refresh") \/ CycleFails(p)
    BY <1>1, <2>1, <2>3, GotoLands DEF Edge, CycleFails
  <2> QED BY <1>1, <1>2, <2>1, <2>2, <2>3 DEF Edge
<1>5. Refresh(p) => Edge(p, {"guard", "sleep"}) \/ (Edge(p, {"release"}) /\ proc[p].cmd = "canary")
  BY <1>1, GotoLands DEF Refresh, Edge, CycleEnds, CycleFails
<1>6. ExecuteGuard(p) => \/ Edge(p, {"submit"})
                         \/ Edge(p, {"unlock"}) /\ proc[p].cmd = "stage4"
                         \/ Edge(p, {"sleep"}) /\ proc[p].cmd # "stage4"
  BY <1>1, GotoLands DEF ExecuteGuard, Edge
<1>7. Submit(p) => \/ Edge(p, {"unlock"}) /\ proc[p].cmd = "stage4"
                   \/ Edge(p, {"sleep"}) /\ proc[p].cmd # "stage4"
                   \/ Edge(p, {"release"}) /\ proc[p].cmd = "canary"
  BY <1>1, GotoLands DEF Submit, Edge, CycleEnds, CycleFails
<1>8. LoopNext(p) => Edge(p, {"cycle", "unlock"})
  BY <1>1, GotoLands DEF LoopNext, Edge
<1>9. CanaryWait(p) => Edge(p, {"cycle"})
  BY <1>1, GotoLands DEF CanaryWait, Edge
<1> QED BY <1>3, <1>4, <1>5, <1>6, <1>7, <1>8, <1>9

LEMMA StoreEdges ==
  ASSUME TypeOK, PlaceInv, NEW p \in Pid
  PROVE /\ OpenStore(p) => \/ /\ Lands(p, AfterOpen[proc[p].cmd], TRUE, proc[p].cycles)
                              /\ RegisterInstanceLock(p, Strict(p), TRUE)
                           \/ (UNCHANGED <<rows, hist>> /\ Edge(p, {"unlock"}) /\ Locks(proc[p].cmd))
                           \/ (UNCHANGED <<rows, hist>> /\ Exit(p))
        /\ CanaryNext(p) => \E a \in {"release", "p14", "wait"} :
              /\ Lands(p, a, proc[p].open, proc[p].cycles + 1)
              /\ a # "release" => proc[p].cycles + 1 < CanaryCycles
        /\ CanaryRelease(p) => Lands(p, "unlock", FALSE, proc[p].cycles)
<1>1. ASSUME proc[p].at # "off"
      PROVE /\ proc[p] \in Running /\ proc \in [Pid -> {Off} \cup Running]
            /\ proc[p].cycles \in Nat
  BY <1>1, AliveRuns DEF TypeOK, Running
<1>2. ASSUME proc[p].at # "off", NEW a \in Place \ {"off"}, NEW o \in BOOLEAN,
             proc' = [proc EXCEPT ![p].open = o, ![p].at = a]
      PROVE Lands(p, a, o, proc[p].cycles)
  <2>1. proc' = [proc EXCEPT ![p] = [proc[p] EXCEPT !.open = o, !.at = a]]
    BY <1>1, <1>2
  <2>2. [proc[p] EXCEPT !.open = o, !.at = a] \in Running
    BY <1>1, <1>2 DEF Running
  <2>3. proc' \in [Pid -> {Off} \cup Running]
    BY <1>1, <1>2, <2>1, <2>2
  <2> QED BY <1>1, <1>2, <2>1, <2>2, <2>3 DEF Lands, Running
<1>3. ASSUME proc[p].at # "off", NEW a \in Place \ {"off"}, proc[p].cycles + 1 \in 0 .. CanaryCycles,
             proc' = [proc EXCEPT ![p].cycles = proc[p].cycles + 1, ![p].at = a]
      PROVE Lands(p, a, proc[p].open, proc[p].cycles + 1)
  <2>1. proc' = [proc EXCEPT ![p] = [proc[p] EXCEPT !.cycles = proc[p].cycles + 1, !.at = a]]
    BY <1>1, <1>3
  <2>2. [proc[p] EXCEPT !.cycles = proc[p].cycles + 1, !.at = a] \in Running
    BY <1>1, <1>3 DEF Running
  <2>3. proc' \in [Pid -> {Off} \cup Running]
    BY <1>1, <1>3, <2>1, <2>2
  <2> QED BY <1>1, <1>3, <2>1, <2>2, <2>3 DEF Lands, Running
<1>4. ASSUME OpenStore(p)
      PROVE \/ /\ Lands(p, AfterOpen[proc[p].cmd], TRUE, proc[p].cycles)
               /\ RegisterInstanceLock(p, Strict(p), TRUE)
            \/ (UNCHANGED <<rows, hist>> /\ Edge(p, {"unlock"}) /\ Locks(proc[p].cmd))
            \/ (UNCHANGED <<rows, hist>> /\ Exit(p))
  <2>1. proc[p].at # "off" /\ proc[p].cmd \in Command /\ "unlock" \in Place \ {"off"}
    BY <1>4, AliveRuns DEF OpenStore, Place
  <2>2. AfterOpen[proc[p].cmd] \in Place \ {"off"}
    BY <2>1 DEF AfterOpen, Command, Place
  <2>3. \/ /\ RegisterInstanceLock(p, Strict(p), TRUE)
           /\ proc' = [proc EXCEPT ![p].open = TRUE, ![p].at = AfterOpen[proc[p].cmd]]
        \/ (UNCHANGED <<rows, hist>> /\ Goto(p, "unlock") /\ Locks(proc[p].cmd))
        \/ (UNCHANGED <<rows, hist>> /\ Exit(p))
    BY <1>4, Zenon DEF OpenStore
  <2> QED BY <1>2, <2>1, <2>2, <2>3, GotoLands DEF Edge
<1>5. ASSUME CanaryNext(p)
      PROVE \E a \in {"release", "p14", "wait"} :
              /\ Lands(p, a, proc[p].open, proc[p].cycles + 1)
              /\ a # "release" => proc[p].cycles + 1 < CanaryCycles
  <2>1. proc[p].at = "sleep" /\ proc[p].cycles \in Nat
    BY <1>5, <1>1 DEF CanaryNext
  <2>2. proc[p].cycles < CanaryCycles
    BY <2>1 DEF PlaceInv, Placed, Allowed, LastPlaces
  <2>3. proc[p].cycles + 1 \in 0 .. CanaryCycles
    BY <2>1, <2>2, ControlAssumption DEF ControlAssumption
  <2>4. PICK a \in {"release", "p14", "wait"} :
          /\ proc' = [proc EXCEPT ![p].cycles = proc[p].cycles + 1, ![p].at = a]
          /\ a # "release" => ~(proc[p].cycles + 1 >= CanaryCycles)
    BY <1>5 DEF CanaryNext
  <2>5. a \in Place \ {"off"} /\ proc[p].at # "off"
    BY <2>1 DEF Place
  <2>6. Lands(p, a, proc[p].open, proc[p].cycles + 1)
    BY <1>3, <2>3, <2>4, <2>5
  <2>7. a # "release" => proc[p].cycles + 1 < CanaryCycles
    BY <2>1, <2>4, ControlAssumption DEF ControlAssumption
  <2> QED BY <2>6, <2>7
<1>6. ASSUME CanaryRelease(p)
      PROVE Lands(p, "unlock", FALSE, proc[p].cycles)
  BY <1>2, <1>6 DEF CanaryRelease, Place
<1> QED BY <1>4, <1>5, <1>6

LEMMA ChainEdges ==
  ASSUME TypeOK, PlaceInv, NEW p \in Pid
  PROVE /\ Stage7Cycle(p) => \/ Edge(p, {"unlock"})
                             \/ Edge(p, {"failed"}) /\ streak' = [streak EXCEPT ![RoleOf(p)] = Failed(@)] /\ UNCHANGED op
        /\ IncrementErrors(p) => \/ Edge(p, {"unlock"})
                                 \/ Edge(p, {"chain"}) /\ op[RoleOf(p)].errors + 1 >= MaxErrors
        /\ set_kill_switch(p) => Edge(p, {"unlock"})
        /\ run_preflight_checks(p) \/ UnlockInstance(p) \/ ClearStalePidFile(p) \/ OtherTool(p) => Exit(p)
<1>1. {"unlock", "failed", "chain"} \subseteq Place \ {"off"}
  BY DEF Place
<1>2. Stage7Cycle(p) => \/ Edge(p, {"unlock"})
                        \/ Edge(p, {"failed"}) /\ streak' = [streak EXCEPT ![RoleOf(p)] = Failed(@)] /\ UNCHANGED op
  BY <1>1, GotoLands DEF Stage7Cycle, Edge
<1>3. IncrementErrors(p) => \/ Edge(p, {"unlock"})
                            \/ Edge(p, {"chain"}) /\ op[RoleOf(p)].errors + 1 >= MaxErrors
  BY <1>1, GotoLands DEF IncrementErrors, Edge
<1>4. set_kill_switch(p) => Edge(p, {"unlock"})
  BY <1>1, GotoLands DEF set_kill_switch, Edge
<1>5. run_preflight_checks(p) \/ UnlockInstance(p) \/ ClearStalePidFile(p) \/ OtherTool(p) => Exit(p)
  BY DEF run_preflight_checks, UnlockInstance, ClearStalePidFile, OtherTool
<1> QED BY <1>2, <1>3, <1>4, <1>5

(* An edge to allowed places is a move. *)
LEMMA EdgeMoves ==
  ASSUME NEW p \in Pid, NEW S, Edge(p, S), \A a \in S : Allowed(proc[p].cmd, a, proc[p].cycles)
  PROVE Moves(p)
BY LandingMoves DEF Edge

LEMMA StepMoves ==
  ASSUME TypeOK, PlaceInv, NEW p \in Pid, Step(p)
  PROVE Moves(p) /\ proc[p].at # "off"
<1> USE ControlAssumption DEF ControlAssumption
<1>0. proc[p].at # "off" /\ proc[p].cmd \in Command /\ proc[p].cycles \in Nat
  <2>1. proc[p].at # "off"
    BY DEF Step, SingleInstanceLock, Unlock, ReadPidFile, UnlinkPidFile, OpenStore, DoctorAccounting, DoctorOwner,
      DoctorLocks, CycleStart, Recover, Refresh, ExecuteGuard, Submit, LoopNext, CanaryNext, CanaryWait, CanaryRelease,
      Stage7Cycle, IncrementErrors, set_kill_switch, run_preflight_checks, UnlockInstance, ClearStalePidFile, OtherTool
  <2> QED BY <2>1, AliveRuns
<1>100. Allowed(proc[p].cmd, proc[p].at, proc[p].cycles)
  BY <1>0 DEF PlaceInv, Placed
<1>1. ASSUME SingleInstanceLock(p)
      PROVE Moves(p)
  <2>1. Allowed(proc[p].cmd, proc[p].at, proc[p].cycles) /\ proc[p].at = "lock"
    BY <1>100, <1>1 DEF SingleInstanceLock
  <2> QED BY <1>0, <2>1, <1>1, LockEdges, EdgeMoves, LandingMoves, ExitMoves
        DEF Allowed, Locks, LockKey, CyclePlaces, BatchPlaces, GatePlaces, ChainPlaces, LastPlaces
<1>2. ASSUME Unlock(p)
      PROVE Moves(p)
  <2>1. Allowed(proc[p].cmd, proc[p].at, proc[p].cycles) /\ proc[p].at = "unlock"
    BY <1>100, <1>2 DEF Unlock
  <2> QED BY <1>0, <2>1, <1>2, LockEdges, EdgeMoves, LandingMoves, ExitMoves
        DEF Allowed, Locks, LockKey, CyclePlaces, BatchPlaces, GatePlaces, ChainPlaces, LastPlaces
<1>3. ASSUME ReadPidFile(p)
      PROVE Moves(p)
  <2>1. Allowed(proc[p].cmd, proc[p].at, proc[p].cycles) /\ proc[p].at = "owned"
    BY <1>100, <1>3 DEF ReadPidFile
  <2> QED BY <1>0, <2>1, <1>3, LockEdges, EdgeMoves, LandingMoves, ExitMoves
        DEF Allowed, Locks, LockKey, CyclePlaces, BatchPlaces, GatePlaces, ChainPlaces, LastPlaces
<1>4. ASSUME UnlinkPidFile(p)
      PROVE Moves(p)
  <2>1. Allowed(proc[p].cmd, proc[p].at, proc[p].cycles) /\ proc[p].at = "unlink"
    BY <1>100, <1>4 DEF UnlinkPidFile
  <2> QED BY <1>0, <2>1, <1>4, LockEdges, EdgeMoves, LandingMoves, ExitMoves
        DEF Allowed, Locks, LockKey, CyclePlaces, BatchPlaces, GatePlaces, ChainPlaces, LastPlaces
<1>5. ASSUME DoctorAccounting(p)
      PROVE Moves(p)
  <2>1. Allowed(proc[p].cmd, proc[p].at, proc[p].cycles) /\ proc[p].at = "p14"
    BY <1>100, <1>5 DEF DoctorAccounting
  <2> QED BY <1>0, <2>1, <1>5, DoctorEdges, EdgeMoves, LandingMoves, ExitMoves
        DEF Allowed, Locks, LockKey, CyclePlaces, BatchPlaces, GatePlaces, ChainPlaces, LastPlaces
<1>6. ASSUME DoctorOwner(p)
      PROVE Moves(p)
  <2>1. Allowed(proc[p].cmd, proc[p].at, proc[p].cycles) /\ proc[p].at = "ops"
    BY <1>100, <1>6 DEF DoctorOwner
  <2> QED BY <1>0, <2>1, <1>6, DoctorEdges, EdgeMoves, LandingMoves, ExitMoves
        DEF Allowed, Locks, LockKey, CyclePlaces, BatchPlaces, GatePlaces, ChainPlaces, LastPlaces
<1>7. ASSUME DoctorLocks(p)
      PROVE Moves(p)
  <2>1. Allowed(proc[p].cmd, proc[p].at, proc[p].cycles) /\ proc[p].at = "locks"
    BY <1>100, <1>7 DEF DoctorLocks
  <2> QED BY <1>0, <2>1, <1>7, DoctorEdges, EdgeMoves, LandingMoves, ExitMoves
        DEF Allowed, Locks, LockKey, CyclePlaces, BatchPlaces, GatePlaces, ChainPlaces, LastPlaces
<1>8. ASSUME CycleStart(p)
      PROVE Moves(p)
  <2>1. Allowed(proc[p].cmd, proc[p].at, proc[p].cycles) /\ proc[p].at = "cycle"
    BY <1>100, <1>8 DEF CycleStart
  <2> QED BY <1>0, <2>1, <1>8, CycleEdges, EdgeMoves, LandingMoves, ExitMoves
        DEF Allowed, Locks, LockKey, CyclePlaces, BatchPlaces, GatePlaces, ChainPlaces, LastPlaces
<1>9. ASSUME Recover(p)
      PROVE Moves(p)
  <2>1. Allowed(proc[p].cmd, proc[p].at, proc[p].cycles) /\ proc[p].at = "recover"
    BY <1>100, <1>9 DEF Recover
  <2> QED BY <1>0, <2>1, <1>9, CycleEdges, EdgeMoves, LandingMoves, ExitMoves
        DEF Allowed, Locks, LockKey, CyclePlaces, BatchPlaces, GatePlaces, ChainPlaces, LastPlaces
<1>10. ASSUME Refresh(p)
      PROVE Moves(p)
  <2>1. Allowed(proc[p].cmd, proc[p].at, proc[p].cycles) /\ proc[p].at = "refresh"
    BY <1>100, <1>10 DEF Refresh
  <2> QED BY <1>0, <2>1, <1>10, CycleEdges, EdgeMoves, LandingMoves, ExitMoves
        DEF Allowed, Locks, LockKey, CyclePlaces, BatchPlaces, GatePlaces, ChainPlaces, LastPlaces
<1>11. ASSUME ExecuteGuard(p)
      PROVE Moves(p)
  <2>1. Allowed(proc[p].cmd, proc[p].at, proc[p].cycles) /\ proc[p].at = "guard"
    BY <1>100, <1>11 DEF ExecuteGuard
  <2> QED BY <1>0, <2>1, <1>11, CycleEdges, EdgeMoves, LandingMoves, ExitMoves
        DEF Allowed, Locks, LockKey, CyclePlaces, BatchPlaces, GatePlaces, ChainPlaces, LastPlaces
<1>12. ASSUME Submit(p)
      PROVE Moves(p)
  <2>1. Allowed(proc[p].cmd, proc[p].at, proc[p].cycles) /\ proc[p].at = "submit"
    BY <1>100, <1>12 DEF Submit
  <2> QED BY <1>0, <2>1, <1>12, CycleEdges, EdgeMoves, LandingMoves, ExitMoves
        DEF Allowed, Locks, LockKey, CyclePlaces, BatchPlaces, GatePlaces, ChainPlaces, LastPlaces
<1>13. ASSUME LoopNext(p)
      PROVE Moves(p)
  <2>1. Allowed(proc[p].cmd, proc[p].at, proc[p].cycles) /\ proc[p].at = "sleep"
    BY <1>100, <1>13 DEF LoopNext
  <2> QED BY <1>0, <2>1, <1>13, CycleEdges, EdgeMoves, LandingMoves, ExitMoves
        DEF Allowed, Locks, LockKey, CyclePlaces, BatchPlaces, GatePlaces, ChainPlaces, LastPlaces
<1>14. ASSUME CanaryWait(p)
      PROVE Moves(p)
  <2>1. Allowed(proc[p].cmd, proc[p].at, proc[p].cycles) /\ proc[p].at = "wait"
    BY <1>100, <1>14 DEF CanaryWait
  <2> QED BY <1>0, <2>1, <1>14, CycleEdges, EdgeMoves, LandingMoves, ExitMoves
        DEF Allowed, Locks, LockKey, CyclePlaces, BatchPlaces, GatePlaces, ChainPlaces, LastPlaces
<1>15. ASSUME OpenStore(p)
      PROVE Moves(p)
  <2>1. Allowed(proc[p].cmd, proc[p].at, proc[p].cycles) /\ proc[p].at = "open"
    BY <1>100, <1>15 DEF OpenStore
  <2>2. Allowed(proc[p].cmd, AfterOpen[proc[p].cmd], proc[p].cycles)
    BY <1>0, <2>1 DEF Allowed, Locks, LockKey, CyclePlaces, BatchPlaces, GatePlaces, ChainPlaces, LastPlaces, Command, AfterOpen
  <2>3. Locks(proc[p].cmd) => Allowed(proc[p].cmd, "unlock", proc[p].cycles)
    BY DEF Allowed, CyclePlaces, BatchPlaces, GatePlaces, ChainPlaces, LastPlaces
  <2>4. \/ Lands(p, AfterOpen[proc[p].cmd], TRUE, proc[p].cycles)
        \/ (Edge(p, {"unlock"}) /\ Locks(proc[p].cmd)) \/ Exit(p)
    BY <1>15, StoreEdges
  <2>5. CASE Lands(p, AfterOpen[proc[p].cmd], TRUE, proc[p].cycles)
    BY <2>2, <2>5, LandingMoves
  <2>6. CASE Edge(p, {"unlock"}) /\ Locks(proc[p].cmd)
    <3>1. \A a \in {"unlock"} : Allowed(proc[p].cmd, a, proc[p].cycles)
      BY <2>3, <2>6
    <3> QED BY <2>6, <3>1, EdgeMoves
  <2> QED BY <2>4, <2>5, <2>6, ExitMoves
<1>16. ASSUME CanaryNext(p)
      PROVE Moves(p)
  <2>1. Allowed(proc[p].cmd, proc[p].at, proc[p].cycles) /\ proc[p].at = "sleep"
    BY <1>100, <1>16 DEF CanaryNext
  <2>2. PICK a \in {"release", "p14", "wait"} :
          /\ Lands(p, a, proc[p].open, proc[p].cycles + 1)
          /\ a # "release" => proc[p].cycles + 1 < CanaryCycles
    BY <1>16, StoreEdges
  <2>3. proc[p].cmd = "canary"
    BY <1>16 DEF CanaryNext
  <2>4. Allowed(proc[p].cmd, a, proc[p].cycles + 1)
    BY <1>0, <2>2, <2>3 DEF Allowed, Locks, LockKey, CyclePlaces, BatchPlaces, GatePlaces, ChainPlaces, LastPlaces
  <2> QED BY <2>2, <2>4, LandingMoves
<1>17. ASSUME CanaryRelease(p)
      PROVE Moves(p)
  <2>1. Allowed(proc[p].cmd, proc[p].at, proc[p].cycles) /\ proc[p].at = "release"
    BY <1>100, <1>17 DEF CanaryRelease
  <2> QED BY <1>0, <2>1, <1>17, StoreEdges, EdgeMoves, LandingMoves, ExitMoves
        DEF Allowed, Locks, LockKey, CyclePlaces, BatchPlaces, GatePlaces, ChainPlaces, LastPlaces
<1>18. ASSUME Stage7Cycle(p)
      PROVE Moves(p)
  <2>1. Allowed(proc[p].cmd, proc[p].at, proc[p].cycles) /\ proc[p].at = "stage7"
    BY <1>100, <1>18 DEF Stage7Cycle
  <2> QED BY <1>0, <2>1, <1>18, ChainEdges, EdgeMoves, LandingMoves, ExitMoves
        DEF Allowed, Locks, LockKey, CyclePlaces, BatchPlaces, GatePlaces, ChainPlaces, LastPlaces
<1>19. ASSUME IncrementErrors(p)
      PROVE Moves(p)
  <2>1. Allowed(proc[p].cmd, proc[p].at, proc[p].cycles) /\ proc[p].at = "failed"
    BY <1>100, <1>19 DEF IncrementErrors
  <2> QED BY <1>0, <2>1, <1>19, ChainEdges, EdgeMoves, LandingMoves, ExitMoves
        DEF Allowed, Locks, LockKey, CyclePlaces, BatchPlaces, GatePlaces, ChainPlaces, LastPlaces
<1>20. ASSUME set_kill_switch(p)
      PROVE Moves(p)
  <2>1. Allowed(proc[p].cmd, proc[p].at, proc[p].cycles) /\ proc[p].at = "chain"
    BY <1>100, <1>20 DEF set_kill_switch
  <2> QED BY <1>0, <2>1, <1>20, ChainEdges, EdgeMoves, LandingMoves, ExitMoves
        DEF Allowed, Locks, LockKey, CyclePlaces, BatchPlaces, GatePlaces, ChainPlaces, LastPlaces
<1>21. ASSUME run_preflight_checks(p) \/ UnlockInstance(p) \/ ClearStalePidFile(p) \/ OtherTool(p)
      PROVE Moves(p)
  BY <1>21, ChainEdges, ExitMoves
<1> QED BY <1>0, <1>1, <1>2, <1>3, <1>4, <1>5, <1>6, <1>7, <1>8, <1>9, <1>10, <1>11, <1>12, <1>13, <1>14, <1>15, <1>16, <1>17, <1>18, <1>19, <1>20, <1>21 DEF Step

(* A new process: it stands at its first place, on no store.               *)
LEMMA BeginLands ==
  ASSUME TypeOK, NEW p \in Pid, NEW c \in Command, NEW k \in Configs, Begin(p, c, k)
  PROVE /\ proc' \in [Pid -> {Off} \cup Running]
        /\ \A q \in Pid \ {p} : proc'[q] = proc[q]
        /\ proc'[p] \in Running /\ proc'[p].cmd = c /\ proc'[p].cfg = k /\ proc'[p].open = FALSE
        /\ proc'[p].at = FirstPlace(c) /\ proc'[p].at \in {"lock", "open"} /\ Placed(p)'
        /\ proc[p].at = "off"
<1> DEFINE x == [Off EXCEPT !.at = FirstPlace(c), !.cmd = c, !.cfg = k]
<1>5. x \in [at : {FirstPlace(c)}, cmd : {c}, cfg : {k}, open : {FALSE}, observe : {FALSE}, cycles : {0}]
  BY DEF Off
<1>6. FirstPlace(c) \in Place
  BY DEF FirstPlace, Place
<1> HIDE DEF x
<1>7. x \in Running
  <2>1. 0 \in 0 .. CanaryCycles
    BY ControlAssumption DEF ControlAssumption
  <2>2. /\ {FirstPlace(c)} \subseteq Place /\ {c} \subseteq Command /\ {k} \subseteq Configs
        /\ {FALSE} \subseteq BOOLEAN /\ {0} \subseteq 0 .. CanaryCycles
    BY <1>6, <2>1
  <2> QED BY <1>5, <2>2, Zenon DEF Running
<1>8. x.cmd = c /\ x.cfg = k /\ x.cycles = 0 /\ x.at = FirstPlace(c)
  BY <1>5
<1>9. x.open = FALSE
  BY <1>5
<1>1. /\ x \in Running /\ x.cmd = c /\ x.cfg = k /\ x.open = FALSE /\ x.cycles = 0
      /\ x.at = FirstPlace(c)
  BY <1>7, <1>8, <1>9
<1>2. x.at \in {"lock", "open"} /\ Allowed(x.cmd, x.at, x.cycles)
  BY <1>1, ControlAssumption DEF ControlAssumption, Allowed, FirstPlace, CyclePlaces, BatchPlaces, GatePlaces, ChainPlaces, LastPlaces
<1>3. proc' = [proc EXCEPT ![p] = x] /\ proc \in [Pid -> {Off} \cup Running] /\ proc[p].at = "off"
  BY DEF Begin, TypeOK, Running, PidIsFree, x
<1>4. proc'[p] = x /\ proc' \in [Pid -> {Off} \cup Running] /\ \A q \in Pid \ {p} : proc'[q] = proc[q]
  BY <1>1, <1>3
<1> QED BY <1>1, <1>2, <1>3, <1>4 DEF Placed

(* Who moves: a new process, one that takes a step or crashes, or nobody.  *)
LEMMA NextKinds ==
  ASSUME Next
  PROVE \/ \E p \in Pid, c \in Command, k \in Configs :
              /\ Begin(p, c, k)
              /\ c = "canary" => pidFile # p
        \/ \E p \in Pid : Step(p)
        \/ \E p \in Pid : Crash(p)
        \/ Tick
<1>1. ASSUME StartTrader
      PROVE \E p \in Pid, c \in Command, k \in Configs : Begin(p, c, k) /\ (c = "canary" => pidFile # p)
  BY <1>1 DEF StartTrader, Command
<1>2. ASSUME StartOther
      PROVE \E p \in Pid, c \in Command, k \in Configs : Begin(p, c, k) /\ (c = "canary" => pidFile # p)
  BY <1>2 DEF StartOther, Command
<1> QED BY <1>1, <1>2 DEF Next

LEMMA PlaceStep ==
  ASSUME TypeOK, PlaceInv, [Next]_vars
  PROVE PlaceInv' /\ proc' \in [Pid -> {Off} \cup Running]
<1>1. ASSUME NEW p \in Pid, Moves(p)
      PROVE PlaceInv' /\ proc' \in [Pid -> {Off} \cup Running]
  <2>1. ASSUME NEW q \in Pid
        PROVE (proc[q] \in {Off} \cup Running /\ (proc[q].at = "off" => proc[q] = Off) /\ Placed(q))'
    <3>1. CASE q = p
      BY <1>1, <3>1 DEF Moves, Placed, Off
    <3>2. CASE q # p
      BY <1>1, <2>1, <3>2 DEF Moves, PlaceInv, Placed
    <3> QED BY <3>1, <3>2
  <2> QED BY <1>1, <2>1 DEF PlaceInv, Moves
<1>2. ASSUME NEW p \in Pid, NEW c \in Command, NEW k \in Configs, Begin(p, c, k)
      PROVE PlaceInv' /\ proc' \in [Pid -> {Off} \cup Running]
  <2>0. /\ proc' \in [Pid -> {Off} \cup Running]
        /\ \A q \in Pid \ {p} : proc'[q] = proc[q]
        /\ proc'[p] \in Running /\ proc'[p].at \in {"lock", "open"} /\ Placed(p)'
    BY <1>2, BeginLands
  <2>1. ASSUME NEW q \in Pid
        PROVE (proc[q] \in {Off} \cup Running /\ (proc[q].at = "off" => proc[q] = Off) /\ Placed(q))'
    <3>1. CASE q = p
      BY <2>0, <3>1
    <3>2. CASE q # p
      BY <2>0, <2>1, <3>2 DEF PlaceInv, Placed
    <3> QED BY <3>1, <3>2
  <2> QED BY <2>0, <2>1 DEF PlaceInv
<1>3. CASE UNCHANGED proc
  BY <1>3 DEF PlaceInv, Placed, TypeOK, Running
<1>4. Next \/ UNCHANGED proc
  BY DEF vars
<1>5. ASSUME NEW p \in Pid, Crash(p)
      PROVE Moves(p)
  BY <1>5, ExitMoves DEF Crash
<1>6. Tick => UNCHANGED proc
  BY DEF Tick
<1> QED BY <1>1, <1>2, <1>3, <1>4, <1>5, <1>6, NextKinds, StepMoves

(* The other variables, by the way the actions change them. *)
LEMMA RowTypesRegister ==
  ASSUME TypeOK, NEW p \in Pid, NEW s, NEW m \in BOOLEAN, RegisterInstanceLock(p, s, m)
  PROVE rows' \subseteq Row /\ hist' \in BOOLEAN
<1>1. Fresh \subseteq Row /\ rows \subseteq Row /\ hist \in BOOLEAN
  BY DEF TypeOK, Fresh
<1>2. CASE InsertRow(p, m)
  <2>1. [pid |-> p, age |-> 0, main |-> m] \in Row
    BY ControlAssumption DEF ControlAssumption, Row
  <2>2. rows' = Fresh \cup {[pid |-> p, age |-> 0, main |-> m]} /\ hist' \in BOOLEAN
    BY <1>1, <1>2 DEF InsertRow
  <2> QED BY <1>1, <2>1, <2>2
<1>3. ASSUME NEW r \in ActiveRow, r.pid = p, ReuseRow(p, r, m)
      PROVE rows' \subseteq Row /\ hist' \in BOOLEAN
  <2>1. r \in Row
    BY <1>1, <1>3 DEF ActiveRow
  <2> DEFINE b == (r.main \/ m)
  <2>4. b \in BOOLEAN
    OBVIOUS
  <2>5. 0 \in 0 .. TTL + 1
    BY ControlAssumption DEF ControlAssumption
  <2>2. \A u \in BOOLEAN, n \in 0 .. TTL + 1 : [r EXCEPT !.age = n, !.main = u] \in Row
    BY <2>1 DEF Row
  <2>3. rows' = (rows \ {r}) \cup {[r EXCEPT !.age = 0, !.main = b]} /\ hist' = hist
    BY <1>3 DEF ReuseRow
  <2> HIDE DEF b
  <2> QED BY <1>1, <2>2, <2>3, <2>4, <2>5
<1> QED BY <1>2, <1>3 DEF RegisterInstanceLock

LEMMA RowTypesBeat ==
  ASSUME TypeOK, NEW p \in Pid, heartbeat_instance_lock(p)
  PROVE rows' \subseteq Row
<1>1. \A r \in rows : Beat(r) \in Row
  BY ControlAssumption DEF TypeOK, ControlAssumption, Row, Beat
<1> QED BY <1>1 DEF TypeOK, heartbeat_instance_lock

LEMMA RowTypesTick ==
  ASSUME TypeOK, Tick
  PROVE rows' \subseteq Row
<1>1. \A n \in 0 .. TTL + 1 : Min({n + 1, TTL + 1}) \in 0 .. TTL + 1
  BY ControlAssumption DEF ControlAssumption, Min
<1>2. \A r \in Row : [r EXCEPT !.age = Min({r.age + 1, TTL + 1})] \in Row
  BY <1>1 DEF Row
<1> QED BY <1>2 DEF TypeOK, Tick

LEMMA RowTypesBegin ==
  ASSUME TypeOK, NEW p \in Pid, NEW c, NEW k, Begin(p, c, k)
  PROVE rows' \subseteq Row
<1>1. \A r \in Row : [r EXCEPT !.main = FALSE] \in Row
  BY DEF Row
<1> QED BY <1>1 DEF Begin, TypeOK

OpType     == [Role -> [kill : BOOLEAN, errors : Nat]]
StreakType == [Role -> [now : Nat, longest : Nat]]
RestTyped ==
  /\ flock \in [{"trader", "canary"} -> Pid \cup {NoPid}] /\ pidFile \in Pid \cup {NoPid}
  /\ rows \subseteq Row /\ hist \in BOOLEAN
  /\ op \in OpType /\ streak \in StreakType

LEMMA StepTyped ==
  ASSUME TypeOK, PlaceInv, NEW p \in Pid, Step(p)
  PROVE RestTyped'
<1>0. RestTyped
  BY DEF RestTyped, TypeOK, OpType, StreakType
<1>1. proc[p].at # "off" /\ RoleOf(p) \in Role
  BY StepMoves, AliveRuns
<1>2. CASE UNCHANGED <<flock, pidFile, rows, hist, op, streak>>
  BY <1>0, <1>2 DEF RestTyped
<1>3. CASE SingleInstanceLock(p) \/ Unlock(p) \/ UnlinkPidFile(p) \/ ClearStalePidFile(p)
  <2>1. flock' \in [{"trader", "canary"} -> Pid \cup {NoPid}]
    BY <1>0, <1>3 DEF SingleInstanceLock, Unlock, UnlinkPidFile, ClearStalePidFile, RestTyped
  <2>2. pidFile' \in Pid \cup {NoPid}
    BY <1>0, <1>3 DEF SingleInstanceLock, Unlock, UnlinkPidFile, ClearStalePidFile, RestTyped
  <2>3. UNCHANGED <<rows, hist, op, streak>>
    BY <1>3 DEF SingleInstanceLock, Unlock, UnlinkPidFile, ClearStalePidFile
  <2> QED BY <1>0, <2>1, <2>2, <2>3 DEF RestTyped
<1>4. CASE OpenStore(p) \/ DoctorAccounting(p) \/ DoctorLocks(p)
  <2>1. rows' \subseteq Row /\ hist' \in BOOLEAN
    <3>1. \/ (\E s, m \in BOOLEAN : RegisterInstanceLock(p, s, m)) \/ RegisterInstanceLock(p, Strict(p), TRUE)
          \/ UNCHANGED <<rows, hist>>
      BY <1>4 DEF OpenStore, DoctorAccounting, DoctorLocks
    <3> QED BY <1>0, <3>1, RowTypesRegister DEF RestTyped
  <2>2. UNCHANGED <<flock, pidFile, op, streak>>
    BY <1>4 DEF OpenStore, DoctorAccounting, DoctorLocks
  <2> QED BY <1>0, <2>1, <2>2 DEF RestTyped
<1>5. CASE CycleStart(p) \/ Refresh(p) \/ LoopNext(p) \/ CanaryWait(p)
  <2>1. heartbeat_instance_lock(p) \/ UNCHANGED rows
    BY <1>5 DEF CycleStart, Refresh, LoopNext, CanaryWait
  <2>2. UNCHANGED <<flock, pidFile, hist, op, streak>>
    BY <1>5 DEF CycleStart, Refresh, LoopNext, CanaryWait
  <2> QED BY <1>0, <2>1, <2>2, RowTypesBeat DEF RestTyped
<1>6. CASE CanaryRelease(p) \/ run_preflight_checks(p) \/ UnlockInstance(p)
  <2>1. rows' \subseteq rows
    BY <1>6 DEF CanaryRelease, run_preflight_checks, UnlockInstance, release_instance_lock
  <2>2. UNCHANGED <<flock, pidFile, hist, op, streak>>
    BY <1>6 DEF CanaryRelease, run_preflight_checks, UnlockInstance
  <2> QED BY <1>0, <2>1, <2>2 DEF RestTyped
<1>7. CASE Stage7Cycle(p) \/ IncrementErrors(p) \/ set_kill_switch(p)
  <2>1. op' \in OpType
    <3>1. \/ UNCHANGED op
          \/ op' = [op EXCEPT ![RoleOf(p)].errors = 0]
          \/ op' = [op EXCEPT ![RoleOf(p)].errors = op[RoleOf(p)].errors + 1]
          \/ op' = [op EXCEPT ![RoleOf(p)].kill = TRUE]
      BY <1>7 DEF Stage7Cycle, IncrementErrors, set_kill_switch
    <3>2. op \in OpType /\ op[RoleOf(p)] \in [kill : BOOLEAN, errors : Nat]
      BY <1>0, <1>1 DEF RestTyped, OpType
    <3>3. \A x \in [kill : BOOLEAN, errors : Nat] :
            /\ \A n \in Nat : [x EXCEPT !.errors = n] \in [kill : BOOLEAN, errors : Nat]
            /\ \A b \in BOOLEAN : [x EXCEPT !.kill = b] \in [kill : BOOLEAN, errors : Nat]
      OBVIOUS
    <3>4. op[RoleOf(p)].errors + 1 \in Nat /\ 0 \in Nat /\ TRUE \in BOOLEAN
      BY <3>2
    <3>5. PICK y \in [kill : BOOLEAN, errors : Nat] : op' = [op EXCEPT ![RoleOf(p)] = y]
      <4>1. CASE UNCHANGED op
        BY <3>2, <4>1 DEF OpType
      <4>2. CASE ~UNCHANGED op
        BY <3>1, <3>2, <3>3, <3>4, <4>2
      <4> QED BY <4>1, <4>2
    <3> QED BY <1>1, <3>2, <3>5 DEF OpType
  <2>2. streak' \in StreakType
    <3>1. ASSUME NEW s \in [now : Nat, longest : Nat]
          PROVE Failed(s) \in [now : Nat, longest : Nat]
      <4>1. \A m, n \in Nat : Max({m, n}) \in Nat
        BY DEF Max
      <4> QED BY <3>1, <4>1 DEF Failed
    <3>2. streak \in StreakType
      BY <1>0 DEF RestTyped
    <3>3. \/ UNCHANGED streak
          \/ streak' = [streak EXCEPT ![RoleOf(p)].now = 0]
          \/ streak' = [streak EXCEPT ![RoleOf(p)] = Failed(streak[RoleOf(p)])]
      BY <1>7 DEF Stage7Cycle, IncrementErrors, set_kill_switch
    <3> QED BY <1>1, <3>1, <3>2, <3>3 DEF StreakType
  <2>3. UNCHANGED <<flock, pidFile, rows, hist>>
    BY <1>7 DEF Stage7Cycle, IncrementErrors, set_kill_switch
  <2> QED BY <1>0, <2>1, <2>2, <2>3 DEF RestTyped
<1>8. CASE ReadPidFile(p) \/ DoctorOwner(p) \/ Recover(p) \/ ExecuteGuard(p) \/ Submit(p) \/ CanaryNext(p) \/ OtherTool(p)
  <2>1. UNCHANGED <<flock, pidFile, rows, hist, op, streak>>
    BY <1>8 DEF ReadPidFile, DoctorOwner, Recover, ExecuteGuard, Submit, CanaryNext, OtherTool
  <2> QED BY <1>2, <2>1
<1> QED BY <1>3, <1>4, <1>5, <1>6, <1>7, <1>8 DEF Step

LEMMA ControlTypeStep == TypeOK /\ PlaceInv /\ [Next]_vars => (TypeOK /\ PlaceInv)'
<1> SUFFICES ASSUME TypeOK, PlaceInv, [Next]_vars PROVE (TypeOK /\ PlaceInv)'
  OBVIOUS
<1>0. RestTyped
  BY DEF RestTyped, TypeOK, OpType, StreakType
<1>1. PlaceInv' /\ proc' \in [Pid -> {Off} \cup Running]
  BY PlaceStep
<1>2. RestTyped'
  <2>1. ASSUME NEW p \in Pid, NEW c, NEW k, Begin(p, c, k)
        PROVE RestTyped'
    BY <1>0, <2>1, RowTypesBegin DEF RestTyped, Begin
  <2>2. ASSUME NEW p \in Pid, Crash(p)
        PROVE RestTyped'
    BY <1>0, <2>2 DEF RestTyped, Crash
  <2>3. CASE Tick
    BY <1>0, <2>3, RowTypesTick DEF RestTyped, Tick
  <2>4. CASE UNCHANGED vars
    BY <1>0, <2>4 DEF RestTyped, vars
  <2> QED BY <2>1, <2>2, <2>3, <2>4, NextKinds, StepTyped
<1> QED BY <1>1, <1>2 DEF TypeOK, RestTyped, OpType, StreakType, Running

LEMMA ControlTypeInit == Init => TypeOK /\ PlaceInv
<1> SUFFICES ASSUME Init PROVE TypeOK /\ PlaceInv
  OBVIOUS
<1>1. proc = [p \in Pid |-> Off]
  BY DEF Init
<1>2. RestTyped
  BY DEF Init, RestTyped, OpType, StreakType, Role
<1>3. PlaceInv
  BY <1>1 DEF PlaceInv, Placed, Off
<1>4. proc \in [Pid -> {Off} \cup Running]
  BY <1>1
<1> QED BY <1>2, <1>3, <1>4 DEF TypeOK, RestTyped, OpType, StreakType, Running

LEMMA ControlTyped == Spec => [](TypeOK /\ PlaceInv)
BY ControlTypeInit, ControlTypeStep, PTL DEF Spec

(* Whatever processes start, step, crash or are cleaned up after, the      *)
(* tables, the files and the places of the processes keep their shape, and *)
(* the canary never runs more cycles than it was asked for.                *)
THEOREM ControlTypeCorrect == Spec => []TypeOK
BY ControlTyped, PTL

-----------------------------------------------------------------------------
(* The file locks *)

(* Apart from taking and dropping it, a process keeps its lock.            *)
LEMMA StepKeepsLock ==
  ASSUME TypeOK, PlaceInv, NEW p \in Pid, Step(p), ~SingleInstanceLock(p), ~Unlock(p)
  PROVE /\ UNCHANGED flock
        /\ proc'[p].at \notin EndPlaces => proc[p].at \notin EndPlaces \cup {"lock"}
<1>1. UNCHANGED flock
  BY DEF Step, ReadPidFile, UnlinkPidFile, OpenStore, DoctorAccounting, DoctorOwner,
      DoctorLocks, CycleStart, Recover, Refresh, ExecuteGuard, Submit, LoopNext, CanaryNext, CanaryWait, CanaryRelease,
      Stage7Cycle, IncrementErrors, set_kill_switch, run_preflight_checks, UnlockInstance, ClearStalePidFile, OtherTool
<1>2. CASE ReadPidFile(p) \/ UnlinkPidFile(p)
  <2>1. proc'[p].at \in EndPlaces
    BY <1>2, LockEdges, ExitMoves DEF Edge, Lands, EndPlaces, Off
  <2> QED BY <1>1, <2>1
<1>3. CASE ~ReadPidFile(p) /\ ~UnlinkPidFile(p)
  <2>1. proc[p].at \notin EndPlaces \cup {"lock"}
    BY <1>3 DEF EndPlaces, Step, OpenStore, DoctorAccounting, DoctorOwner,
      DoctorLocks, CycleStart, Recover, Refresh, ExecuteGuard, Submit, LoopNext, CanaryNext, CanaryWait, CanaryRelease,
      Stage7Cycle, IncrementErrors, set_kill_switch, run_preflight_checks, UnlockInstance, ClearStalePidFile, OtherTool
  <2> QED BY <1>1, <2>1
<1> QED BY <1>2, <1>3

LEMMA HoldsBefore ==
  ASSUME TypeOK, PlaceInv, NEW p \in Pid, Step(p), ~SingleInstanceLock(p), NEW q \in Pid, NEW key, Holds(q, key)'
  PROVE Holds(q, key) /\ (Unlock(p) => q # p)
<1>1. CASE Unlock(p)
  <2>1. Moves(p) /\ proc'[p].at = "owned"
    BY <1>1, StepMoves, LockEdges DEF Step, Edge, Lands
  <2> QED BY <2>1 DEF Holds, EndPlaces, Moves
<1>2. CASE ~Unlock(p)
  <2>1. Moves(p) /\ (proc'[p].at \notin EndPlaces => proc[p].at \notin EndPlaces \cup {"lock"})
    BY <1>2, StepKeepsLock, StepMoves
  <2>2. CASE q = p
    BY <1>2, <2>1, <2>2 DEF Holds, Moves, Off, EndPlaces
  <2>3. CASE q # p
    BY <1>2, <2>1, <2>3 DEF Holds, Moves
  <2> QED BY <2>2, <2>3
<1> QED BY <1>1, <1>2

LEMMA LockStep == TypeOK /\ PlaceInv /\ LockInv /\ [Next]_vars => LockInv'
<1> SUFFICES ASSUME TypeOK, PlaceInv, LockInv, [Next]_vars,
                    NEW q \in Pid, NEW key \in {"trader", "canary"}, Holds(q, key)'
             PROVE (flock[key] = q)'
  BY DEF LockInv
<1>0. flock \in [{"trader", "canary"} -> Pid \cup {NoPid}] /\ NoPid \notin Pid
  BY ControlAssumption DEF TypeOK, ControlAssumption
<1>1. CASE UNCHANGED vars
  BY <1>1 DEF vars, LockInv, Holds
<1>2. ASSUME NEW p \in Pid, NEW c \in Command, NEW k \in Configs, Begin(p, c, k)
      PROVE (flock[key] = q)'
  <2>1. q # p
    BY <1>2, BeginLands DEF Holds, FirstPlace
  <2>2. proc'[q] = proc[q] /\ UNCHANGED flock
    BY <1>2, <2>1, BeginLands DEF Begin
  <2> QED BY <2>2 DEF LockInv, Holds
<1>3. CASE Tick
  BY <1>3 DEF Tick, LockInv, Holds
<1>4. ASSUME NEW p \in Pid, Crash(p)
      PROVE (flock[key] = q)'
  <2>1. Moves(p) /\ proc'[p] = Off
    BY <1>4, ExitMoves DEF Crash
  <2>2. q # p /\ proc'[q] = proc[q]
    BY <2>1 DEF Holds, Off, EndPlaces, Moves
  <2>3. flock[key] = q
    BY <2>2 DEF LockInv, Holds
  <2> QED BY <1>0, <1>4, <2>2, <2>3 DEF Crash
<1>5. ASSUME NEW p \in Pid, SingleInstanceLock(p)
      PROVE (flock[key] = q)'
  <2>0. Moves(p)
    BY <1>5, StepMoves DEF Step
  <2>1. CASE q = p
    <3>1. ~Exit(p)
      BY <2>1, ExitMoves DEF Holds, Off, EndPlaces
    <3>2. flock' = [flock EXCEPT ![LockKey[proc[p].cmd]] = p]
      BY <1>5, <3>1 DEF SingleInstanceLock
    <3>3. LockKey[proc[p].cmd] = key
      BY <2>0, <2>1 DEF Holds, Moves, Off, EndPlaces
    <3> QED BY <1>0, <2>1, <3>2, <3>3
  <2>2. CASE q # p
    <3>1. flock[key] = q
      BY <2>0, <2>2 DEF LockInv, Holds, Moves
    <3>2. \/ UNCHANGED flock
          \/ flock[LockKey[proc[p].cmd]] = NoPid /\ flock' = [flock EXCEPT ![LockKey[proc[p].cmd]] = p]
      BY <1>5 DEF SingleInstanceLock
    <3> QED BY <1>0, <3>1, <3>2
  <2> QED BY <2>1, <2>2
<1>6. ASSUME NEW p \in Pid, Unlock(p)
      PROVE (flock[key] = q)'
  <2>0. Moves(p) /\ proc'[p].at = "owned"
    BY <1>6, StepMoves, LockEdges DEF Step, Edge, Lands
  <2>1. q # p /\ proc'[q] = proc[q]
    BY <2>0 DEF Holds, EndPlaces, Moves
  <2>2. flock[key] = q
    BY <2>1 DEF LockInv, Holds
  <2>3. Locks(proc[p].cmd) /\ proc[p].at = "unlock"
    BY <1>6 DEF Unlock, PlaceInv, Placed, Allowed, LastPlaces
  <2>4. LockKey[proc[p].cmd] \in {"trader", "canary"}
    BY <2>3 DEF Locks, LockKey
  <2>5. flock[LockKey[proc[p].cmd]] = p
    BY <2>3, <2>4 DEF LockInv, Holds, EndPlaces
  <2>6. flock' = [flock EXCEPT ![LockKey[proc[p].cmd]] = NoPid]
    BY <1>6 DEF Unlock
  <2> QED BY <1>0, <2>1, <2>2, <2>5, <2>6
<1>7. ASSUME NEW p \in Pid, Step(p), ~SingleInstanceLock(p), ~Unlock(p)
      PROVE (flock[key] = q)'
  BY <1>7, StepKeepsLock, HoldsBefore DEF LockInv
<1> QED BY <1>1, <1>2, <1>3, <1>4, <1>5, <1>6, <1>7, NextKinds

-----------------------------------------------------------------------------
(* The kill chain *)

(* Stage-7 cycles exclude each other, as they hold the trader lock.        *)
LEMMA ChainAlone ==
  ASSUME PlaceInv, LockInv, NEW p \in Pid, NEW q \in Pid, proc[p].at \in ChainPlaces, proc[q].at \in ChainPlaces
  PROVE p = q
<1>1. proc[p].cmd = "stage7" /\ proc[q].cmd = "stage7"
  BY DEF PlaceInv, Placed, Allowed, ChainPlaces
<1>2. Holds(p, "trader") /\ Holds(q, "trader")
  BY <1>1 DEF Holds, Locks, LockKey, EndPlaces, ChainPlaces
<1> QED BY <1>2 DEF LockInv

(* Nobody else comes to the chain, and nobody else counts.                 *)
LEMMA ElsewhereNoChain ==
  ASSUME TypeOK, PlaceInv, NEW p \in Pid, Step(p), ~Stage7Cycle(p), ~IncrementErrors(p), ~set_kill_switch(p)
  PROVE UNCHANGED <<op, streak>> /\ proc'[p].at \notin {"failed", "chain"}
<1>1. UNCHANGED <<op, streak>>
  BY DEF Step, SingleInstanceLock, Unlock, ReadPidFile, UnlinkPidFile, OpenStore, DoctorAccounting, DoctorOwner,
      DoctorLocks, CycleStart, Recover, Refresh, ExecuteGuard, Submit, LoopNext, CanaryNext, CanaryWait, CanaryRelease,
      run_preflight_checks, UnlockInstance, ClearStalePidFile, OtherTool
<1>2. ASSUME Exit(p)
      PROVE proc'[p].at \notin {"failed", "chain"}
  BY <1>2, ExitMoves DEF Off
<1>3. CASE SingleInstanceLock(p) \/ Unlock(p) \/ ReadPidFile(p) \/ UnlinkPidFile(p)
  BY <1>1, <1>2, <1>3, LockEdges DEF Edge, Lands
<1>4. CASE DoctorAccounting(p) \/ DoctorOwner(p) \/ DoctorLocks(p)
  BY <1>1, <1>4, DoctorEdges DEF Edge, Lands
<1>5. CASE CycleStart(p) \/ Recover(p) \/ Refresh(p) \/ ExecuteGuard(p) \/ Submit(p) \/ LoopNext(p) \/ CanaryWait(p)
  BY <1>1, <1>5, CycleEdges DEF Edge, Lands
<1>6. CASE CanaryNext(p) \/ CanaryRelease(p)
  BY <1>1, <1>6, StoreEdges DEF Lands
<1>7. CASE OpenStore(p)
  <2>1. AfterOpen[proc[p].cmd] \notin {"failed", "chain"}
    BY <1>7, AliveRuns DEF OpenStore, AfterOpen, Command
  <2>2. \/ Lands(p, AfterOpen[proc[p].cmd], TRUE, proc[p].cycles) \/ Edge(p, {"unlock"}) \/ Exit(p)
    BY <1>7, StoreEdges
  <2> QED BY <1>1, <1>2, <2>1, <2>2 DEF Edge, Lands
<1>8. CASE run_preflight_checks(p) \/ UnlockInstance(p) \/ ClearStalePidFile(p) \/ OtherTool(p)
  BY <1>1, <1>2, <1>8, ChainEdges
<1> QED BY <1>3, <1>4, <1>5, <1>6, <1>7, <1>8 DEF Step

LEMMA ChainStep == TypeOK /\ PlaceInv /\ LockInv /\ ChainInv /\ [Next]_vars => ChainInv'
<1> SUFFICES ASSUME TypeOK, PlaceInv, LockInv, ChainInv, [Next]_vars PROVE ChainInv'
  OBVIOUS
<1>0. /\ \A r \in Role : op[r] \in [kill : BOOLEAN, errors : Nat] /\ streak[r] \in [now : Nat, longest : Nat]
      /\ op \in [Role -> [kill : BOOLEAN, errors : Nat]] /\ streak \in [Role -> [now : Nat, longest : Nat]]
      /\ MaxErrors \in Nat
  BY ControlAssumption DEF TypeOK, ControlAssumption
<1>1. ASSUME UNCHANGED <<op, streak>>,
             \A q \in Pid : proc'[q].at \in {"failed", "chain"} => proc'[q] = proc[q]
      PROVE ChainInv'
  BY <1>1 DEF ChainInv, RoleOf
<1>2. CASE UNCHANGED vars
  BY <1>1, <1>2 DEF vars
<1>3. ASSUME NEW p \in Pid, NEW c \in Command, NEW k \in Configs, Begin(p, c, k)
      PROVE ChainInv'
  <2>1. \A q \in Pid : proc'[q].at \in {"failed", "chain"} => proc'[q] = proc[q]
    BY <1>3, BeginLands
  <2> QED BY <1>1, <1>3, <2>1 DEF Begin
<1>4. CASE Tick
  BY <1>1, <1>4 DEF Tick
<1>5. ASSUME NEW p \in Pid, Crash(p)
      PROVE ChainInv'
  <2>1. \A q \in Pid : proc'[q].at \in {"failed", "chain"} => proc'[q] = proc[q]
    BY <1>5, ExitMoves DEF Crash, Moves, Off
  <2> QED BY <1>1, <1>5, <2>1 DEF Crash
<1>6. ASSUME NEW p \in Pid, Step(p), ~Stage7Cycle(p), ~IncrementErrors(p), ~set_kill_switch(p)
      PROVE ChainInv'
  <2>1. \A q \in Pid : proc'[q].at \in {"failed", "chain"} => proc'[q] = proc[q]
    BY <1>6, StepMoves, ElsewhereNoChain DEF Moves
  <2> QED BY <1>1, <1>6, <2>1, ElsewhereNoChain
<1>7. ASSUME NEW p \in Pid, Stage7Cycle(p) \/ IncrementErrors(p) \/ set_kill_switch(p)
      PROVE ChainInv'
  <2> DEFINE r == RoleOf(p)
  <2>1. proc[p].at \in ChainPlaces /\ Moves(p) /\ r \in Role
    BY <1>7, StepMoves, AliveRuns DEF Step, ChainPlaces, Stage7Cycle, IncrementErrors, set_kill_switch
  <2>2. \A q \in Pid : proc'[q].at \in {"failed", "chain"} => q = p
    BY <2>1, ChainAlone DEF Moves, ChainPlaces
  <2>3. proc'[p].at \in {"failed", "chain"} => RoleOf(p)' = r
    BY <2>1 DEF Moves, RoleOf, Off
  <2> HIDE DEF r
  <2>4. ASSUME \A s \in Role : /\ op'[s].errors <= streak'[s].now
                               /\ streak'[s].now <= streak'[s].longest
                               /\ op'[s].kill => streak'[s].longest >= MaxErrors,
               proc'[p].at = "failed" => op'[r].errors < streak'[r].now,
               proc'[p].at = "chain" => streak'[r].longest >= MaxErrors
        PROVE ChainInv'
    <3>1. \A q \in Pid : /\ proc'[q].at = "failed" => op'[RoleOf(q)'].errors < streak'[RoleOf(q)'].now
                         /\ proc'[q].at = "chain" => streak'[RoleOf(q)'].longest >= MaxErrors
      BY <2>2, <2>3, <2>4
    <3> QED BY <2>4, <3>1 DEF ChainInv
  <2>5. /\ op[r].errors <= streak[r].now /\ streak[r].now <= streak[r].longest
        /\ op[r].kill => streak[r].longest >= MaxErrors
        /\ op[r].errors \in Nat /\ streak[r].now \in Nat /\ streak[r].longest \in Nat
    BY <1>0, <2>1 DEF ChainInv
  <2>6. CASE Stage7Cycle(p)
    <3>1. Edge(p, {"unlock"}) => proc'[p].at \notin {"failed", "chain"}
      BY DEF Edge, Lands
    <3>2. CASE op' = [op EXCEPT ![r].errors = 0] /\ streak' = [streak EXCEPT ![r].now = 0] /\ Goto(p, "unlock")
      <4>1. proc'[p].at = "unlock"
        BY <2>1, <3>2, GotoLands DEF Place, ChainPlaces, Lands
      <4> QED BY <1>0, <2>1, <2>4, <2>5, <3>2, <4>1 DEF ChainInv
    <3>3. CASE UNCHANGED <<op, streak>> /\ Goto(p, "unlock")
      <4>1. proc'[p].at = "unlock"
        BY <2>1, <3>3, GotoLands DEF Place, ChainPlaces, Lands
      <4> QED BY <1>0, <2>4, <3>3, <4>1 DEF ChainInv
    <3>4. CASE Goto(p, "failed") /\ streak' = [streak EXCEPT ![r] = Failed(streak[r])] /\ UNCHANGED op
      <4>1. proc'[p].at = "failed"
        BY <2>1, <3>4, GotoLands DEF Place, ChainPlaces, Lands
      <4>2. /\ Failed(streak[r]).now = streak[r].now + 1
            /\ Failed(streak[r]).longest >= streak[r].now + 1
            /\ Failed(streak[r]).longest >= streak[r].longest
            /\ Failed(streak[r]).longest \in Nat
        <5>1. \A m, n \in Nat : Max({m, n}) >= m /\ Max({m, n}) >= n /\ Max({m, n}) \in Nat
          BY DEF Max
        <5> QED BY <2>5, <5>1 DEF Failed
      <4>3. streak'[r] = Failed(streak[r]) /\ \A s \in Role \ {r} : streak'[s] = streak[s]
        BY <1>0, <2>1, <3>4
      <4> QED BY <1>0, <2>1, <2>4, <2>5, <3>4, <4>1, <4>2, <4>3 DEF ChainInv
    <3> QED BY <2>6, <3>2, <3>3, <3>4 DEF Stage7Cycle, r
  <2>7. CASE IncrementErrors(p)
    <3>1. op[r].errors < streak[r].now
      BY <2>7 DEF IncrementErrors, ChainInv, r
    <3>2. /\ op' = [op EXCEPT ![r].errors = op[r].errors + 1] /\ UNCHANGED streak
      BY <2>7 DEF IncrementErrors, r
    <3>3. proc'[p].at # "failed" /\ (proc'[p].at = "chain" => op[r].errors + 1 >= MaxErrors)
      BY <2>7, ChainEdges DEF Edge, Lands, r
    <3>4. proc'[p].at = "chain" => streak'[r].longest >= MaxErrors
      BY <1>0, <2>5, <3>1, <3>2, <3>3
    <3>5. op'[r].errors = op[r].errors + 1 /\ op'[r].kill = op[r].kill /\ \A s \in Role \ {r} : op'[s] = op[s]
      BY <1>0, <2>1, <3>2
    <3> QED BY <1>0, <2>4, <2>5, <3>1, <3>2, <3>3, <3>4, <3>5 DEF ChainInv
  <2>8. CASE set_kill_switch(p)
    <3>1. streak[r].longest >= MaxErrors
      BY <2>8 DEF set_kill_switch, ChainInv, r
    <3>2. op' = [op EXCEPT ![r].kill = TRUE] /\ UNCHANGED streak
      BY <2>8 DEF set_kill_switch, r
    <3>3. proc'[p].at \notin {"failed", "chain"}
      BY <2>8, ChainEdges DEF Edge, Lands
    <3>4. op'[r].errors = op[r].errors /\ \A s \in Role \ {r} : op'[s] = op[s]
      BY <1>0, <2>1, <3>2
    <3> QED BY <1>0, <2>4, <2>5, <3>1, <3>2, <3>3, <3>4 DEF ChainInv
  <2> QED BY <1>7, <2>6, <2>7, <2>8
<1> QED BY <1>2, <1>3, <1>4, <1>5, <1>6, <1>7, NextKinds

LEMMA ChainInit == Init => LockInv /\ ChainInv
BY ControlAssumption DEF Init, LockInv, ChainInv, Holds, Off, EndPlaces, ControlAssumption

LEMMA ChainInvariant == Spec => [](TypeOK /\ PlaceInv /\ LockInv /\ ChainInv)
<1>1. Init => TypeOK /\ PlaceInv /\ LockInv /\ ChainInv
  BY ControlTypeInit, ChainInit
<1>2. TypeOK /\ PlaceInv /\ LockInv /\ ChainInv /\ [Next]_vars => (TypeOK /\ PlaceInv /\ LockInv /\ ChainInv)'
  BY ControlTypeStep, LockStep, ChainStep
<1> QED BY <1>1, <1>2, PTL DEF Spec

(* The kill switch of a role comes on only after MaxErrors Stage-7 cycles  *)
(* of that role failed with no healthy one between them: the count and the *)
(* switch are two transactions, but the trader lock keeps the cycles apart *)
(* and a crash between them can only lose an error.                        *)
THEOREM KillSwitchNeedsChain == Spec => []KillNeedsChain
<1>1. ChainInv => KillNeedsChain
  BY DEF ChainInv, KillNeedsChain
<1> QED BY <1>1, ChainInvariant, PTL

-----------------------------------------------------------------------------
(* The pid file *)

LEMMA FileStep == TypeOK /\ PlaceInv /\ LockInv /\ FileInv /\ [Next]_vars => FileInv'
<1> SUFFICES ASSUME TypeOK, PlaceInv, LockInv, FileInv, [Next]_vars PROVE FileInv'
  OBVIOUS
<1>0. NoPid \notin Pid
  BY ControlAssumption DEF ControlAssumption
<1>1. ASSUME UnlinkOwn, NEW q \in Pid, Holds(q, "trader")'
      PROVE (pidFile = q)'
  <2>1. Holds(q, "trader") => pidFile = q
    BY <1>1 DEF FileInv
  <2>2. CASE UNCHANGED vars
    BY <1>1, <2>1, <2>2 DEF vars, Holds
  <2>3. ASSUME NEW p \in Pid, NEW c \in Command, NEW k \in Configs, Begin(p, c, k)
        PROVE (pidFile = q)'
    <3>1. q # p
      BY <1>1, <2>3, BeginLands DEF Holds, FirstPlace
    <3>2. proc'[q] = proc[q] /\ UNCHANGED pidFile
      BY <2>3, <3>1, BeginLands DEF Begin
    <3> QED BY <1>1, <2>1, <3>2 DEF Holds
  <2>4. CASE Tick
    BY <1>1, <2>1, <2>4 DEF Tick, Holds
  <2>5. ASSUME NEW p \in Pid, Crash(p)
        PROVE (pidFile = q)'
    <3>1. Moves(p) /\ proc'[p] = Off /\ UNCHANGED pidFile
      BY <2>5, ExitMoves DEF Crash
    <3> QED BY <1>1, <2>1, <3>1 DEF Holds, Off, EndPlaces, Moves
  <2>6. ASSUME NEW p \in Pid, SingleInstanceLock(p)
        PROVE (pidFile = q)'
    <3>0. Moves(p)
      BY <2>6, StepMoves DEF Step
    <3>1. CASE q = p
      <4>1. ~Exit(p)
        BY <1>1, <3>1, ExitMoves DEF Holds, Off, EndPlaces
      <4>2. LockKey[proc[p].cmd] = "trader"
        BY <1>1, <3>0, <3>1 DEF Holds, Moves, Off, EndPlaces
      <4> QED BY <2>6, <3>1, <4>1, <4>2 DEF SingleInstanceLock
    <3>2. CASE q # p
      <4>1. Holds(q, "trader")
        BY <1>1, <3>0, <3>2 DEF Holds, Moves
      <4>2. flock["trader"] = q
        BY <4>1 DEF LockInv
      <4>3. UNCHANGED pidFile \/ (flock[LockKey[proc[p].cmd]] = NoPid /\ LockKey[proc[p].cmd] = "trader")
        BY <2>6 DEF SingleInstanceLock
      <4> QED BY <1>0, <2>1, <4>1, <4>2, <4>3
    <3> QED BY <3>1, <3>2
  <2>7. ASSUME NEW p \in Pid, Step(p), ~SingleInstanceLock(p)
        PROVE (pidFile = q)'
    <3>1. pidFile = q /\ proc[q].at # "off"
      BY <1>1, <2>1, <2>7, HoldsBefore DEF Holds, EndPlaces
    <3>2. CASE UnlinkPidFile(p)
      <4>1. q # p
        BY <1>1, <3>2, ExitMoves DEF UnlinkPidFile, Holds, Off, EndPlaces
      <4> QED BY <1>1, <3>1, <3>2, <4>1 DEF UnlinkPidFile
    <3>3. CASE ClearStalePidFile(p)
      BY <3>1, <3>3 DEF ClearStalePidFile, Alive
    <3>4. CASE ~UnlinkPidFile(p) /\ ~ClearStalePidFile(p)
      <4>1. UNCHANGED pidFile
        BY <2>7, <3>4 DEF Step, Unlock, ReadPidFile, OpenStore, DoctorAccounting, DoctorOwner,
          DoctorLocks, CycleStart, Recover, Refresh, ExecuteGuard, Submit, LoopNext, CanaryNext, CanaryWait, CanaryRelease,
          Stage7Cycle, IncrementErrors, set_kill_switch, run_preflight_checks, UnlockInstance, OtherTool
      <4> QED BY <3>1, <4>1
    <3> QED BY <3>2, <3>3, <3>4
  <2> QED BY <2>2, <2>3, <2>4, <2>5, <2>6, <2>7, NextKinds
<1>2. ASSUME NEW q \in Pid, proc'[q].at # "off", proc'[q].cmd = "canary"
      PROVE (pidFile # q)'
  <2>1. proc[q].at # "off" /\ proc[q].cmd = "canary" => pidFile # q
    BY <1>2 DEF FileInv
  <2>2. CASE UNCHANGED vars
    BY <1>2, <2>1, <2>2 DEF vars
  <2>3. ASSUME NEW p \in Pid, NEW c \in Command, NEW k \in Configs, Begin(p, c, k), c = "canary" => pidFile # p
        PROVE (pidFile # q)'
    <3>1. CASE q = p
      BY <1>2, <2>3, <3>1, BeginLands DEF Begin
    <3>2. CASE q # p
      BY <1>2, <2>1, <2>3, <3>2, BeginLands DEF Begin
    <3> QED BY <3>1, <3>2
  <2>4. CASE Tick
    BY <1>2, <2>1, <2>4 DEF Tick
  <2>5. ASSUME NEW p \in Pid, Crash(p)
        PROVE (pidFile # q)'
    <3>1. Moves(p) /\ proc'[p] = Off /\ UNCHANGED pidFile
      BY <2>5, ExitMoves DEF Crash
    <3> QED BY <1>2, <2>1, <3>1 DEF Off, Moves
  <2>6. ASSUME NEW p \in Pid, Step(p)
        PROVE (pidFile # q)'
    <3>0. Moves(p) /\ proc[p].at # "off"
      BY <2>6, StepMoves
    <3>1. proc[q].at # "off" /\ proc[q].cmd = "canary"
      BY <1>2, <3>0 DEF Moves, Off
    <3>2. CASE SingleInstanceLock(p) /\ pidFile' = p
      <4>1. proc[p].cmd = "canary" => UNCHANGED pidFile
        BY <3>2 DEF SingleInstanceLock, LockKey
      <4> QED BY <2>1, <3>1, <3>2, <4>1
    <3>3. CASE ~(SingleInstanceLock(p) /\ pidFile' = p)
      <4>1. UNCHANGED pidFile \/ pidFile' = NoPid
        BY <2>6, <3>3 DEF Step, SingleInstanceLock, UnlinkPidFile, ClearStalePidFile, Unlock, ReadPidFile, OpenStore,
          DoctorAccounting, DoctorOwner,
          DoctorLocks, CycleStart, Recover, Refresh, ExecuteGuard, Submit, LoopNext, CanaryNext, CanaryWait, CanaryRelease,
          Stage7Cycle, IncrementErrors, set_kill_switch, run_preflight_checks, UnlockInstance, OtherTool
      <4> QED BY <1>0, <2>1, <3>1, <4>1
    <3> QED BY <3>2, <3>3
  <2> QED BY <2>2, <2>3, <2>4, <2>5, <2>6, NextKinds
<1> QED BY <1>1, <1>2 DEF FileInv

-----------------------------------------------------------------------------
(* The rows of process_instances *)

(* The fresh rows of one pid. *)
FreshOf(q) == {r \in Fresh : r.pid = q}

LEMMA RegisterRows ==
  ASSUME TypeOK, NEW p \in Pid, NEW s, NEW m \in BOOLEAN, RegisterInstanceLock(p, s, m)
  PROVE /\ HasRow(p)' /\ (m => MainRow(p)') /\ (MainRow(p) => MainRow(p)')
        /\ \A q \in Pid \ {p} : FreshOf(q)' = FreshOf(q)
<1>0. rows \subseteq Row /\ TTL \in Nat
  BY ControlAssumption DEF TypeOK, ControlAssumption
<1>1. CASE InsertRow(p, m)
  <2> DEFINE x == [pid |-> p, age |-> 0, main |-> m]
  <2>1. rows' = Fresh \cup {x}
    BY <1>1 DEF InsertRow
  <2>2. x.pid = p /\ x.age <= TTL
    BY <1>0
  <2>3. m => x.main
    OBVIOUS
  <2> HIDE DEF x
  <2>4. Fresh' = Fresh \cup {x}
    BY <2>1, <2>2 DEF Fresh
  <2> QED BY <2>2, <2>3, <2>4 DEF HasRow, MainRow, FreshOf
<1>2. ASSUME NEW r \in ActiveRow, r.pid = p, ReuseRow(p, r, m)
      PROVE /\ HasRow(p)' /\ (m => MainRow(p)') /\ (MainRow(p) => MainRow(p)')
            /\ \A q \in Pid \ {p} : FreshOf(q)' = FreshOf(q)
  <2> DEFINE x == [r EXCEPT !.age = 0, !.main = r.main \/ m]
  <2>0. r \in Fresh /\ r \in Row
    BY <1>0 DEF ActiveRow, Fresh
  <2>1. rows' = (rows \ {r}) \cup {x}
    BY <1>2 DEF ReuseRow
  <2>2. x.pid = p /\ x.age <= TTL
    BY <1>0, <1>2, <2>0 DEF Row
  <2>3. (m => x.main) /\ (r.main => x.main)
    BY <2>0 DEF Row
  <2> HIDE DEF x
  <2>4. Fresh' = (Fresh \ {r}) \cup {x}
    BY <2>1, <2>2 DEF Fresh
  <2> QED BY <1>2, <2>0, <2>2, <2>3, <2>4 DEF HasRow, MainRow, FreshOf
<1> QED BY <1>1, <1>2 DEF RegisterInstanceLock

LEMMA BeatRows ==
  ASSUME TypeOK, NEW p \in Pid, heartbeat_instance_lock(p)
  PROVE /\ MainRow(p) => MainRow(p)'
        /\ \A q \in Pid \ {p} : FreshOf(q)' = FreshOf(q)
<1>0. rows \subseteq Row /\ TTL \in Nat
  BY ControlAssumption DEF TypeOK, ControlAssumption
<1>1. \A r \in rows : Beat(r).pid = r.pid /\ Beat(r).age = 0 /\ Beat(r).main = r.main
  BY <1>0 DEF Beat, Row
<1>2. rows' = {IF r.pid = p /\ r.main THEN Beat(r) ELSE r : r \in rows}
  BY DEF heartbeat_instance_lock
<1>3. MainRow(p) => MainRow(p)'
  <2> SUFFICES ASSUME NEW r \in Fresh, r.pid = p, r.main PROVE MainRow(p)'
    BY DEF MainRow
  <2>1. r \in rows
    BY DEF Fresh
  <2>2. Beat(r) \in rows' /\ Beat(r).pid = p /\ Beat(r).age <= TTL /\ Beat(r).main
    BY <1>0, <1>1, <1>2, <2>1
  <2> QED BY <2>2 DEF MainRow, Fresh
<1>4. ASSUME NEW q \in Pid \ {p}
      PROVE FreshOf(q)' = FreshOf(q)
  <2>1. \A r : r.pid = q => (r \in rows' <=> r \in rows)
    BY <1>1, <1>2, <1>4
  <2> QED BY <2>1 DEF FreshOf, Fresh
<1> QED BY <1>3, <1>4

LEMMA RemoveRows ==
  ASSUME NEW q, rows' \subseteq rows, \A r \in rows \ rows' : r.pid # q
  PROVE FreshOf(q)' = FreshOf(q)
BY DEF FreshOf, Fresh

(* The steps of one process leave the fresh rows of the others alone.      *)
LEMMA StepOtherRows ==
  ASSUME TypeOK, PlaceInv, NEW p \in Pid, Step(p), NEW q \in Pid \ {p}, proc[q].at # "off"
  PROVE FreshOf(q)' = FreshOf(q)
<1>1. CASE OpenStore(p) \/ DoctorAccounting(p) \/ DoctorLocks(p)
  <2>1. \/ RegisterInstanceLock(p, Strict(p), TRUE) \/ RegisterInstanceLock(p, FALSE, FALSE) \/ UNCHANGED rows
    BY <1>1 DEF OpenStore, DoctorAccounting, DoctorLocks
  <2>2. UNCHANGED rows => FreshOf(q)' = FreshOf(q)
    BY DEF FreshOf, Fresh
  <2> QED BY <2>1, <2>2, RegisterRows
<1>2. CASE CycleStart(p) \/ Refresh(p) \/ LoopNext(p) \/ CanaryWait(p)
  <2>1. heartbeat_instance_lock(p) \/ UNCHANGED rows
    BY <1>2 DEF CycleStart, Refresh, LoopNext, CanaryWait
  <2>2. UNCHANGED rows => FreshOf(q)' = FreshOf(q)
    BY DEF FreshOf, Fresh
  <2> QED BY <2>1, <2>2, BeatRows
<1>3. CASE CanaryRelease(p) \/ run_preflight_checks(p)
  <2>1. rows' \subseteq rows /\ \A r \in rows \ rows' : r.pid # q
    BY <1>3 DEF CanaryRelease, run_preflight_checks, release_instance_lock
  <2> QED BY <2>1, RemoveRows
<1>4. CASE UnlockInstance(p)
  <2>1. rows' \subseteq rows /\ \A r \in rows \ rows' : r.pid # q
    BY <1>4 DEF UnlockInstance, Alive
  <2> QED BY <2>1, RemoveRows
<1>5. CASE /\ ~OpenStore(p) /\ ~DoctorAccounting(p) /\ ~DoctorLocks(p)
           /\ ~CycleStart(p) /\ ~Refresh(p) /\ ~LoopNext(p) /\ ~CanaryWait(p)
           /\ ~CanaryRelease(p) /\ ~run_preflight_checks(p) /\ ~UnlockInstance(p)
  <2>1. UNCHANGED rows
    BY <1>5 DEF Step, SingleInstanceLock, Unlock, ReadPidFile, UnlinkPidFile, DoctorOwner, Recover, ExecuteGuard, Submit,
      CanaryNext, Stage7Cycle, IncrementErrors, set_kill_switch, ClearStalePidFile, OtherTool
  <2> QED BY <2>1 DEF FreshOf, Fresh
<1> QED BY <1>1, <1>2, <1>3, <1>4, <1>5

(* Where a process that has just come to its doctor or its store is from.  *)
LEMMA StepAsks ==
  ASSUME TypeOK, PlaceInv, NEW p \in Pid, Step(p), proc'[p].at \in {"lock", "ops", "locks", "open"}
  PROVE \/ SingleInstanceLock(p) /\ proc'[p].at = "open" /\ proc[p].cmd # "canary"
        \/ DoctorAccounting(p) /\ proc'[p].at = "ops"
        \/ DoctorOwner(p) /\ proc'[p].at = "locks" /\ OwnerIsSane(p)
        \/ DoctorLocks(p) /\ proc'[p].at = "open"
<1>1. ~Exit(p)
  BY ExitMoves DEF Off
<1>2. CASE SingleInstanceLock(p)
  <2>1. proc'[p].at = "open"
    BY <1>1, <1>2, LockEdges DEF Edge, Lands
  <2>2. CASE proc[p].cmd = "canary"
    <3>1. Goto(p, "p14") \/ Goto(p, "unlock")
      BY <1>1, <1>2, <2>2 DEF SingleInstanceLock
    <3>2. proc'[p].at \in {"p14", "unlock"}
      BY <1>2, <3>1, GotoLands DEF SingleInstanceLock, Lands, Place
    <3> QED BY <2>1, <3>2
  <2> QED BY <1>2, <2>1, <2>2
<1>3. CASE Unlock(p) \/ ReadPidFile(p) \/ UnlinkPidFile(p)
  BY <1>1, <1>3, LockEdges DEF Edge, Lands
<1>4. CASE DoctorAccounting(p) \/ DoctorOwner(p) \/ DoctorLocks(p)
  BY <1>4, DoctorEdges DEF Edge, Lands
<1>5. CASE CycleStart(p) \/ Recover(p) \/ Refresh(p) \/ ExecuteGuard(p) \/ Submit(p) \/ LoopNext(p) \/ CanaryWait(p)
  BY <1>5, CycleEdges DEF Edge, Lands
<1>6. CASE CanaryNext(p) \/ CanaryRelease(p)
  BY <1>6, StoreEdges DEF Lands
<1>7. CASE OpenStore(p)
  <2>1. AfterOpen[proc[p].cmd] \notin {"lock", "ops", "locks", "open"}
    BY <1>7, AliveRuns DEF OpenStore, AfterOpen, Command
  <2>2. \/ Lands(p, AfterOpen[proc[p].cmd], TRUE, proc[p].cycles) \/ Edge(p, {"unlock"})
    BY <1>1, <1>7, StoreEdges
  <2> QED BY <2>1, <2>2 DEF Edge, Lands
<1>8. CASE Stage7Cycle(p) \/ IncrementErrors(p) \/ set_kill_switch(p)
  BY <1>8, ChainEdges DEF Edge, Lands
<1>9. CASE run_preflight_checks(p) \/ UnlockInstance(p) \/ ClearStalePidFile(p) \/ OtherTool(p)
  BY <1>1, <1>9, ChainEdges
<1> QED BY <1>2, <1>3, <1>4, <1>5, <1>6, <1>7, <1>8, <1>9 DEF Step

(* A process runs on a store because it just opened it, or goes on to.     *)
LEMMA StepOpens ==
  ASSUME TypeOK, PlaceInv, NEW p \in Pid, Step(p), proc'[p].open
  PROVE \/ OpenStore(p) /\ RegisterInstanceLock(p, Strict(p), TRUE)
        \/ proc[p].open /\ ~CanaryRelease(p) /\ ~run_preflight_checks(p) /\ ~UnlockInstance(p)
<1>1. ~Exit(p)
  BY ExitMoves DEF Off
<1>2. CASE SingleInstanceLock(p) \/ Unlock(p) \/ ReadPidFile(p) \/ UnlinkPidFile(p)
  <2>1. proc[p].open
    BY <1>1, <1>2, LockEdges DEF Edge, Lands
  <2>2. ~CanaryRelease(p) /\ ~run_preflight_checks(p) /\ ~UnlockInstance(p)
    BY <1>2 DEF CanaryRelease, run_preflight_checks, UnlockInstance, SingleInstanceLock, Unlock, ReadPidFile, UnlinkPidFile
  <2> QED BY <2>1, <2>2
<1>4. CASE DoctorAccounting(p) \/ DoctorOwner(p) \/ DoctorLocks(p)
  <2>1. proc[p].open
    BY <1>4, DoctorEdges DEF Edge, Lands
  <2>2. ~CanaryRelease(p) /\ ~run_preflight_checks(p) /\ ~UnlockInstance(p)
    BY <1>4 DEF CanaryRelease, run_preflight_checks, UnlockInstance, DoctorAccounting, DoctorOwner, DoctorLocks
  <2> QED BY <2>1, <2>2
<1>5. CASE CycleStart(p) \/ Recover(p) \/ Refresh(p) \/ ExecuteGuard(p) \/ Submit(p) \/ LoopNext(p) \/ CanaryWait(p)
  <2>1. proc[p].open
    BY <1>5, CycleEdges DEF Edge, Lands
  <2>2. ~CanaryRelease(p) /\ ~run_preflight_checks(p) /\ ~UnlockInstance(p)
    BY <1>5 DEF CanaryRelease, run_preflight_checks, UnlockInstance, CycleStart, Recover, Refresh, ExecuteGuard, Submit,
      LoopNext, CanaryWait
  <2> QED BY <2>1, <2>2
<1>6. CASE CanaryNext(p) \/ CanaryRelease(p)
  <2>1. ~CanaryRelease(p)
    BY StoreEdges DEF Lands
  <2>2. proc[p].open
    BY <1>6, <2>1, StoreEdges DEF Lands
  <2>3. ~run_preflight_checks(p) /\ ~UnlockInstance(p)
    BY <1>6 DEF CanaryNext, CanaryRelease, run_preflight_checks, UnlockInstance
  <2> QED BY <2>1, <2>2, <2>3
<1>7. CASE OpenStore(p)
  <2>2. ~CanaryRelease(p) /\ ~run_preflight_checks(p) /\ ~UnlockInstance(p)
    BY <1>7 DEF CanaryRelease, run_preflight_checks, UnlockInstance, OpenStore
  <2> QED BY <1>1, <1>7, <2>2, StoreEdges DEF Edge, Lands
<1>8. CASE Stage7Cycle(p) \/ IncrementErrors(p) \/ set_kill_switch(p)
  <2>1. proc[p].open
    BY <1>8, ChainEdges DEF Edge, Lands
  <2>2. ~CanaryRelease(p) /\ ~run_preflight_checks(p) /\ ~UnlockInstance(p)
    BY <1>8 DEF CanaryRelease, run_preflight_checks, UnlockInstance, Stage7Cycle, IncrementErrors, set_kill_switch
  <2> QED BY <2>1, <2>2
<1>9. CASE run_preflight_checks(p) \/ UnlockInstance(p) \/ ClearStalePidFile(p) \/ OtherTool(p)
  BY <1>1, <1>9, ChainEdges
<1> QED BY <1>2, <1>4, <1>5, <1>6, <1>7, <1>8, <1>9 DEF Step

(* The main row of a process outlives its own steps too. *)
LEMMA StepOwnRow ==
  ASSUME TypeOK, PlaceInv, NEW p \in Pid, Step(p), MainRow(p),
         ~CanaryRelease(p), ~run_preflight_checks(p), ~UnlockInstance(p)
  PROVE MainRow(p)'
<1>0. UNCHANGED rows => MainRow(p)'
  BY DEF MainRow, Fresh
<1>1. CASE OpenStore(p) \/ DoctorAccounting(p) \/ DoctorLocks(p)
  <2>1. \/ RegisterInstanceLock(p, Strict(p), TRUE) \/ RegisterInstanceLock(p, FALSE, FALSE) \/ UNCHANGED rows
    BY <1>1 DEF OpenStore, DoctorAccounting, DoctorLocks
  <2> QED BY <1>0, <2>1, RegisterRows
<1>2. CASE CycleStart(p) \/ Refresh(p) \/ LoopNext(p) \/ CanaryWait(p)
  <2>1. heartbeat_instance_lock(p) \/ UNCHANGED rows
    BY <1>2 DEF CycleStart, Refresh, LoopNext, CanaryWait
  <2> QED BY <1>0, <2>1, BeatRows
<1>5. CASE /\ ~OpenStore(p) /\ ~DoctorAccounting(p) /\ ~DoctorLocks(p)
           /\ ~CycleStart(p) /\ ~Refresh(p) /\ ~LoopNext(p) /\ ~CanaryWait(p)
  <2>1. UNCHANGED rows
    BY <1>5 DEF Step, SingleInstanceLock, Unlock, ReadPidFile, UnlinkPidFile, DoctorOwner, Recover, ExecuteGuard, Submit,
      CanaryNext, Stage7Cycle, IncrementErrors, set_kill_switch, ClearStalePidFile, OtherTool
  <2> QED BY <1>0, <2>1
<1> QED BY <1>1, <1>2, <1>5

FreshFor(p) == /\ proc[p].open => MainRow(p)
               /\ AskedDoctor(p) => HasRow(p)
               /\ proc[p].cmd = "run" /\ proc[p].at \in {"lock", "open"} => ~HasRow(p)

LEMMA SameRowsFresh ==
  ASSUME NEW q \in Pid, FreshFor(q), proc'[q] = proc[q], FreshOf(q)' = FreshOf(q)
  PROVE FreshFor(q)'
<1>1. (HasRow(q)' <=> HasRow(q)) /\ (MainRow(q)' <=> MainRow(q))
  <2>1. /\ HasRow(q) <=> FreshOf(q) # {}
        /\ MainRow(q) <=> \E r \in FreshOf(q) : r.main
    BY DEF HasRow, MainRow, FreshOf
  <2>2. /\ HasRow(q)' <=> FreshOf(q)' # {}
        /\ MainRow(q)' <=> \E r \in FreshOf(q)' : r.main
    BY DEF HasRow, MainRow, FreshOf
  <2> QED BY <2>1, <2>2
<1> QED BY <1>1 DEF FreshFor, AskedDoctor

LEMMA OffIsFresh ==
  ASSUME NEW p \in Pid, proc'[p] = Off
  PROVE FreshFor(p)'
BY DEF FreshFor, AskedDoctor, Off

LEMMA TickRows ==
  ASSUME TypeOK, PlaceInv, Tick, NEW q \in Pid, FreshFor(q)
  PROVE FreshFor(q)'
<1>0. rows \subseteq Row /\ TTL \in Nat /\ UNCHANGED proc
  BY ControlAssumption DEF TypeOK, ControlAssumption, Tick
<1> DEFINE Aged(r) == [r EXCEPT !.age = Min({r.age + 1, TTL + 1})]
<1>1. rows' = {Aged(r) : r \in rows}
  BY DEF Tick
<1>2. \A n \in 0 .. TTL + 1 : /\ Min({n + 1, TTL + 1}) \in Nat
                              /\ n < TTL => Min({n + 1, TTL + 1}) <= TTL
                              /\ Min({n + 1, TTL + 1}) <= TTL => n <= TTL
  BY <1>0 DEF Min
<1>3. \A r \in rows : /\ Aged(r).pid = r.pid /\ Aged(r).main = r.main
                      /\ Aged(r).age = Min({r.age + 1, TTL + 1}) /\ r.age \in 0 .. TTL + 1
  BY <1>0 DEF Row
<1>8. \A r \in rows : /\ r.age < TTL => Aged(r).age <= TTL
                      /\ Aged(r).age <= TTL => r.age <= TTL
  <2> HIDE DEF Aged
  <2> SUFFICES ASSUME NEW r \in rows
               PROVE /\ r.age < TTL => Aged(r).age <= TTL
                     /\ Aged(r).age <= TTL => r.age <= TTL
    OBVIOUS
  <2>1. Aged(r).age = Min({r.age + 1, TTL + 1}) /\ r.age \in 0 .. TTL + 1
    BY <1>3
  <2>2. /\ r.age < TTL => Min({r.age + 1, TTL + 1}) <= TTL
        /\ Min({r.age + 1, TTL + 1}) <= TTL => r.age <= TTL
    BY <1>2, <2>1, Zenon
  <2> QED BY <2>1, <2>2, Zenon
<1> HIDE DEF Aged
<1>4. ~HasRow(q) => ~HasRow(q)'
  <2> SUFFICES ASSUME HasRow(q)' PROVE HasRow(q)
    OBVIOUS
  <2>1. PICK s \in rows' : s.pid = q /\ s.age <= TTL
    BY DEF HasRow, Fresh
  <2>2. PICK r \in rows : s = Aged(r)
    BY <1>1, <2>1
  <2>3. r.pid = q /\ r.age <= TTL
    BY <1>3, <1>8, <2>1, <2>2
  <2> QED BY <2>2, <2>3 DEF HasRow, Fresh
<1>5. ASSUME NEW r \in Fresh, r.pid = q, proc[q].at # "off", r.main \/ ~proc[q].open
      PROVE Aged(r) \in Fresh'
  <2>1. r.age < TTL /\ r \in rows
    BY <1>5 DEF Tick, Alive, Fresh
  <2>2. Aged(r).age <= TTL /\ Aged(r) \in rows'
    BY <1>1, <1>8, <2>1
  <2> QED BY <2>2 DEF Fresh
<1>6. ASSUME proc[q].open
      PROVE MainRow(q)'
  <2>1. proc[q].at # "off"
    BY <1>6 DEF PlaceInv, Off
  <2>2. PICK r \in Fresh : r.pid = q /\ r.main
    BY <1>6 DEF FreshFor, MainRow
  <2>3. Aged(r) \in Fresh' /\ r \in rows
    BY <1>5, <2>1, <2>2 DEF Fresh
  <2> QED BY <1>3, <2>2, <2>3 DEF MainRow
<1>7. ASSUME AskedDoctor(q)
      PROVE HasRow(q)'
  <2>1. CASE proc[q].open
    BY <1>6, <2>1 DEF HasRow, MainRow
  <2>2. CASE ~proc[q].open
    <3>1. PICK r \in Fresh : r.pid = q
      BY <1>7 DEF FreshFor, HasRow
    <3>2. proc[q].at # "off" /\ r \in rows
      BY <1>7, <3>1 DEF AskedDoctor, Fresh
    <3> QED BY <1>3, <1>5, <2>2, <3>1, <3>2 DEF HasRow
  <2> QED BY <2>1, <2>2
<1> QED BY <1>0, <1>4, <1>6, <1>7 DEF FreshFor, AskedDoctor

LEMMA FreshStep == TypeOK /\ PlaceInv /\ FreshInv /\ [Next]_vars => FreshInv'
<1> SUFFICES ASSUME TypeOK, PlaceInv, FreshInv, [Next]_vars, NEW q \in Pid PROVE FreshFor(q)'
  BY DEF FreshInv, FreshFor
<1>0. FreshFor(q)
  BY DEF FreshInv, FreshFor
<1>1. CASE UNCHANGED vars
  BY <1>0, <1>1 DEF vars, FreshFor, HasRow, MainRow, AskedDoctor, Fresh
<1>2. ASSUME NEW p \in Pid, NEW c \in Command, NEW k \in Configs, Begin(p, c, k)
      PROVE FreshFor(q)'
  <2>0. rows \subseteq Row /\ rows' = {IF r.pid = p THEN [r EXCEPT !.main = FALSE] ELSE r : r \in rows}
    BY <1>2 DEF Begin, TypeOK
  <2>1. \A r \in rows : [r EXCEPT !.main = FALSE].pid = r.pid /\ [r EXCEPT !.main = FALSE].age = r.age
    BY <2>0 DEF Row
  <2>2. CASE q = p
    <3>1. ~HasRow(p)
      BY <1>2 DEF Begin, PidIsFree, HasRow
    <3>2. ~HasRow(p)'
      BY <2>0, <2>1, <3>1 DEF HasRow, Fresh
    <3>3. ~proc'[p].open /\ ~(proc'[p].cmd = "canary" /\ proc'[p].at \in {"ops", "locks", "open"})
      BY <1>2, BeginLands DEF FirstPlace, Locks, LockKey
    <3> QED BY <2>2, <3>2, <3>3 DEF FreshFor, AskedDoctor
  <2>3. CASE q # p
    <3>1. \A r : r.pid = q => (r \in rows' <=> r \in rows)
      BY <2>0, <2>1, <2>3
    <3>2. FreshOf(q)' = FreshOf(q)
      BY <3>1 DEF FreshOf, Fresh
    <3>3. proc'[q] = proc[q]
      BY <1>2, <2>3, BeginLands
    <3> QED BY <1>0, <3>2, <3>3, SameRowsFresh
  <2> QED BY <2>2, <2>3
<1>3. CASE Tick
  BY <1>0, <1>3, TickRows
<1>4. ASSUME NEW p \in Pid, Crash(p)
      PROVE FreshFor(q)'
  <2>1. Moves(p) /\ proc'[p] = Off /\ UNCHANGED rows
    BY <1>4, ExitMoves DEF Crash
  <2>2. CASE q = p
    BY <2>1, <2>2, OffIsFresh
  <2>3. CASE q # p
    <3>1. proc'[q] = proc[q] /\ FreshOf(q)' = FreshOf(q)
      BY <2>1, <2>3 DEF Moves, FreshOf, Fresh
    <3> QED BY <1>0, <3>1, SameRowsFresh
  <2> QED BY <2>2, <2>3
<1>5. ASSUME NEW p \in Pid, Step(p)
      PROVE FreshFor(q)'
  <2>0. Moves(p) /\ proc[p].at # "off"
    BY <1>5, StepMoves
  <2>1. CASE q = p
    <3>1. ASSUME proc'[p].open PROVE MainRow(p)'
      BY <1>0, <1>5, <2>1, <3>1, StepOpens, StepOwnRow, RegisterRows DEF FreshFor
    <3>2. ASSUME AskedDoctor(p)' PROVE HasRow(p)'
      <4>1. proc'[p].at \in {"ops", "locks", "open"} /\ proc[p].cmd = "canary"
        BY <2>0, <3>2 DEF AskedDoctor, Moves, Off
      <4>2. CASE DoctorAccounting(p) \/ DoctorLocks(p)
        BY <4>2, RegisterRows DEF DoctorAccounting, DoctorLocks
      <4>3. CASE DoctorOwner(p)
        <5>1. HasRow(p) /\ UNCHANGED rows
          BY <1>0, <2>1, <4>1, <4>3 DEF DoctorOwner, FreshFor, AskedDoctor
        <5> QED BY <5>1 DEF HasRow, Fresh
      <4> QED BY <1>5, <4>1, <4>2, <4>3, StepAsks
    <3>3. ASSUME proc'[p].cmd = "run", proc'[p].at \in {"lock", "open"} PROVE ~HasRow(p)'
      <4>1. proc[p].cmd = "run"
        BY <2>0, <3>3 DEF Moves, Off
      <4>2. ~DoctorLocks(p) /\ ~DoctorAccounting(p) /\ ~DoctorOwner(p)
        BY <2>0, <4>1 DEF DoctorLocks, DoctorAccounting, DoctorOwner, PlaceInv, Placed, Allowed, GatePlaces
      <4>3. SingleInstanceLock(p)
        BY <1>5, <3>3, <4>2, StepAsks
      <4>4. ~HasRow(p) /\ UNCHANGED rows
        BY <1>0, <2>1, <4>1, <4>3 DEF SingleInstanceLock, FreshFor
      <4> QED BY <4>4 DEF HasRow, Fresh
    <3> QED BY <2>1, <3>1, <3>2, <3>3 DEF FreshFor
  <2>2. CASE q # p
    <3>1. proc'[q] = proc[q]
      BY <2>0, <2>2 DEF Moves
    <3>2. CASE proc[q].at = "off"
      <4>1. proc'[q] = Off
        BY <3>1, <3>2 DEF PlaceInv
      <4> QED BY <4>1, OffIsFresh
    <3>3. CASE proc[q].at # "off"
      BY <1>0, <1>5, <2>2, <3>1, <3>3, StepOtherRows, SameRowsFresh
    <3> QED BY <3>2, <3>3
  <2> QED BY <2>1, <2>2
<1> QED BY <1>1, <1>2, <1>3, <1>4, <1>5, NextKinds

LEMMA FreshInvariant == Spec => [](TypeOK /\ PlaceInv /\ FreshInv)
<1>1. Init => TypeOK /\ PlaceInv /\ FreshInv
  <2>1. Init => FreshInv
    BY DEF Init, FreshInv, Off, AskedDoctor, HasRow, Fresh
  <2> QED BY <2>1, ControlTypeInit
<1>2. TypeOK /\ PlaceInv /\ FreshInv /\ [Next]_vars => (TypeOK /\ PlaceInv /\ FreshInv)'
  BY ControlTypeStep, FreshStep
<1> QED BY <1>1, <1>2, PTL DEF Spec

(* The row of a process that works on the database is active and fresh:    *)
(* neither another process's start, nor its own doctor's stores, nor the   *)
(* operator's unlock takes it away or lets it go stale.                    *)
THEOREM WorkingRowIsFresh == Spec => []ServedRowIsFresh
<1>1. FreshInv => ServedRowIsFresh
  BY DEF FreshInv, ServedRowIsFresh, Serving, MainRow
<1> QED BY <1>1, FreshInvariant, PTL

-----------------------------------------------------------------------------
(* The trader and the canary *)

(* A trader works because it did, or because it just opened its store.     *)
LEMMA StepServes ==
  ASSUME TypeOK, PlaceInv, NEW p \in Pid, Step(p), Trading(p)'
  PROVE Trading(p) \/ (OpenStore(p) /\ RegisterInstanceLock(p, Strict(p), TRUE) /\ proc[p].cmd = "run")
<1>1. proc'[p].open /\ proc'[p].cmd = "run" /\ proc'[p].at # "off"
  BY DEF Trading, Serving
<1>2. proc[p].cmd = "run" /\ proc[p].at # "off"
  BY <1>1, StepMoves DEF Moves, Off
<1>3. CASE ~OpenStore(p)
  <2>1. proc[p].open
    BY <1>1, <1>3, StepOpens
  <2>2. CASE CycleStart(p) \/ Recover(p) \/ Refresh(p) \/ ExecuteGuard(p) \/ Submit(p) \/ LoopNext(p)
    BY <1>2, <2>1, <2>2 DEF CycleStart, Recover, Refresh, ExecuteGuard, Submit, LoopNext, Trading, Serving
  <2>3. CASE SingleInstanceLock(p) \/ Unlock(p) \/ ReadPidFile(p) \/ UnlinkPidFile(p)
    <3>1. ~Exit(p)
      BY <1>1, ExitMoves DEF Off
    <3>2. proc'[p].at \in {"p14", "unlock", "open", "owned", "unlink"}
      BY <2>3, <3>1, LockEdges DEF Edge, Lands
    <3> QED BY <3>2 DEF Trading, Serving
  <2>4. CASE \/ DoctorAccounting(p) \/ DoctorOwner(p) \/ DoctorLocks(p) \/ CanaryNext(p) \/ CanaryWait(p)
             \/ CanaryRelease(p) \/ Stage7Cycle(p) \/ IncrementErrors(p) \/ set_kill_switch(p)
    <3>1. proc[p].at \in GatePlaces \cup ChainPlaces \cup {"wait", "release"} \/ proc[p].cmd = "canary"
      BY <2>4 DEF DoctorAccounting, DoctorOwner, DoctorLocks, CanaryNext, CanaryWait, CanaryRelease, Stage7Cycle,
        IncrementErrors, set_kill_switch, GatePlaces, ChainPlaces
    <3> QED BY <1>2, <3>1 DEF PlaceInv, Placed, Allowed
  <2>5. CASE run_preflight_checks(p) \/ UnlockInstance(p) \/ ClearStalePidFile(p) \/ OtherTool(p)
    BY <1>1, <2>5, ChainEdges, ExitMoves DEF Off
  <2> QED BY <1>3, <2>2, <2>3, <2>4, <2>5 DEF Step
<1>4. CASE OpenStore(p)
  <2>1. \/ RegisterInstanceLock(p, Strict(p), TRUE)
        \/ Edge(p, {"unlock"}) \/ Exit(p)
    BY <1>4, StoreEdges
  <2>3. ~Exit(p)
    BY <1>1, ExitMoves DEF Off
  <2>4. proc'[p].at # "unlock"
    BY DEF Trading, Serving
  <2>5. Edge(p, {"unlock"}) => proc'[p].at = "unlock"
    BY DEF Edge, Lands
  <2>2. ~Exit(p) /\ ~Edge(p, {"unlock"})
    BY <2>3, <2>4, <2>5
  <2> QED BY <1>2, <1>4, <2>1, <2>2
<1> QED BY <1>3, <1>4

(* The canary is admitted because it was, or because its doctor found no   *)
(* other owner of the trader lock.                                         *)
LEMMA StepAdmits ==
  ASSUME TypeOK, PlaceInv, NEW p \in Pid, Step(p), Admitted(p)'
  PROVE /\ proc[p].at # "off" /\ proc[p].cmd = "canary"
        /\ Admitted(p) \/ OwnerIsSane(p)
<1>1. proc[p].at # "off" /\ proc[p].cmd = "canary"
  BY StepMoves DEF Moves, Off, Admitted
<1>2. CASE proc'[p].open
  <2>1. proc[p].open \/ OpenStore(p)
    BY <1>2, StepOpens
  <2> QED BY <1>1, <2>1 DEF Admitted, OpenStore
<1>3. CASE proc'[p].at \in {"locks", "open"}
  <2>1. (DoctorOwner(p) /\ OwnerIsSane(p)) \/ DoctorLocks(p)
    BY <1>1, <1>3, StepAsks
  <2> QED BY <1>1, <2>1 DEF Admitted, DoctorLocks
<1> QED BY <1>1, <1>2, <1>3 DEF Admitted

(* A working trader holds the trader lock. *)
LEMMA TradingHolds ==
  ASSUME NEW p \in Pid, Trading(p)
  PROVE Holds(p, "trader")
BY DEF Trading, Serving, Holds, Locks, LockKey, EndPlaces

LEMMA GateStep ==
  ASSUME StrictStart, UnlinkOwn
  PROVE TypeOK /\ PlaceInv /\ LockInv /\ FileInv /\ FreshInv /\ GateInv /\ [Next]_vars => GateInv'
<1> SUFFICES ASSUME TypeOK, PlaceInv, LockInv, FileInv, FreshInv, GateInv, [Next]_vars,
                    NEW t \in Pid, NEW q \in Pid, Admitted(q)', Trading(t)'
             PROVE FALSE
  BY DEF GateInv
<1>0. t # q
  BY DEF Admitted, Trading
<1>1. CASE UNCHANGED vars
  BY <1>1 DEF vars, GateInv, Admitted, Trading, Serving
<1>2. ASSUME NEW p \in Pid, NEW c \in Command, NEW k \in Configs, Begin(p, c, k)
      PROVE FALSE
  <2>1. p # t
    BY <1>2, BeginLands DEF Trading, Serving
  <2>2. p # q
    <3>1. proc'[p].open = FALSE /\ proc'[p].cmd = c /\ proc'[p].at = FirstPlace(c)
      BY <1>2, BeginLands
    <3>2. c = "canary" => FirstPlace(c) = "lock"
      BY DEF FirstPlace, Locks, LockKey
    <3> QED BY <3>1, <3>2 DEF Admitted
  <2>3. proc'[t] = proc[t] /\ proc'[q] = proc[q]
    BY <1>2, <2>1, <2>2, BeginLands
  <2> QED BY <2>3 DEF GateInv, Admitted, Trading, Serving
<1>3. CASE Tick
  BY <1>3 DEF Tick, GateInv, Admitted, Trading, Serving
<1>4. ASSUME NEW p \in Pid, Crash(p)
      PROVE FALSE
  <2>1. Moves(p) /\ proc'[p] = Off
    BY <1>4, ExitMoves DEF Crash
  <2>2. p # t /\ p # q
    BY <2>1 DEF Off, Trading, Serving, Admitted
  <2>3. proc'[t] = proc[t] /\ proc'[q] = proc[q]
    BY <2>1, <2>2 DEF Moves
  <2> QED BY <2>3 DEF GateInv, Admitted, Trading, Serving
<1>5. ASSUME NEW p \in Pid, Step(p)
      PROVE FALSE
  <2>0. Moves(p)
    BY <1>5, StepMoves
  <2>1. CASE p = t
    <3>1. proc'[q] = proc[q]
      BY <1>0, <2>0, <2>1 DEF Moves
    <3>2. Admitted(q)
      BY <3>1 DEF Admitted
    <3>3. OpenStore(t) /\ RegisterInstanceLock(t, Strict(t), TRUE) /\ proc[t].cmd = "run"
      BY <1>5, <2>1, <3>2, StepServes DEF GateInv
    <3>4. HasRow(q)
      BY <3>2 DEF FreshInv, Admitted, AskedDoctor, HasRow, MainRow
    <3>5. ~HasRow(t)
      BY <3>3 DEF FreshInv, OpenStore
    <3>6. Strict(t)
      BY <3>3 DEF Strict, StrictLock
    <3>7. Fresh # {} /\ \A r \in ActiveRow : r.pid # t
      BY <3>4, <3>5 DEF HasRow, ActiveRow
    <3> QED BY <3>3, <3>6, <3>7 DEF RegisterInstanceLock
  <2>2. CASE p = q
    <3>1. proc'[t] = proc[t]
      BY <1>0, <2>0, <2>2 DEF Moves
    <3>2. Trading(t)
      BY <3>1 DEF Trading, Serving
    <3>3. OwnerIsSane(q) /\ proc[q].at # "off" /\ proc[q].cmd = "canary"
      BY <1>5, <2>2, <3>2, StepAdmits DEF GateInv
    <3>4. pidFile # q /\ pidFile = t
      BY <3>2, <3>3, TradingHolds DEF FileInv
    <3> QED BY <3>3, <3>4, ControlAssumption DEF OwnerIsSane, ControlAssumption
  <2>3. CASE p # t /\ p # q
    <3>1. proc'[t] = proc[t] /\ proc'[q] = proc[q]
      BY <2>0, <2>3 DEF Moves
    <3> QED BY <3>1 DEF GateInv, Admitted, Trading, Serving
  <2> QED BY <2>1, <2>2, <2>3
<1> QED BY <1>1, <1>2, <1>3, <1>4, <1>5, NextKinds

GateAll == TypeOK /\ PlaceInv /\ LockInv /\ FileInv /\ FreshInv /\ GateInv

LEMMA GateExcludes ==
  ASSUME GateAll
  PROVE ArmedExclusion
<1> SUFFICES ASSUME NEW p \in Pid, NEW q \in Pid, Serving(p), Serving(q) PROVE p = q
  BY DEF ArmedExclusion
<1>1. CASE proc[p].cmd = "run" /\ proc[q].cmd = "run"
  BY <1>1, TradingHolds DEF Trading, LockInv, GateAll
<1>2. CASE proc[p].cmd = "canary" /\ proc[q].cmd = "canary"
  <2>1. Holds(p, "canary") /\ Holds(q, "canary")
    BY <1>2 DEF Serving, Holds, Locks, LockKey, EndPlaces
  <2> QED BY <2>1 DEF LockInv, GateAll
<1>3. ASSUME NEW t \in {p, q}, NEW c \in {p, q}, proc[t].cmd = "run", proc[c].cmd = "canary"
      PROVE FALSE
  <2>1. Trading(t) /\ Admitted(c)
    BY <1>3 DEF Trading, Admitted, Serving
  <2> QED BY <2>1 DEF GateInv, GateAll
<1>4. proc[p].cmd \in {"run", "canary"} /\ proc[q].cmd \in {"run", "canary"}
  BY DEF Serving
<1> QED BY <1>1, <1>2, <1>3, <1>4

(* With the strict database lock, and if nobody replaces a pid file        *)
(* between its read and its unlink, the trader loop and the canary never   *)
(* work on the database at the same time, nor two of either, whatever      *)
(* starts, crashes and clean-ups come between.                             *)
THEOREM TraderAndCanaryExclude ==
  ASSUME StrictStart, UnlinkOwn
  PROVE Spec => []ArmedExclusion
<1>1. Init => GateAll
  <2>1. Init => LockInv /\ FileInv /\ FreshInv /\ GateInv
    BY DEF Init, LockInv, FileInv, FreshInv, GateInv, Holds, Off, EndPlaces, AskedDoctor, HasRow, Fresh, Admitted
  <2> QED BY <2>1, ControlTypeInit DEF GateAll
<1>2. GateAll /\ [Next]_vars => GateAll'
  BY ControlTypeStep, LockStep, FileStep, FreshStep, GateStep DEF GateAll
<1> QED BY <1>1, <1>2, GateExcludes, PTL DEF Spec
=============================================================================
