------------------------------ MODULE Watchdog ------------------------------
(***************************************************************************)
(* The time side of supervision, which the resident service leaves out:    *)
(* WorkerWatchdog.check (openvdn_comfy/supervision.py) and the loop of     *)
(* scripts/serve.py that calls it, cancels, backs off and launches again.  *)
(* A tick is one turn of that loop.  An instant t of the code is kept as   *)
(* its age, now - t, capped where no comparison tells ages apart.          *)
(***************************************************************************)
EXTENDS Integers, FiniteSets, FiniteSetsExt

CONSTANTS
  Ranks,
  StartupTimeout, RequestTimeout, IdleTimeout,    \* Policy
  RestartDelay, RestartMaxDelay, StableSeconds,
  CancelDelay,  \* the delay after a cancel, 1 s in the code
  BeatEvery,    \* a rank in its main loop renews its heartbeat within so many ticks
  Bound         \* of consecutive, where the delay no longer grows

(* The delay grows by powers of two, up to the sixteenth.                  *)
LargestExponent == 16
Doubled[n \in 0 .. LargestExponent] == IF n = 0 THEN 1 ELSE 2 * Doubled[n - 1]
Exponent(n) == Min({LargestExponent, Max({0, n - 1})})
AtMostMaxDelay(delay) == Min({RestartMaxDelay, delay})

(* Mutant of Delay: restart_max_delay is not applied.                      *)
DelayUncapped(n) == RestartDelay * Doubled[Exponent(n)]

(* Policy.delay().                                                         *)
Delay(n) == AtMostMaxDelay(RestartDelay * Doubled[Exponent(n)])

ASSUME WatchdogAssumption ==
  /\ IsFiniteSet(Ranks) /\ Ranks # {}
  /\ {StartupTimeout, RequestTimeout, IdleTimeout, RestartDelay, RestartMaxDelay,
      StableSeconds, CancelDelay, BeatEvery, Bound} \subseteq Nat \ {0}
  /\ RestartDelay <= RestartMaxDelay
  /\ BeatEvery < IdleTimeout
  /\ Bound <= LargestExponent + 1
  /\ Bound = LargestExponent + 1 \/ RestartMaxDelay <= RestartDelay * Doubled[Exponent(Bound)]

VARIABLES
  \* the worker group
  group,        \* none, loading, ready, exited
  mode,         \* of each rank: loop, busy, hung
  quiet,        \* of each rank: age of heartbeat_at
  heartbeat,    \* of each rank: is its file absent, as in beats, or newer
  command,      \* of this instance: [token, age, answered], or None
  cancel,       \* reason in cancel.json, if it names this instance, or none
  \* the controller
  turn,         \* where the loop stands: read, check, sleep
  current,      \* health() was ready
  consecutive, wait,                    \* wait: until next_attempt
  started, ready_since,                 \* WorkerWatchdog
  token, request_started, idle_since,
  beats,        \* of each rank: age of the last change seen, or None
  \* ghosts
  ready_for,    \* age of the readiness itself, whoever has seen it
  sick,         \* age of the first hang of this group, or None
  row,          \* failures in a row, at least and at most; <<>> before the first end
  idle_for      \* ticks without a group

worldVars == <<group, mode, quiet, heartbeat, command, cancel>>
watchdogVars == <<started, ready_since, token, request_started, idle_since, beats>>
ghosts == <<ready_for, sick, row, idle_for>>
wvars == <<worldVars, turn, current, consecutive, wait, watchdogVars, ghosts>>

None == -1
Tokens == 0 .. 2                \* one command a tick: three are told apart
NoCommand == [token |-> None, age |-> 0, answered |-> FALSE]
Older(age, limit) == IF age = None THEN None ELSE Min({age + 1, limit})
EachRank(v) == [r \in Ranks |-> v]

(* The ghost count of failures: a group that has been ready for about      *)
(* StableSeconds may have cleared it, one that was longer must have.       *)
Slack == 2                      \* turns of the loop
\* How long a hang can go unnoticed.
Longest == Max({StartupTimeout, IdleTimeout + RequestTimeout}) + Slack + 1
Fewest == IF row = <<>> \/ (ready_for # None /\ ready_for >= StableSeconds) THEN 0 ELSE row[1]
Most == IF row = <<>> \/ (ready_for # None /\ ready_for >= StableSeconds + Slack) THEN 0 ELSE row[2]

WatchdogInit ==
  /\ group = "none"
  /\ mode = EachRank("loop") /\ quiet = EachRank(0) /\ heartbeat = EachRank("absent")
  /\ command = NoCommand /\ cancel = "none"
  /\ turn = "read" /\ current = FALSE
  /\ consecutive = 0 /\ wait = 0
  /\ started = 0 /\ ready_since = None
  /\ token = None /\ request_started = None /\ idle_since = None /\ beats = EachRank(None)
  /\ ready_for = None /\ sick = None /\ row = <<>> /\ idle_for = 0

-----------------------------------------------------------------------------
(* The group, and the client that holds gpu.lock.                          *)
BecomeReady ==
  /\ group = "loading" /\ sick = None
  /\ group' = "ready" /\ ready_for' = 0
  /\ quiet' = EachRank(BeatEvery)
  /\ UNCHANGED <<mode, heartbeat, command, cancel, turn, current, consecutive, wait,
                 watchdogVars, sick, row, idle_for>>

Beat(r) ==
  /\ group = "ready" /\ mode[r] = "loop" /\ quiet[r] = BeatEvery
  /\ heartbeat' = [heartbeat EXCEPT ![r] = "new"]
  /\ quiet' = [quiet EXCEPT ![r] = 0]
  /\ UNCHANGED <<group, mode, command, cancel, turn, current, consecutive, wait,
                 watchdogVars, ghosts>>

(* A command is published once the controller has reported the group ready.*)
Publish ==
  /\ group = "ready" /\ ready_since # None /\ cancel = "none"
  /\ command.token = None \/ (command.answered /\ command.age > 0)
  /\ command' = [token |-> (command.token + 1) % 3, age |-> 0, answered |-> FALSE]
  /\ UNCHANGED <<group, mode, quiet, heartbeat, cancel, turn, current, consecutive, wait,
                 watchdogVars, ghosts>>

(* The main loop renews a heartbeat that is due before it looks for a      *)
(* command.                                                                *)
Take(r) ==
  /\ group = "ready" /\ mode[r] = "loop" /\ quiet[r] < BeatEvery
  /\ command.token # None /\ ~command.answered
  /\ mode' = [mode EXCEPT ![r] = "busy"]
  /\ UNCHANGED <<group, quiet, heartbeat, command, cancel, turn, current, consecutive, wait,
                 watchdogVars, ghosts>>

(* All ranks end the request together; its result or receipt is there.     *)
Answer ==
  /\ group = "ready" /\ ~command.answered /\ mode = EachRank("busy")
  /\ command' = [command EXCEPT !.answered = TRUE]
  /\ mode' = EachRank("loop")
  /\ UNCHANGED <<group, quiet, heartbeat, cancel, turn, current, consecutive, wait,
                 watchdogVars, ghosts>>

(* The client gives up: the user interrupts, or its own deadline passes.   *)
Cancel(reason) ==
  /\ group \in {"ready", "exited"} /\ command.token # None /\ ~command.answered /\ cancel = "none"
  /\ reason = "timeout" => command.age > RequestTimeout
  /\ cancel' = reason
  /\ UNCHANGED <<group, mode, quiet, heartbeat, command, turn, current, consecutive, wait,
                 watchdogVars, ghosts>>

Hang(r) ==
  /\ group \in {"loading", "ready"} /\ mode[r] # "hung"
  /\ mode' = [mode EXCEPT ![r] = "hung"]
  /\ sick' = IF sick = None THEN 0 ELSE sick
  /\ UNCHANGED <<group, quiet, heartbeat, command, cancel, turn, current, consecutive, wait,
                 watchdogVars, ready_for, row, idle_for>>

(* A rank raises or dies, and the group with it.                           *)
Exit ==
  /\ group \in {"loading", "ready"}
  /\ group' = "exited"
  /\ UNCHANGED <<mode, quiet, heartbeat, command, cancel, turn, current, consecutive, wait,
                 watchdogVars, ghosts>>

-----------------------------------------------------------------------------
(* The controller: health() is read first, everything else later.          *)
ReadHealth ==
  /\ turn = "read" /\ group # "none"
  /\ turn' = "check"
  /\ current' = (group = "ready")
  /\ UNCHANGED <<worldVars, consecutive, wait, watchdogVars, ghosts>>

(* Nothing of a group that is gone is looked at again: launch_worker()     *)
(* begins with files and a watchdog of a new instance.                     *)
Forget ==
  /\ mode' = EachRank("loop") /\ quiet' = EachRank(0) /\ heartbeat' = EachRank("absent")
  /\ command' = NoCommand /\ cancel' = "none" /\ current' = FALSE
  /\ started' = 0 /\ ready_since' = None
  /\ token' = None /\ request_started' = None /\ idle_since' = None
  /\ beats' = EachRank(None)
  /\ sick' = None /\ ready_for' = None /\ idle_for' = 0

Launch ==
  /\ turn = "read" /\ group = "none" /\ wait = 0
  /\ group' = "loading" /\ turn' = turn
  /\ Forget
  /\ UNCHANGED <<consecutive, wait, row>>

(* Mutant of Recover: a timeout is taken for a wish of the user.           *)
RecoverForgiving(cancelled) ==
  /\ consecutive' = IF cancelled \/ cancel = "timeout" THEN 0 ELSE Min({consecutive + 1, Bound})
  /\ wait' = IF cancelled THEN CancelDelay ELSE Delay(consecutive')
  /\ turn' = "read" /\ group' = "none"
  /\ row' = IF cancelled THEN <<0, 0>> ELSE <<Min({Fewest + 1, Bound}), Min({Most + 1, Bound})>>
  /\ Forget

(* recover(): the group is stopped and the next attempt is put off.        *)
Recover(cancelled) ==
  /\ consecutive' = IF cancelled THEN 0 ELSE Min({consecutive + 1, Bound})
  /\ wait' = IF cancelled THEN CancelDelay ELSE Delay(consecutive')
  /\ turn' = "read" /\ group' = "none"
  /\ row' = IF cancelled THEN <<0, 0>> ELSE <<Min({Fewest + 1, Bound}), Min({Most + 1, Bound})>>
  /\ Forget

LaunchFails ==
  /\ turn = "read" /\ group = "none" /\ wait = 0
  /\ Recover(FALSE)

RecoverCancelled ==
  /\ turn = "check" /\ cancel # "none"
  /\ Recover(cancel = "cancelled")

(* check(): what is pending, and since when, as this turn sees it.         *)
SeenReady == ready_since # None \/ current
Pending == command.token # None /\ ~command.answered
RequestAge == IF command.token = token THEN request_started ELSE 0
IdleAge == IF idle_since = None THEN 0 ELSE idle_since

Fires ==
  \/ group = "exited"
  \/ ~SeenReady /\ started > StartupTimeout
  \/ SeenReady /\ Pending /\ RequestAge > RequestTimeout
  \/ /\ SeenReady /\ ~Pending
     /\ \E r \in Ranks : /\ heartbeat[r] # "new"
                        /\ (IF beats[r] = None THEN IdleAge ELSE beats[r]) > IdleTimeout

RecoverFailed ==
  /\ turn = "check" /\ cancel = "none" /\ Fires
  /\ Recover(FALSE)

(* Mutant of WatchPending: the deadline starts anew at every turn.         *)
WatchPendingAnew ==
  /\ token' = command.token /\ request_started' = 0
  /\ idle_since' = None /\ beats' = EachRank(None)
  /\ heartbeat' = [r \in Ranks |-> IF heartbeat[r] = "seen" THEN "new" ELSE heartbeat[r]]

(* Mutant of WatchPending: what was seen of the heartbeats is kept.        *)
WatchPendingKeepingBeats ==
  /\ token' = command.token /\ request_started' = RequestAge
  /\ idle_since' = None
  /\ UNCHANGED <<beats, heartbeat>>

(* A request runs: its deadline counts, and the heartbeats do not; any     *)
(* sequence number is a new one once beats is cleared.                     *)
WatchPending ==
  /\ token' = command.token /\ request_started' = RequestAge
  /\ idle_since' = None /\ beats' = EachRank(None)
  /\ heartbeat' = [r \in Ranks |-> IF heartbeat[r] = "seen" THEN "new" ELSE heartbeat[r]]

WatchIdle ==
  /\ token' = None /\ request_started' = None
  /\ idle_since' = IdleAge
  /\ beats' = [r \in Ranks |-> IF heartbeat[r] = "new" THEN 0 ELSE beats[r]]
  /\ heartbeat' = [r \in Ranks |-> IF heartbeat[r] = "new" THEN "seen" ELSE heartbeat[r]]

(* Mutant of Settled: readiness alone ends a row of failures.              *)
SettledAtOnce == current

Settled == current /\ ready_since' # None /\ ready_since' >= StableSeconds

(* No deadline has passed.                                                 *)
Watch ==
  /\ turn = "check" /\ cancel = "none" /\ ~Fires
  /\ turn' = "sleep"
  /\ ready_since' = IF ready_since = None /\ current THEN 0 ELSE ready_since
  /\ \/ ~SeenReady /\ UNCHANGED <<token, request_started, idle_since, beats, heartbeat>>
     \/ SeenReady /\ Pending /\ WatchPending
     \/ SeenReady /\ ~Pending /\ WatchIdle
  /\ consecutive' = IF Settled THEN 0 ELSE consecutive
  /\ UNCHANGED <<group, mode, quiet, command, cancel, current, wait, started, ghosts>>

(* The loop sleeps, and everything grows older; a rank in its main loop    *)
(* does not let its heartbeat grow too old.                                *)
Tick ==
  /\ turn = "sleep" \/ (turn = "read" /\ group = "none" /\ wait > 0)
  /\ group = "ready" => \A r \in Ranks : mode[r] = "loop" => quiet[r] < BeatEvery
  /\ turn' = "read"
  /\ wait' = Max({wait - 1, 0})
  /\ quiet' = [r \in Ranks |-> Min({quiet[r] + 1, BeatEvery})]
  /\ command' = [command EXCEPT !.age = Older(@, RequestTimeout + 1)]
  /\ started' = Older(started, StartupTimeout + 1)
  /\ ready_since' = Older(ready_since, StableSeconds)
  /\ request_started' = Older(request_started, RequestTimeout + 1)
  /\ idle_since' = Older(idle_since, IdleTimeout + 1)
  /\ beats' = [r \in Ranks |-> Older(beats[r], IdleTimeout + 1)]
  /\ ready_for' = Older(ready_for, StableSeconds + Slack)
  /\ sick' = Older(sick, Longest + 1)
  /\ idle_for' = Older(idle_for, Max({RestartMaxDelay, CancelDelay}) + 1)
  /\ UNCHANGED <<group, mode, heartbeat, cancel, current, consecutive, token, row>>

WatchdogNext ==
  \/ BecomeReady \/ Publish \/ Answer \/ Exit
  \/ \E r \in Ranks : Beat(r) \/ Take(r) \/ Hang(r)
  \/ \E reason \in {"cancelled", "timeout"} : Cancel(reason)
  \/ ReadHealth \/ Launch \/ LaunchFails \/ RecoverCancelled \/ RecoverFailed \/ Watch \/ Tick

WatchdogSpec == WatchdogInit /\ [][WatchdogNext]_wvars

-----------------------------------------------------------------------------
(* A group that has not failed and meets its deadlines is not taken down:  *)
(* none of its ranks hangs, it is ready in time, and it answers each       *)
(* command in time, counted from its publication.                          *)
HealthyIsSpared ==
  [][turn = "check" /\ cancel = "none" /\ turn' = "read" =>
       \/ group = "exited"
       \/ sick # None
       \/ ready_since = None /\ started > StartupTimeout
       \/ Pending /\ command.age > RequestTimeout]_wvars

(* A hung rank is found, whatever is published or cancelled meanwhile:     *)
(* within the deadline of the start, or within the idle deadline and that  *)
(* of a command which is published just before it passes.                  *)
HangsAreFound == sick <= Longest

(* What is owed after n failures in a row: every failure doubles the wait. *)
Owed[n \in 0 .. Bound] ==
  IF n = 0 THEN CancelDelay
  ELSE IF n = 1 THEN RestartDelay
  ELSE AtMostMaxDelay(2 * Owed[n - 1])

(* The next attempt waits for the delay the failures in a row call for, no *)
(* less and no more: a group lost while it starts, or soon after it was    *)
(* ready, is one more; only a user's cancel and a group that stayed ready  *)
(* end the row.                                                            *)
BackOffHolds ==
  group = "none" /\ row # <<>> =>
    /\ wait = 0 => idle_for >= Owed[row[1]]
    /\ idle_for <= Owed[row[2]]
=============================================================================
