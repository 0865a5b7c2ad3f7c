----------------------------- MODULE Lifecycle -----------------------------
(***************************************************************************)
(* The daemon from its start to its end: main(), graceful_shutdown_with_   *)
(* timeout, init_signal_fd, handle_signals and signal_handler of           *)
(* src/src/main.cpp, composed with the log (Logger), with the thread pool  *)
(* as the Executor that ThreadPool.tla implements, and with the threads of *)
(* the monitor and of the initial scan as far as main starts and joins     *)
(* them.                                                                   *)
(*                                                                         *)
(* Signals.  SIGINT is SIGTERM.  A signal for the process goes to any      *)
(* thread that does not block it; when all do it stays pending, once.      *)
(* Threads inherit the mask of main, and the log's thread is created       *)
(* before main blocks anything.                                            *)
(***************************************************************************)
EXTENDS Logger

CONSTANTS Tasks, Capacity,     \* of the pool
          MaxTerms, MaxHups, MaxEdits    \* bounds

ASSUME ThreadsAssumption == Producers = {"main", "scan", "monitor", "worker"} /\ Main = "main"
ASSUME LifecycleAssumption == /\ Capacity \in Nat
                              /\ MaxTerms \in Nat /\ MaxHups \in Nat /\ MaxEdits \in Nat

VARIABLES process,    \* "up", "exited", "killed" by a signal, or "aborted"
          main,       \* where main() is
          inherited,  \* did the process start with the signals blocked?
          blocked,    \* does main block them?
          mode,       \* "default", "fd" (signalfd) or "handlers"
          epoll,      \* is there an epoll descriptor?
          arrived,    \* pending signals
          running,    \* g_running
          reload,     \* g_reload_config
          file,       \* version of the configuration file
          fresh,      \* the one load_config has read
          loaded,     \* the one in force
          asked,      \* history: the one there was when a SIGHUP was last taken
          pool,       \* g_pool and g_monitor: "none", "live" or "reset"
          monitor, scan,    \* their threads
          pending, active, finished, phase,    \* the Executor
          missed,     \* has a worker slept through the pool's stop?
          leaked,     \* has a task lost its buffer?
          terms, hups

EX == INSTANCE Executor WITH running <- active

signals == <<inherited, blocked, mode, epoll, arrived>>
flags == <<running, reload>>
config == <<file, fresh, loaded, asked>>
evars == <<pending, active, finished, phase>>
mishaps == <<missed, leaked>>
threads == <<pool, monitor, scan, evars, mishaps>>
counts == <<terms, hups>>
vars == <<process, main, signals, flags, config, threads, counts, lvars>>

MainAt == {"load", "log", "validate", "signals", "privileges", "start", "scan", "loop",
           "clear", "read", "apply", "wait", "joinscan", "stopmonitor", "joinmonitor",
           "active", "stoppool", "joinpool", "reset", "shutdown"}

TypeOK == /\ LTypeOK
          /\ process \in {"up", "exited", "killed", "aborted"}
          /\ main \in MainAt
          /\ inherited \in BOOLEAN /\ blocked \in BOOLEAN /\ epoll \in BOOLEAN
          /\ mode \in {"default", "fd", "handlers"}
          /\ arrived \subseteq {"TERM", "HUP"}
          /\ running \in BOOLEAN /\ reload \in BOOLEAN
          /\ file \in Nat /\ fresh \in Nat /\ loaded \in Nat /\ asked \in Nat
          /\ pool \in {"none", "live", "reset"}
          /\ monitor \in {"none", "running", "stopping", "stopped"}
          /\ scan \in {"none", "running", "done"}
          /\ pending \subseteq Tasks /\ active \subseteq Tasks /\ finished \subseteq Tasks
          /\ phase \in {"open", "closing", "closed"}
          /\ missed \in BOOLEAN /\ leaked \in BOOLEAN
          /\ terms \in Nat /\ hups \in Nat

Init == /\ LInit
        /\ process = "up"
        /\ main = "load"
        /\ inherited \in BOOLEAN
        /\ blocked = inherited
        /\ mode = "default"
        /\ epoll = FALSE
        /\ arrived = {}
        /\ running = TRUE /\ reload = FALSE
        /\ file = 0 /\ fresh = 0 /\ loaded = 0 /\ asked = 0
        /\ pool = "none" /\ monitor = "none" /\ scan = "none"
        /\ EX!EInit
        /\ missed = FALSE /\ leaked = FALSE
        /\ terms = 0 /\ hups = 0
-----------------------------------------------------------------------------
(* Start *)

\* main is sequential: it finishes a call of log() first.
At(where) == process = "up" /\ main = where /\ Main \notin owing
Goto(where) == main' = where /\ UNCHANGED process
End(how) == process' = how /\ UNCHANGED main

\* load_config; a target path that does not exist ends the program with 2.
Load == /\ At("load")
        /\ loaded' = file
        /\ Goto("log") \/ End("exited")
        /\ UNCHANGED <<signals, flags, file, fresh, asked, threads, counts, lvars>>

InitLog == /\ At("log")
           /\ StartWriter
           /\ Goto("validate")
           /\ UNCHANGED <<signals, flags, config, threads, counts>>

\* Without target paths main returns 1: the destructor of the log's thread,
\* which is joinable, calls std::terminate.
Validate == /\ At("validate")
            /\ Goto("signals") \/ End("aborted")
            /\ UNCHANGED <<signals, flags, config, threads, counts, lvars>>

\* sigprocmask and signalfd may fail, the former before it blocks anything.
InitSignals == /\ At("signals")
               /\ \/ blocked' = TRUE /\ mode' \in {"fd", "handlers"}
                  \/ mode' = "handlers" /\ UNCHANGED blocked
               /\ Goto("privileges")
               /\ UNCHANGED <<inherited, epoll, arrived, flags, config, threads, counts, lvars>>

\* The privileges may not be dropped: return 1, as above.
DropPrivileges == /\ At("privileges")
                  /\ Goto("start") \/ End("aborted")
                  /\ UNCHANGED <<signals, flags, config, threads, counts, lvars>>

\* g_pool, g_monitor, its handlers and its threads.
StartMonitor == /\ At("start")
                /\ pool' = "live"
                /\ monitor' = "running"
                /\ Goto("scan")
                /\ UNCHANGED <<signals, flags, config, scan, evars, mishaps, counts, lvars>>

\* The scan's thread; then epoll_create1, which may fail.
StartScan == /\ At("scan")
             /\ scan' = "running"
             /\ epoll' \in IF mode = "fd" THEN BOOLEAN ELSE {FALSE}
             /\ Goto("loop")
             /\ UNCHANGED <<inherited, blocked, mode, arrived, flags, config, pool, monitor,
                            evars, mishaps, counts, lvars>>
-----------------------------------------------------------------------------
(* The main loop *)

Loop == /\ At("loop")
        /\ Goto(IF ~running THEN "joinscan" ELSE IF reload THEN "clear" ELSE "wait")
        /\ UNCHANGED <<signals, flags, config, threads, counts, lvars>>

Clear == /\ At("clear")
         /\ reload' = FALSE
         /\ Goto("read")
         /\ UNCHANGED <<signals, running, config, threads, counts, lvars>>

\* reload_config(): load_config, and then the new configuration is in force.
ReadConfig == /\ At("read")
              /\ fresh' = file
              /\ Goto("apply")
              /\ UNCHANGED <<signals, flags, file, loaded, asked, threads, counts, lvars>>

\* Mutant of Apply: the flag is lowered when the work is done.
ApplyAndClear == /\ At("apply")
                 /\ loaded' = fresh
                 /\ reload' = FALSE
                 /\ Goto("wait")
                 /\ UNCHANGED <<signals, running, file, fresh, asked, threads, counts, lvars>>

Apply == /\ At("apply")
         /\ loaded' = fresh
         /\ Goto("wait")
         /\ UNCHANGED <<signals, flags, file, fresh, asked, threads, counts, lvars>>

\* signal_handler, or what handle_signals does with a signal.
Take1(s) == /\ running' = (running /\ s # "TERM")
            /\ reload' = (reload \/ s = "HUP")

\* epoll_wait: one pending signal is read, or the second is over.
Wait == /\ At("wait")
        /\ IF epoll /\ arrived # {}
           THEN \E s \in arrived : arrived' = arrived \ {s} /\ Take1(s)
           ELSE UNCHANGED <<arrived, flags>>
        /\ Goto("loop")
        /\ UNCHANGED <<inherited, blocked, mode, epoll, config, threads, counts, lvars>>
-----------------------------------------------------------------------------
(* graceful_shutdown_with_timeout, and the end of main *)

\* Mutant of JoinScan: the scan is left alone.
LeaveScan == /\ At("joinscan")
             /\ Goto("stopmonitor")
             /\ UNCHANGED <<signals, flags, config, threads, counts, lvars>>

JoinScan == /\ At("joinscan")
            /\ scan # "running"
            /\ Goto("stopmonitor")
            /\ UNCHANGED <<signals, flags, config, threads, counts, lvars>>

\* Mutant of StopMonitor: m_running stays as it is.
OnlyJoin == /\ At("stopmonitor")
            /\ Goto("joinmonitor")
            /\ UNCHANGED <<signals, flags, config, threads, counts, lvars>>

\* Monitor::stop: m_running falls, then its threads are joined.
StopMonitor == /\ At("stopmonitor")
               /\ monitor' = "stopping"
               /\ Goto("joinmonitor")
               /\ UNCHANGED <<signals, flags, config, pool, scan, evars, mishaps, counts, lvars>>

JoinMonitor == /\ At("joinmonitor")
               /\ monitor = "stopped"
               /\ Goto("active")
               /\ UNCHANGED <<signals, flags, config, threads, counts, lvars>>

\* No task is running, or the thirty seconds are over.
StopWaiting == /\ At("active")
               /\ Goto("stoppool")
               /\ UNCHANGED <<signals, flags, config, threads, counts, lvars>>

\* ThreadPool::stop up to its joins.  It notifies without queue_mutex, and a
\* worker between its predicate and its sleep does not hear it (ThreadPool).
StopPool == /\ At("stoppool")
            /\ EX!BeginClose
            /\ missed' \in BOOLEAN
            /\ Goto("joinpool")
            /\ UNCHANGED <<signals, flags, config, pool, monitor, scan, leaked, counts, lvars>>

\* The joins have no limit: they do not return while that worker sleeps.  A
\* task that has run may have lost its buffer (CompressTask: a file that was
\* truncated or could not be read).
JoinPool == /\ At("joinpool")
            /\ ~missed
            /\ EX!EndClose
            /\ leaked' \in {FALSE, finished # {}}
            /\ Goto("reset")
            /\ UNCHANGED <<signals, flags, config, pool, monitor, scan, missed, counts, lvars>>

Reset == /\ At("reset")
         /\ pool' = "reset"
         /\ Goto("shutdown")
         /\ UNCHANGED <<signals, flags, config, monitor, scan, evars, mishaps, counts, lvars>>

ShutLog == /\ At("shutdown")
           /\ Close \/ Flushed \/ Complain \/ Join
           /\ UNCHANGED <<process, main, signals, flags, config, threads, counts>>

\* Return 0 and the destructors of static objects: ~MemoryPool takes its own
\* mutex a second time for a buffer that was not given back (MemoryPool).
ReturnZero == /\ At("shutdown")
              /\ stage = "closed"
              /\ ~leaked
              /\ End("exited")
              /\ UNCHANGED <<signals, flags, config, threads, counts, lvars>>

MainStep == \/ Load \/ InitLog \/ Validate \/ InitSignals \/ DropPrivileges
            \/ StartMonitor \/ StartScan
            \/ Loop \/ Clear \/ ReadConfig \/ Apply \/ Wait
            \/ JoinScan \/ StopMonitor \/ JoinMonitor \/ StopWaiting \/ StopPool
            \/ JoinPool \/ Reset \/ ShutLog \/ ReturnZero
-----------------------------------------------------------------------------
(* The other threads *)

Others(p) == process = "up" /\ p \notin owing /\ UNCHANGED <<process, main>>
Executor == UNCHANGED <<signals, flags, config, pool, monitor, scan, mishaps, counts, lvars>>

\* The handlers of the monitor and of the scan hand tasks to g_pool.
Submit(t) == /\ \/ scan = "running" /\ Others("scan")
                \/ monitor \in {"running", "stopping"} /\ Others("monitor")
             /\ EX!Submit(t)
             /\ Executor

RunTask(t) == Others("worker") /\ (EX!Start(t) \/ EX!Complete(t)) /\ Executor

ScanEnds == /\ scan = "running" /\ Others("scan")
            /\ scan' = "done"
            /\ UNCHANGED <<signals, flags, config, pool, monitor, evars, mishaps, counts, lvars>>

MonitorEnds == /\ monitor = "stopping" /\ Others("monitor")
               /\ monitor' = "stopped"
               /\ UNCHANGED <<signals, flags, config, pool, scan, evars, mishaps, counts, lvars>>

\* Any of them may log at any time.
MayLog(p) == CASE p = "main" -> main # "shutdown"
               [] p = "scan" -> scan = "running"
               [] p = "monitor" -> monitor \in {"running", "stopping"}
               [] p = "worker" -> active # {}
LogStep(p) == /\ process = "up"
              /\ (MayLog(p) /\ Log(p)) \/ Warn(p)
              /\ UNCHANGED <<process, main, signals, flags, config, threads, counts>>

WriterStep == /\ process = "up"
              /\ Writer
              /\ UNCHANGED <<process, main, signals, flags, config, threads, counts>>
-----------------------------------------------------------------------------
(* The operator *)

Edit == /\ process = "up"
        /\ file < MaxEdits
        /\ file' = file + 1
        /\ UNCHANGED <<process, main, signals, flags, fresh, loaded, asked, threads, counts,
                       lvars>>

WriterTakesSignals == ~inherited /\ writer \notin {"none", "done"}
Deliverable == ~blocked \/ WriterTakesSignals

\* With its default action either signal kills, whatever signalfd waits for.
Send(s) == /\ process = "up"
           /\ IF s = "TERM" THEN terms < MaxTerms ELSE hups < MaxHups
           /\ terms' = IF s = "TERM" THEN terms + 1 ELSE terms
           /\ hups' = IF s = "HUP" THEN hups + 1 ELSE hups
           /\ IF Deliverable /\ mode # "handlers"
              THEN process' = "killed" /\ UNCHANGED <<arrived, flags, asked>>
              ELSE /\ UNCHANGED process
                   /\ asked' = IF s = "HUP" THEN file ELSE asked
                   /\ IF Deliverable
                      THEN Take1(s) /\ UNCHANGED arrived
                      ELSE arrived' = arrived \cup {s} /\ UNCHANGED flags
           /\ UNCHANGED <<main, inherited, blocked, mode, epoll, file, fresh, loaded, threads,
                          lvars>>
-----------------------------------------------------------------------------
Next == \/ MainStep
        \/ \E t \in Tasks : Submit(t) \/ RunTask(t)
        \/ ScanEnds \/ MonitorEnds \/ WriterStep
        \/ \E p \in Producers : LogStep(p)
        \/ Edit
        \/ \E s \in {"TERM", "HUP"} : Send(s)

Spec == Init /\ [][Next]_vars

\* What the other threads do anyway: finish what they have begun.
Finishing == \/ ScanEnds \/ MonitorEnds
             \/ \E t \in Tasks : RunTask(t)
             \/ \E p \in Producers : LogStep(p) /\ p \in owing

\* main and the log's writer run; scan, monitor and tasks come to an end.
FairSpec == Spec /\ WF_vars(MainStep) /\ WF_vars(WriterStep) /\ WF_vars(Finishing)
-----------------------------------------------------------------------------
(* Safety *)

\* Nobody is left who would use the pool, the monitor or the configuration
\* when main has reset them, nor log when the log shuts down.
ThreadsAreJoined ==
    pool = "reset" => /\ scan # "running" /\ monitor = "stopped"
                      /\ pending = {} /\ active = {}
                      /\ owing \subseteq {Main}

\* A SIGHUP is followed by a reload that reads the file after it: when main is
\* in its loop and sees neither the signal nor the flag, the configuration in
\* force is not older than the last signal, whatever it interrupted.
HupIsHonoured ==
    /\ main \in {"loop", "wait"} /\ "HUP" \notin arrived /\ ~reload
    => loaded >= asked
-----------------------------------------------------------------------------
(* Liveness *)

Told == ~running \/ "TERM" \in arrived

\* Nobody reads the pending signals: epoll_create1 failed, or signalfd did
\* after the signals were blocked.
Deaf == running /\ ~epoll /\ scan # "none"
\* ThreadPool::stop waits for a worker that has not heard it.
HungInPool == main = "joinpool" /\ missed
\* The destructor of the memory pool waits for itself.
HungAtExit == main = "shutdown" /\ stage = "closed" /\ leaked

\* A program that is told to stop ends, whatever its threads are at, or it
\* is held up in one of three places: in its main loop without a way to read
\* signals, in the join of a worker that missed the pool's stop, or in the
\* destructor of the memory pool after a buffer was lost.  No fourth one.
StopEnds == process = "up" /\ Told ~> process # "up" \/ Deaf \/ HungInPool \/ HungAtExit
-----------------------------------------------------------------------------
(* What the specification of the program says, and the code does not do *)

\* Specification 9.4: on SIGTERM the program completes the tasks at hand.
SigtermIsOrderly == process = "killed" => pending = {} /\ active = {}
=============================================================================
