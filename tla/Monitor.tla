------------------------------ MODULE Monitor ------------------------------
(***************************************************************************)
(* class Monitor (src/src/monitor.cpp) for one original and one compressed *)
(* copy of it: the watch and scan threads that main starts, the kernel's   *)
(* event queue, and the monitor thread with its debounce map and its move  *)
(* cookies.  What it hands to the pool is abstracted to the debt it pays:  *)
(* `owed` says what a perfect daemon still has to do for the file.         *)
(*                                                                         *)
(* Time is counted in ticks of 500 ms, kept relative (time left, age), so  *)
(* that no clock grows.  Only the monitor thread uses the two maps: an     *)
(* event, a clean-up and a look at the debounce map are one step each.     *)
(***************************************************************************)
EXTENDS Naturals, Sequences, FiniteSets, SequencesExt

CONSTANTS Delay,        \* debounce_delay, in ticks
          CheckEvery,   \* debounce_check_interval, in ticks
          CookieTicks,  \* MOVE_COOKIE_TIMEOUT_MS, in ticks
          Cookies,      \* cookies of inotify, reused when they are free
          MaxEvents,    \* max_queued_events of the kernel
          MayRefuse,    \* may the rate limiter or the full pool say no?
          MayFail,      \* may a call of the file system fail?
          MayStop,      \* may the daemon be stopped?
          MaxOps,       \* bound: operations on the files
          None          \* no deadline, no cookie

ASSUME MonitorAssumption == /\ Delay \in Nat /\ CheckEvery \in Nat /\ CookieTicks \in Nat
                            /\ MaxEvents \in Nat \ {0} /\ MaxOps \in Nat
                            /\ MayRefuse \in BOOLEAN /\ MayFail \in BOOLEAN
                            /\ MayStop \in BOOLEAN
ASSUME NoneAssumption == None \notin Cookies /\ None \notin Nat

VARIABLES file, copy,   \* do they exist?
          older,        \* is the copy's mtime, in whole seconds, before the file's?
          inotify,      \* the kernel's queue of events
          watch,        \* of the directory: "none", in the "kernel", "mapped"
          scanned,      \* has scan_existing_files passed the file?
          running,      \* m_running
          mon,          \* where the monitor thread is
          batch,        \* batch_events
          due,          \* time left in m_debounce_map, or None
          sinceCheck,   \* age of last_debounce_check
          cookies,      \* m_move_cookies: age of each, or None
          owed,         \* history: what the daemon has still to do
          losses,       \* history: was something "missed", for which the scan may
                        \* make up, or "lost", for which nothing does?
          ops

world == <<file, copy, older, inotify, ops>>
threads == <<watch, scanned, running>>
maps == <<due, cookies>>
history == <<owed, losses>>
vars == <<file, copy, older, inotify, watch, scanned, running, mon, batch, due, sinceCheck,
          cookies, owed, losses, ops>>

Kinds == {"changed", "deleted", "movedFrom", "movedTo", "overflow"}
Event == [on : {"file", "copy", "none"}, kind : Kinds, cookie : Cookies \cup {None}]

TypeOK == /\ file \in BOOLEAN /\ copy \in BOOLEAN /\ older \in BOOLEAN
          /\ inotify \in Seq(Event) /\ Len(inotify) <= MaxEvents + 1
          /\ watch \in {"none", "kernel", "mapped"}
          /\ scanned \in BOOLEAN /\ running \in BOOLEAN
          /\ mon \in {"select", "read", "handle", "cookies", "debounce", "stopped"}
          /\ batch \in Seq(Event)
          /\ due \in 0..Delay \cup {None}
          /\ sinceCheck \in 0..CheckEvery
          /\ cookies \in [Cookies -> 0..(CookieTicks + 1) \cup {None}]
          /\ owed \subseteq {"start", "compress", "delete", "copy"}
          /\ losses \subseteq {"missed", "lost"}
          /\ ops \in 0..MaxOps
-----------------------------------------------------------------------------
(* The kernel's queue *)

Overflow == [on |-> "none", kind |-> "overflow", cookie |-> None]
On(what, kind, c) == [on |-> what, kind |-> kind, cookie |-> c]

\* An event equal to the last one in the queue is merged with it; a full
\* queue drops events and gets one overflow event for all of them.
Merged(q, e) == q # <<>> /\ Last(q) = e
Dropped(q, e) == ~Merged(q, e) /\ Len(q) >= MaxEvents
Push(q, e) == IF Dropped(q, e)
              THEN IF Overflow \in ToSet(q) THEN q ELSE Append(q, Overflow)
              ELSE IF Merged(q, e) THEN q ELSE Append(q, e)

Enqueue(q, dropped) ==
    IF watch = "none"
    THEN /\ losses' = losses \cup {"missed"}
         /\ UNCHANGED inotify
    ELSE /\ inotify' = q
         /\ losses' = IF dropped THEN losses \cup {"lost"} ELSE losses
Emit(e) == Enqueue(Push(inotify, e), Dropped(inotify, e))
EmitBoth(d, e) == LET q == Push(inotify, d)
                  IN  Enqueue(Push(q, e), Dropped(inotify, d) \/ Dropped(q, e))

Free(c) == /\ cookies[c] = None
           /\ \A e \in ToSet(inotify) \cup ToSet(batch) : e.cookie # c
-----------------------------------------------------------------------------
(* Users, and workers of the pool as far as they touch the copy *)

Operate == ops < MaxOps /\ ops' = ops + 1
ByOthers == UNCHANGED <<threads, mon, batch, maps, sinceCheck>>

\* Whatever the daemon still owed for the old content, it now owes for the new.
NewContent == /\ file' = TRUE
              /\ owed' = {"compress"} \cup (owed \cap {"copy"})
              /\ Emit(On("file", "changed", None))
              /\ ByOthers /\ UNCHANGED copy

\* Created, moved in or renamed over, with any date.
Change == /\ Operate
          /\ older' \in {FALSE, copy}
          /\ NewContent

\* Written, as often as one likes: the date moves on, or stays in its second.
Modify == /\ file
          /\ older' \in {older, copy}
          /\ NewContent
          /\ UNCHANGED ops

Vanish(kind) == /\ Operate
                /\ file
                /\ file' = FALSE /\ older' = FALSE
                /\ owed' = {"delete"}
                /\ Emit(On("file", kind, None))
                /\ ByOthers /\ UNCHANGED copy
Delete == Vanish("deleted")
MoveAway == Vanish("movedFrom")

LoseCopy(e) == /\ Operate
               /\ copy
               /\ copy' = FALSE /\ older' = FALSE
               /\ owed' = IF file THEN owed \cup {"copy"} ELSE owed
               /\ Emit(e)
               /\ ByOthers /\ UNCHANGED file
DeleteCopy == LoseCopy(On("copy", "deleted", None))
MoveCopyAway == \E c \in Cookies : Free(c) /\ LoseCopy(On("copy", "movedFrom", c))

\* To another name in a watched directory: nothing is owed for it.
RenameCopy == \E c \in Cookies :
                 /\ Free(c)
                 /\ Operate
                 /\ copy
                 /\ copy' = FALSE /\ older' = FALSE
                 /\ EmitBoth(On("copy", "movedFrom", c), On("copy", "movedTo", c))
                 /\ ByOthers /\ UNCHANGED <<file, owed>>

\* A worker renames its temporary file (whose own event is ignored).  Nobody
\* compresses what the daemon has only found at its start.
Publish == /\ Operate
           /\ file /\ ~copy /\ "start" \notin owed
           /\ copy' = TRUE /\ older' = FALSE
           /\ owed' = owed \ {"copy"}
           /\ Emit(On("copy", "movedTo", None))
           /\ ByOthers /\ UNCHANGED file
-----------------------------------------------------------------------------
(* What the monitor hands to the pool *)

\* m_on_compress behind the rate limiter: later than every change that
\* happened, so it settles them all.
QueueCompress ==
    \/ /\ owed' = owed \cap {"delete"}
       /\ UNCHANGED losses
    \/ /\ MayRefuse
       /\ losses' = losses \cup {"lost"}
       /\ UNCHANGED owed
QueueDelete ==
    \/ /\ owed' = owed \ {"delete"}
       /\ UNCHANGED losses
    \/ /\ MayRefuse
       /\ losses' = losses \cup {"lost"}
       /\ UNCHANGED owed
Hand(nothing, task) == IF nothing THEN UNCHANGED <<owed, losses>> ELSE task
-----------------------------------------------------------------------------
(* The threads main and start() create *)

\* inotify_add_watch; the map entry follows as a step of its own.
AddWatch == /\ watch = "none"
            /\ watch' = "kernel"
            /\ UNCHANGED <<world, scanned, running, mon, batch, maps, sinceCheck, history>>

MapWatch == /\ watch = "kernel"
            /\ watch' = "mapped"
            /\ UNCHANGED <<world, scanned, running, mon, batch, maps, sinceCheck, history>>

\* The scan makes up for what was missed before it passed the file, as far as
\* the dates tell: a copy that is not older than its original is left alone.
\* A filesystem_error abandons whatever the scan has not reached.
Current == copy /\ ~older
\* Mutant of Outdated: a missing copy only.
Missing == file /\ ~copy
Outdated == file /\ ~Current
Passed == \/ /\ Outdated
             /\ owed' = owed \cap {"delete"}
             /\ losses' = losses \ {"missed"}
          \/ Outdated /\ MayRefuse /\ losses' = losses \cup {"lost"} /\ UNCHANGED owed
          \/ MayFail /\ losses' = losses \cup {"lost"} /\ UNCHANGED owed
          \/ ~Outdated /\ UNCHANGED <<owed, losses>>
Scan == /\ ~scanned
        /\ scanned' = TRUE
        /\ Passed
        /\ UNCHANGED <<world, watch, running, mon, batch, maps, sinceCheck>>

Stop == /\ MayStop
        /\ running
        /\ running' = FALSE
        /\ UNCHANGED <<world, watch, scanned, mon, batch, maps, sinceCheck, history>>
-----------------------------------------------------------------------------
(* The monitor thread *)

Goto(where) == mon' = where
\* while (m_running)
NextTurn == IF running THEN "select" ELSE "stopped"

\* select(): with events it returns at once, without after a second.
Select == /\ mon = "select"
          /\ Goto(IF inotify # <<>> /\ running THEN "read" ELSE "debounce")
          /\ UNCHANGED <<world, threads, batch, maps, sinceCheck, history>>

\* read(), as many as fit; only events that carry a name are kept.  An
\* overflow event carries none, so overflow_detected never becomes true and
\* the rescan behind it is dead code.  (The queue holds at most one of them.)
Named(events) == IF Overflow \in ToSet(events)
                 THEN RemoveAt(events, CHOOSE i \in DOMAIN events : events[i] = Overflow)
                 ELSE events
ReadBatch == /\ mon = "read"
             /\ \E n \in 1..Len(inotify) :
                   /\ batch' = Named(SubSeq(inotify, 1, n))
                   /\ inotify' = SubSeq(inotify, n + 1, Len(inotify))
             /\ Goto("handle")
             /\ UNCHANGED <<file, copy, older, ops, threads, maps, sinceCheck, history>>

\* process_event for the first event of the batch.
Event1(what, kind) == /\ mon = "handle"
                      /\ batch # <<>>
                      /\ Head(batch).on = what /\ Head(batch).kind = kind
                      /\ watch = "mapped"
                      /\ batch' = Tail(batch)
                      /\ UNCHANGED <<world, threads, mon, sinceCheck>>

UnknownWatch == /\ mon = "handle"
                /\ batch # <<>>
                /\ watch # "mapped"
                /\ batch' = Tail(batch)
                /\ losses' = losses \cup {"missed"}
                /\ UNCHANGED <<world, threads, mon, maps, sinceCheck, owed>>

\* weakly_canonical fails for the event's path.
UnknownPath == /\ mon = "handle"
               /\ batch # <<>>
               /\ watch = "mapped" /\ MayFail
               /\ batch' = Tail(batch)
               /\ losses' = losses \cup {"lost"}
               /\ UNCHANGED <<world, threads, mon, maps, sinceCheck, owed>>

\* Deadlines of the debounce map.  The entry is never further away than
\* now + delay, so the test against now + 3 * delay never holds.
Deadline == IF due # None /\ due > 3 * Delay THEN due ELSE Delay

Changed == /\ Event1("file", "changed")
           /\ due' = Deadline
           /\ UNCHANGED <<cookies, owed, losses>>

Deleted == /\ Event1("file", "deleted")
           /\ due' = None
           /\ QueueDelete
           /\ UNCHANGED <<cookies>>

\* Mutant of MovedFrom: only logged.
MovedUnnoticed == /\ Event1("file", "movedFrom")
                  /\ UNCHANGED <<maps, owed, losses>>
MovedFrom == /\ Event1("file", "movedFrom")
             /\ QueueDelete
             /\ UNCHANGED <<maps>>

CopyDeleted == /\ Event1("copy", "deleted")
               /\ QueueCompress
               /\ UNCHANGED <<maps>>

CopyMovedFrom == /\ Event1("copy", "movedFrom")
                 /\ cookies' = [cookies EXCEPT ![Head(batch).cookie] = 0]
                 /\ UNCHANGED <<due, history>>

CopyMovedTo == /\ Event1("copy", "movedTo")
               /\ cookies' = [c \in Cookies |-> IF c = Head(batch).cookie THEN None ELSE cookies[c]]
               /\ UNCHANGED <<due, history>>

EndOfBatch == /\ mon = "handle"
              /\ batch = <<>>
              /\ Goto("cookies")
              /\ UNCHANGED <<world, threads, batch, maps, sinceCheck, history>>

\* After every batch, and only then, the cookies that timed out are erased
\* and their originals are queued.  A copy that left the directory was lost.
Expired == {c \in Cookies : cookies[c] # None /\ cookies[c] > CookieTicks}
\* Mutant of Expiry: erased, but not queued.
Forget == UNCHANGED <<owed, losses>>
Expiry == Hand(Expired = {}, QueueCompress)

CleanCookies == /\ mon = "cookies"
                /\ cookies' = [c \in Cookies |-> IF c \in Expired THEN None ELSE cookies[c]]
                /\ Expiry
                /\ Goto(IF inotify # <<>> /\ running THEN "read" ELSE "debounce")
                /\ UNCHANGED <<world, threads, batch, due, sinceCheck>>

\* Mutant of LastCheck: last_debounce_check = now outside of the condition.
AlwaysNow == 0
LastCheck == IF sinceCheck >= CheckEvery THEN 0 ELSE sinceCheck
Ripe == sinceCheck >= CheckEvery /\ due = 0

CheckDebounce == /\ mon = "debounce"
                 /\ sinceCheck' = LastCheck
                 /\ due' = IF Ripe THEN None ELSE due
                 /\ Hand(~Ripe, QueueCompress)
                 /\ Goto(NextTurn)
                 /\ UNCHANGED <<world, threads, batch, cookies>>
-----------------------------------------------------------------------------
Older(age, limit) == IF age < limit THEN age + 1 ELSE age
Tick == /\ due' = IF due = None \/ due = 0 THEN due ELSE due - 1
        /\ sinceCheck' = Older(sinceCheck, CheckEvery)
        /\ cookies' = [c \in Cookies |-> IF cookies[c] = None THEN None
                                          ELSE Older(cookies[c], CookieTicks + 1)]
        /\ <<maps, sinceCheck>>' # <<maps, sinceCheck>>
        /\ UNCHANGED <<world, threads, mon, batch, owed, losses>>

\* The moment main reports READY=1: the monitor thread runs, the watch thread
\* has begun, the scan thread has not.  A copy may be fresh or outdated, and
\* its date may tell it or not.
Init == /\ file \in BOOLEAN
        /\ copy \in BOOLEAN /\ (copy => file)
        /\ inotify = <<>>
        /\ watch = "none"
        /\ scanned = FALSE
        /\ running = TRUE
        /\ mon = "select"
        /\ batch = <<>>
        /\ due = None
        /\ sinceCheck = 0
        /\ cookies = [c \in Cookies |-> None]
        /\ older \in {FALSE, copy}
        /\ owed \in IF copy THEN {{}, {"start"}} ELSE {IF file THEN {"start"} ELSE {}}
        /\ losses = IF "start" \in owed /\ Current THEN {"missed"} ELSE {}
        /\ ops = 0

Users == \/ Change \/ Modify \/ Delete \/ MoveAway
         \/ DeleteCopy \/ MoveCopyAway \/ RenameCopy \/ Publish
MonitorThread == \/ Select \/ ReadBatch \/ UnknownWatch \/ UnknownPath
                 \/ Changed \/ Deleted \/ MovedFrom
                 \/ CopyDeleted \/ CopyMovedFrom \/ CopyMovedTo
                 \/ EndOfBatch \/ CleanCookies \/ CheckDebounce

Next == \/ Users
        \/ AddWatch \/ MapWatch \/ Scan \/ Stop
        \/ MonitorThread
        \/ Tick

Spec == Init /\ [][Next]_vars

\* The threads run and time passes; nobody has to touch a file or to stop
\* the daemon.
FairSpec == /\ Spec
            /\ WF_vars(MonitorThread) /\ WF_vars(Tick)
            /\ WF_vars(AddWatch) /\ WF_vars(MapWatch) /\ WF_vars(Scan)
-----------------------------------------------------------------------------
(* Safety *)

Settled == /\ mon = "select" /\ running
           /\ inotify = <<>>
           /\ due = None
           /\ \A c \in Cookies : cookies[c] = None
           /\ watch = "mapped" /\ scanned

\* When the monitor has nothing left to look at, it has handed over
\* everything: what was outdated at its start, a change of the file after the
\* last compression queued, a removal after the last deletion queued, a lost
\* copy.  What can break this is named: an overflow, a refusal, a change around
\* the addition of the watch or before the start that the dates do not show
\* the scan, a failing call that ends the scan or costs an event.
NothingForgotten == Settled /\ losses = {} => owed = {}
-----------------------------------------------------------------------------
(* Liveness *)

Excused == ~running \/ losses # {}
Reaches(debts) == (owed \cap debts # {}) ~> (owed \cap debts = {} \/ Excused)

\* A change of a file reaches the pool, unless the file is written for ever:
\* every write within the debounce delay postpones it anew, without a limit.
ChangeReachesPool == <>[][~Modify]_vars => Reaches({"start", "compress"})

\* Every removal of a file reaches the pool, however long the file was written
\* before and whatever is still debounced.
RemovalReachesPool == Reaches({"delete"})

\* A lost copy reaches the pool as long as events keep coming: cookies time
\* out only behind a batch, so without one a copy that was moved away waits.
LossReachesPool == []<><<ReadBatch>>_vars => Reaches({"copy"})
=============================================================================
