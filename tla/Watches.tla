------------------------------ MODULE Watches ------------------------------
(***************************************************************************)
(* Which directories inotify watches: Monitor::start, reload_config,       *)
(* add_watch_recursive and remove_watch_recursive (src/src/monitor.cpp).   *)
(* The watch thread adds the paths configured at the start while the main  *)
(* thread may already add and remove watches for a reload, and while       *)
(* directories come and go.                                                *)
(*                                                                         *)
(* Grain of atomicity.  inotify_add_watch, the entry in m_wd_path_map      *)
(* (under its lock) and the listing of a directory are three things; the   *)
(* watch is one step, the entry and the listing after it another.  Paths   *)
(* and entries come in any order.  m_cfg is written by the main thread     *)
(* alone.  A directory is known by its path, a sequence of characters; a   *)
(* name of it, as a configuration or m_wd_path_map spells it, may have a   *)
(* slash behind the path.                                                  *)
(***************************************************************************)
EXTENDS Naturals, Sequences, SequencesExt

CONSTANTS Dirs,        \* paths of directories that may exist
          InitialDirs, \* those that exist at the start
          TargetSets,  \* values of target_paths
          Chars,       \* what paths are made of
          Slash,       \* the separator
          MaxReloads, MaxChanges, MaxFailures   \* bounds

ASSUME DirsAssumption == /\ \A d \in Dirs : d \in Seq(Chars)
                         /\ Slash \in Chars
                         /\ InitialDirs \subseteq Dirs
Name == [dir : Dirs, slash : BOOLEAN]
ASSUME TargetsAssumption == TargetSets \subseteq SUBSET Name
ASSUME BoundsAssumption == MaxReloads \in Nat /\ MaxChanges \in Nat /\ MaxFailures \in Nat

Actors == {"watcher", "main"}    \* m_watch_thread, and the thread that reloads
NoEntry == [wd |-> 0, dir |-> <<>>, slash |-> FALSE]

VARIABLES exists,    \* directories that exist
          wd,        \* the watch descriptor inotify has for each, 0 for none
          nextWd,
          away,      \* descriptors of directories that were moved elsewhere
          map,       \* m_wd_path_map
          targets,   \* m_cfg.target_paths
          todo,      \* what each actor's recursion has still to visit
          pending,   \* the descriptor each actor has and has not entered yet
          reload,    \* where reload_config is
          toRemove,  \* its removed paths
          excused,   \* directories whose missing watch has a known cause
          left,      \* directories below removed paths that ended in a slash
          raced,     \* a path was removed while the watch thread was at work
          reloads, changes, failures

kernel == <<wd, nextWd, away>>
acts == <<todo, pending>>
conf == <<targets, reload, toRemove, reloads>>
history == <<left, raced>>
vars == <<exists, wd, nextWd, away, map, targets, todo, pending, reload, toRemove,
          excused, left, raced, reloads, changes, failures>>

Item == [dir : Dirs, slash : BOOLEAN, base : BOOLEAN]
Entry == [wd : Nat, dir : Dirs, slash : BOOLEAN]

TypeOK == /\ exists \in SUBSET Dirs
          /\ wd \in [Dirs -> Nat]
          /\ nextWd \in Nat \ {0}
          /\ away \subseteq Nat
          /\ map \subseteq Entry
          /\ targets \in SUBSET Name
          /\ todo \in [Actors -> SUBSET Item]
          /\ pending \in [Actors -> Entry \cup {NoEntry}]
          /\ reload \in {"idle", "adding", "removing"}
          /\ toRemove \in SUBSET Name
          /\ excused \in SUBSET Dirs
          /\ left \in SUBSET Dirs
          /\ raced \in BOOLEAN
          /\ reloads \in Nat /\ changes \in Nat /\ failures \in Nat

\* d is p, or lies below it.
Under(d, p) == d = p \/ IsPrefix(Append(p, Slash), d)

\* A directory is in a directory.
ASSUME ParentsAssumption == \A d \in InitialDirs, p \in Dirs : Under(d, p) => p \in InitialDirs

Below(p) == {d \in Dirs : Under(d, p)}
InScope(d) == \E p \in targets : Under(d, p.dir)

\* The entries of a directory that are directories themselves.
IsChild(c, d) == /\ c # d
                 /\ Under(c, d)
                 /\ \A e \in Dirs : Under(c, e) /\ Under(e, d) => e \in {c, d}
Children(d) == {c \in exists : IsChild(c, d)}
\* directory_iterator names an entry without a second slash, however the
\* directory is spelled.
Subitems(S) == {[dir |-> c, slash |-> FALSE, base |-> FALSE] : c \in S}
Bases(P) == {[dir |-> p.dir, slash |-> p.slash, base |-> TRUE] : p \in P}
\* What is not found when a listing yields no more than S.
Overlooked(d, S) == UNION {Below(c) : c \in Children(d) \ S}

Init == /\ exists = InitialDirs
        /\ wd = [d \in Dirs |-> 0]
        /\ nextWd = 1
        /\ away = {}
        /\ map = {}
        /\ targets \in TargetSets
        /\ todo = [a \in Actors |-> IF a = "watcher" THEN Bases(targets) ELSE {}]
        /\ pending = [a \in Actors |-> NoEntry]
        /\ reload = "idle"
        /\ toRemove = {}
        /\ excused = {}
        /\ left = {}
        /\ raced = FALSE
        /\ reloads = 0 /\ changes = 0 /\ failures = 0

Busy(a) == todo[a] # {} \/ pending[a] # NoEntry
Quiet == reload = "idle" /\ \A a \in Actors : ~Busy(a)
-----------------------------------------------------------------------------
(* add_watch_recursive_impl *)

Visit(a, i) == i \in todo[a] /\ pending[a] = NoEntry

\* lstat finds nothing.
Vanished(a, i) == /\ Visit(a, i)
                  /\ i.dir \notin exists
                  /\ todo' = [todo EXCEPT ![a] = @ \ {i}]
                  /\ UNCHANGED <<exists, kernel, map, pending, conf, excused, history,
                                 changes, failures>>

\* inotify_add_watch: a directory that is watched already keeps its descriptor.
AddWatch(a, i) ==
    /\ Visit(a, i)
    /\ i.dir \in exists
    /\ todo' = [todo EXCEPT ![a] = @ \ {i}]
    /\ LET w == IF wd[i.dir] # 0 THEN wd[i.dir] ELSE nextWd
       IN /\ wd' = [wd EXCEPT ![i.dir] = w]
          /\ pending' = [pending EXCEPT ![a] = [wd |-> w, dir |-> i.dir, slash |-> i.slash]]
          /\ nextWd' = IF w = nextWd THEN nextWd + 1 ELSE nextWd
    /\ UNCHANGED <<exists, away, map, conf, excused, history, changes, failures>>

\* inotify_add_watch fails (ENOSPC, EACCES): the path itself is still listed,
\* as far as it can be, an entry is passed over with all that is below it.
AddFails(a, i) ==
    /\ Visit(a, i)
    /\ i.dir \in exists
    /\ wd[i.dir] = 0
    /\ failures < MaxFailures
    /\ failures' = failures + 1
    /\ \E S \in IF i.base THEN SUBSET Children(i.dir) ELSE {{}} :
          /\ todo' = [todo EXCEPT ![a] = (@ \ {i}) \cup Subitems(S)]
          /\ excused' = excused \cup {i.dir} \cup Overlooked(i.dir, S)
    /\ UNCHANGED <<exists, kernel, map, pending, conf, history, changes>>

\* m_wd_path_map[wd] = path, and the entries S of the directory.
EnterAndList(a, S) ==
    /\ map' = {e \in map : e.wd # pending[a].wd} \cup {pending[a]}
    /\ pending' = [pending EXCEPT ![a] = NoEntry]
    /\ todo' = [todo EXCEPT ![a] = @ \cup Subitems(S)]
    /\ excused' = excused \cup Overlooked(pending[a].dir, S)
    /\ UNCHANGED <<exists, kernel, conf, history, changes>>

Enter(a) == /\ pending[a] # NoEntry
            /\ EnterAndList(a, Children(pending[a].dir))
            /\ UNCHANGED failures

\* A filesystem_error: the entries that were not reached are abandoned.
ListingFails(a) == /\ pending[a] # NoEntry
                   /\ failures < MaxFailures
                   /\ failures' = failures + 1
                   /\ \E S \in SUBSET Children(pending[a].dir) : EnterAndList(a, S)
-----------------------------------------------------------------------------
(* reload_config *)

\* m_cfg = new_cfg, and the paths to add.
BeginReload(T) ==
    /\ reload = "idle"
    /\ reloads < MaxReloads
    /\ reloads' = reloads + 1
    /\ targets' = T
    /\ todo' = [todo EXCEPT !["main"] = Bases(T \ targets)]
    /\ toRemove' = targets \ T
    /\ excused' = excused \ UNION {Below(p.dir) \cap exists : p \in T \ targets}
    /\ reload' = "adding"
    /\ UNCHANGED <<exists, kernel, map, pending, history, changes, failures>>

AllAdded == /\ reload = "adding"
            /\ ~Busy("main")
            /\ reload' = "removing"
            /\ UNCHANGED <<exists, kernel, map, targets, acts, toRemove, excused, history,
                           reloads, changes, failures>>

\* Mutant of Gone: the separator is forgotten, and /ab is taken to be in /a.
GoneByName(p) == {e \in map : IsPrefix(p.dir, e.dir)}
\* What the map has by this name or with this name and a slash in front.  If
\* the name ends in a slash that makes two, which no entry has.
Gone(p) == {e \in map : IF p.slash THEN e.dir = p.dir /\ e.slash ELSE Under(e.dir, p.dir)}

Removal(p) ==
    /\ reload = "removing"
    /\ p \in toRemove
    /\ toRemove' = toRemove \ {p}
    /\ map' = map \ Gone(p)
    /\ excused' = excused \cup {d \in Below(p.dir) : InScope(d)}
    /\ left' = left \cup IF p.slash THEN Below(p.dir) ELSE {}
    /\ raced' = (raced \/ Busy("watcher"))
    /\ UNCHANGED <<exists, nextWd, targets, acts, reload, reloads, changes, failures>>

\* Mutant of RemoveWatch: the entries are erased, the watches stay.
ForgetWatch(p) == Removal(p) /\ UNCHANGED <<wd, away>>

\* remove_watch_recursive(p): everything Gone, also what another configured
\* path still wants, and also what has been moved elsewhere meanwhile.
RemoveWatch(p) ==
    LET W == {e.wd : e \in Gone(p)}
    IN  /\ Removal(p)
        /\ wd' = [d \in Dirs |-> IF wd[d] \in W THEN 0 ELSE wd[d]]
        /\ away' = away \ W

EndReload == /\ reload = "removing"
             /\ toRemove = {}
             /\ reload' = "idle"
             /\ UNCHANGED <<exists, kernel, map, targets, acts, toRemove, excused, history,
                            reloads, changes, failures>>
-----------------------------------------------------------------------------
(* The file system *)

Changing == /\ changes < MaxChanges
            /\ changes' = changes + 1
            /\ UNCHANGED <<nextWd, map, acts, conf, history, failures>>

\* Nobody adds a watch for a directory that is made later.
MakeDir(d) == /\ Changing
              /\ d \notin exists
              /\ \A p \in Dirs : IsChild(d, p) => p \in exists
              /\ exists' = exists \cup {d}
              /\ excused' = excused \cup {d}
              /\ UNCHANGED <<wd, away>>

\* The kernel drops the watch; m_wd_path_map keeps its entry.
RemoveDir(d) == /\ Changing
                /\ d \in exists
                /\ Children(d) = {}
                /\ exists' = exists \ {d}
                /\ wd' = [wd EXCEPT ![d] = 0]
                /\ UNCHANGED <<away, excused>>

\* Moved to another place, with all that is in it: the watches go with it.
MoveDir(d) == /\ Changing
              /\ d \in exists
              /\ exists' = exists \ Below(d)
              /\ wd' = [e \in Dirs |-> IF Under(e, d) THEN 0 ELSE wd[e]]
              /\ away' = away \cup ({wd[e] : e \in Below(d)} \ {0})
              /\ UNCHANGED excused
-----------------------------------------------------------------------------
Next == \/ \E a \in Actors :
              \/ \E i \in todo[a] : Vanished(a, i) \/ AddWatch(a, i) \/ AddFails(a, i)
              \/ Enter(a) \/ ListingFails(a)
        \/ \E T \in TargetSets : BeginReload(T)
        \/ AllAdded
        \/ \E p \in toRemove : RemoveWatch(p)
        \/ EndReload
        \/ \E d \in Dirs : MakeDir(d) \/ RemoveDir(d) \/ MoveDir(d)

Spec == Init /\ [][Next]_vars
-----------------------------------------------------------------------------
(* Safety *)

\* m_wd_path_map has the events of d for those of d.
Watched(d) == wd[d] # 0 /\ \E e \in map : e.wd = wd[d] /\ e.dir = d

\* When the threads have come to rest, every directory of a configured path is
\* watched and its events find their path, however a reload ran into the watch
\* thread, except one that was made after its path was added, one whose watch
\* inotify refused or whose listing failed (with what is below it), and one
\* that lay below a path that was removed while another still wants it.
ScopeIsWatched ==
    Quiet => \A d \in exists \ excused : InScope(d) => Watched(d)

\* When they have come to rest, nothing outside the configured paths is
\* watched, unless it lay below a path that was removed and ended in a slash,
\* or a path was removed before the watch thread had added it.  A directory
\* that was moved elsewhere is watched still, but as long as the name it had is
\* configured, and under this name.
OnlyScopeIsWatched ==
    Quiet /\ ~raced =>
        /\ \A d \in Dirs \ left : wd[d] # 0 => InScope(d)
        /\ \A w \in away : \E e \in map : e.wd = w /\ (InScope(e.dir) \/ e.dir \in left)
=============================================================================
