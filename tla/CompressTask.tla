---------------------------- MODULE CompressTask ----------------------------
(***************************************************************************)
(* One watched file, its compressed copies, and everything that touches    *)
(* them: compress_task and delete_task (src/src/main.cpp) on the workers   *)
(* of the pool, the file operations of Compressor (compressor.cpp) they    *)
(* are made of, the users who edit, replace and delete the original, the   *)
(* monitor's reaction to an unlinked copy, and a crash with the scan of    *)
(* the restart.                                                            *)
(*                                                                         *)
(* Data.  A state of the original is a version, an index into hist; bytes  *)
(* do not occur.  What a read returns is the set of versions it saw, and a *)
(* compressed copy is the set of versions it was made from plus whether    *)
(* its last byte is written.  Every system call that others can observe is *)
(* a step; an open file descriptor keeps writing to its inode wherever a   *)
(* rename has put it (the field owner).  Every file belongs to a user (uid):*)
(* the daemon's own until copy_metadata has given it away.                 *)
(***************************************************************************)
EXTENDS Naturals, Sequences, FiniteSets

CONSTANTS Workers,     \* threads that run tasks
          Enabled,     \* formats Config::algorithms asks for
          SizeOf,      \* size class of each version: 0 empty, 1 below the
                       \* threshold, 2 one-shot, 3 streamed
          MaxVersions, \* bound: edits, the first version included
          AllowOlder,  \* may a user put an older file in place (mtime kept)?
          Root, Daemon, \* the superuser, and the user the daemon runs as
          Users,       \* those whom an original may belong to
          MaxErrors,   \* bound: failing reads, writes and removals
          MaxCrashes,  \* bound: crashes
          None         \* no file, no owner

Formats == {"gz", "br"}
BelowMin(v) == SizeOf[v] < 2       \* size < effective_min
Streamed(v) == SizeOf[v] = 3       \* size > effective_chunk

Uids == Users \cup {Root, Daemon}
File == [owner : Workers \cup {None}, content : SUBSET (1..MaxVersions),
         complete : BOOLEAN, mtime : 0..MaxVersions, uid : Uids]

ASSUME CompressAssumption == /\ Enabled \in (SUBSET Formats) \ {{}}
                             /\ MaxVersions \in Nat \ {0}
                             /\ SizeOf \in [1..MaxVersions -> 0..3]
                             /\ AllowOlder \in BOOLEAN
                             /\ MaxErrors \in Nat /\ MaxCrashes \in Nat
ASSUME NoneAssumption == None \notin Workers /\ None \notin File

VARIABLES hist,     \* versions the original has had: inode, mtime and user of each
          src,      \* the current version, 0 when the file does not exist
          out,      \* path.gz and path.br
          tmp,      \* path.gz.tmp and path.br.tmp
          up,       \* is the daemon running?
          pending,  \* tasks queued for this file: "compress", "delete"
          pc,       \* where each worker is
          snap,     \* the version fstat() or lstat() saw: inode, mtime, size, user
          content,  \* versions read into the buffer
          todo,     \* formats the current phase has still to handle
          ok,       \* formats that are going well (gzip_success, ..._started)
          lost,     \* resources a task returned without giving back
          late,     \* history: the original changed after a task's last check
          cut,      \* history: a crash hit a task that had published unchecked copies
          kept,     \* history: a copy has outlived its removal
          errors, crashes

files == <<hist, src, out, tmp>>
local == <<pc, snap, content, todo, ok>>
trail == <<late, cut, kept>>
bounds == <<errors, crashes>>
vars == <<hist, src, out, tmp, up, pending, pc, snap, content, todo, ok, lost, late,
          cut, kept, errors, crashes>>

PCs == {"idle", "decide", "open", "read", "check", "write", "fill", "rename", "meta",
        "unlink", "create", "chunk1", "chunk2", "flush", "publish", "scheck", "smeta",
        "remove"}

TypeOK == /\ hist \in Seq([ino : 1..MaxVersions, mtime : 0..MaxVersions, uid : Users])
          /\ Len(hist) \in 1..MaxVersions
          /\ src \in 0..Len(hist)
          /\ out \in [Formats -> File \cup {None}]
          /\ tmp \in [Formats -> File \cup {None}]
          /\ up \in BOOLEAN
          /\ pending \subseteq {"compress", "delete"}
          /\ pc \in [Workers -> PCs]
          /\ snap \in [Workers -> 0..MaxVersions]
          /\ content \in [Workers -> SUBSET (1..MaxVersions)]
          /\ todo \in [Workers -> Seq(Formats)]
          /\ ok \in [Workers -> SUBSET Formats]
          /\ lost \subseteq {"buffer", "fd"}
          /\ late \in BOOLEAN /\ cut \in BOOLEAN /\ kept \in BOOLEAN
          /\ errors \in 0..MaxErrors /\ crashes \in 0..MaxCrashes
-----------------------------------------------------------------------------
Now == Len(hist)                   \* time advances with the edits
Ino(v) == hist[v].ino
Mtime(v) == hist[v].mtime
Uid(v) == hist[v].uid
\* What an open descriptor of version v's inode reads now.
Contents(v) == CHOOSE n \in 1..Now : /\ Ino(n) = Ino(v)
                                     /\ \A m \in 1..Now : Ino(m) = Ino(v) => m <= n

\* gz_ok && br_ok: both copies, whatever Config::algorithms says.
UpToDate == \A f \in Formats : out[f] # None /\ out[f].mtime >= Mtime(src)
ShouldCompress == src # 0 /\ ~UpToDate

\* Mutant of Unchanged: the check after reading only asks whether the file
\* is still there.
StillThere(v) == src # 0

\* lstat of the path after reading against the fstat before it.
Unchanged(v) == src # 0 /\ Mtime(src) = Mtime(v) /\ Ino(src) = Ino(v)

Only(f, S) == IF f \in S THEN <<f>> ELSE <<>>
BrFirst(S) == Only("br", S) \o Only("gz", S)
GzFirst(S) == Only("gz", S) \o Only("br", S)

\* A write through worker w's descriptor, wherever its inode is linked now.
WriteOwned(w, dir, f, rec) ==
    IF dir[f] # None /\ dir[f].owner = w
    THEN [dir EXCEPT ![f] = [rec EXCEPT !.uid = dir[f].uid]] ELSE dir
NewTmp(w) == [owner |-> w, content |-> {}, complete |-> FALSE, mtime |-> Now, uid |-> Daemon]
FullFile(w) == [owner |-> None, content |-> content[w], complete |-> TRUE, mtime |-> Now,
                uid |-> Daemon]

\* The workers whose last look at the original is behind them.
Committed == {w \in Workers : pc[w] \in {"write", "fill", "rename", "meta", "smeta"}}

Init == /\ \E u \in Users : hist = <<[ino |-> 1, mtime |-> 1, uid |-> u]>>
        /\ src = 1
        /\ out = [f \in Formats |-> None]
        /\ tmp = [f \in Formats |-> None]
        /\ up = TRUE
        /\ pending = {"compress"}              \* from the initial scan
        /\ pc = [w \in Workers |-> "idle"]
        /\ snap = [w \in Workers |-> 0]
        /\ content = [w \in Workers |-> {}]
        /\ todo = [w \in Workers |-> <<>>]
        /\ ok = [w \in Workers |-> {}]
        /\ lost = {}
        /\ late = FALSE /\ cut = FALSE /\ kept = FALSE
        /\ errors = 0 /\ crashes = 0
-----------------------------------------------------------------------------
(* Users of the file.  A running monitor queues a task for every change. *)

Notice(kind) == pending' = IF up THEN pending \cup {kind} ELSE pending
Disturb == late' = (late \/ Committed # {}) /\ UNCHANGED <<cut, kept>>

NewVersion(ino, mtime, u) ==
    /\ Now < MaxVersions
    /\ hist' = Append(hist, [ino |-> ino, mtime |-> mtime, uid |-> u])
    /\ src' = Now + 1
    /\ Notice("compress")
    /\ Disturb
    /\ UNCHANGED <<out, tmp, up, local, lost, bounds>>

Modify == src # 0 /\ NewVersion(Ino(src), Now + 1, Uid(src))
Replace == \E u \in Users : NewVersion(Now + 1, Now + 1, u)    \* create, or rename over
ReplaceByOlder == AllowOlder /\ \E u \in Users : NewVersion(Now + 1, 0, u)

Delete == /\ src # 0
          /\ src' = 0
          /\ Notice("delete")
          /\ Disturb
          /\ UNCHANGED <<hist, out, tmp, up, local, lost, bounds>>
-----------------------------------------------------------------------------
(* The steps of a worker *)

At(w, where) == up /\ pc[w] = where
Goto(w, where) == pc' = [pc EXCEPT ![w] = where]
Return(w) == /\ Goto(w, "idle")
             /\ snap' = [snap EXCEPT ![w] = 0]
             /\ content' = [content EXCEPT ![w] = {}]
             /\ todo' = [todo EXCEPT ![w] = <<>>]
             /\ ok' = [ok EXCEPT ![w] = {}]
\* A read(), a write or a removal that the kernel refuses.
CallFails == errors < MaxErrors /\ errors' = errors + 1
\* Start of a phase that handles the formats in the order given.
Phase(w, where, order) == /\ Goto(w, where)
                          /\ todo' = [todo EXCEPT ![w] = order]
                          /\ UNCHANGED <<snap, content, ok>>
\* Compressor::safe_remove_compressed, after which the task returns.
RemoveCopies(w) == Phase(w, "remove", GzFirst(Formats))

BeginCompress(w) == /\ At(w, "idle")
                    /\ "compress" \in pending
                    /\ pending' = pending \ {"compress"}
                    /\ Goto(w, "decide")
                    /\ UNCHANGED <<files, up, snap, content, todo, ok, lost, trail, bounds>>

BeginDelete(w) == /\ At(w, "idle")
                  /\ "delete" \in pending
                  /\ pending' = pending \ {"delete"}
                  /\ RemoveCopies(w)
                  /\ UNCHANGED <<files, up, lost, trail, bounds>>

\* should_compress, and the threshold on the size of the file.
Decide(w) == /\ At(w, "decide")
             /\ \/ ~ShouldCompress /\ Return(w)
                \/ ShouldCompress /\ SizeOf[src] = 1 /\ RemoveCopies(w)
                \/ ShouldCompress /\ SizeOf[src] # 1 /\ Phase(w, "open", <<>>)
             /\ UNCHANGED <<files, up, pending, lost, trail, bounds>>

Open(w) == /\ At(w, "open")
           /\ \/ src = 0 /\ Return(w)
              \/ /\ src # 0
                 /\ snap' = [snap EXCEPT ![w] = src]
                 /\ IF Streamed(src)
                    THEN /\ Goto(w, "unlink")
                         /\ todo' = [todo EXCEPT ![w] = BrFirst(Enabled)]
                    ELSE Goto(w, "read") /\ UNCHANGED todo
                 /\ UNCHANGED <<content, ok>>
           /\ UNCHANGED <<files, up, pending, lost, trail, bounds>>

\* The return of a one-shot task that read too little forgets its buffer.
PartialRead(w) == RemoveCopies(w) /\ lost' = lost \cup {"buffer"}

\* Mutant of Read: the size is that of the file at the path by now.
ReadByPath(w) == /\ At(w, "read")
                 /\ IF src # 0 /\ SizeOf[src] < SizeOf[snap[w]]
                    THEN PartialRead(w)
                    ELSE /\ Goto(w, "check")
                         /\ content' = [content EXCEPT ![w] = {Contents(snap[w])}]
                         /\ UNCHANGED <<snap, todo, ok, lost>>
                 /\ UNCHANGED <<files, up, pending, trail, bounds>>

\* One-shot: the file got shorter, or read() fails.
Read(w) == /\ At(w, "read")
           /\ LET v == Contents(snap[w]) IN
                IF SizeOf[v] < SizeOf[snap[w]]
                THEN PartialRead(w) /\ UNCHANGED errors
                ELSE \/ /\ Goto(w, "check")
                        /\ content' = [content EXCEPT ![w] = {v}]
                        /\ UNCHANGED <<snap, todo, ok, lost, errors>>
                     \/ CallFails /\ PartialRead(w)
           /\ UNCHANGED <<files, up, pending, trail, crashes>>

Check(w) == /\ At(w, "check")
            /\ \/ ~Unchanged(snap[w]) /\ Return(w)
               \/ Unchanged(snap[w]) /\ BelowMin(src) /\ RemoveCopies(w)
               \/ Unchanged(snap[w]) /\ ~BelowMin(src) /\ Phase(w, "write", BrFirst(Enabled))
            /\ UNCHANGED <<files, up, pending, lost, trail, bounds>>

\* The one-shot formats are written one after the other.
NextFormat(w) == IF Len(todo[w]) > 1
                 THEN Phase(w, "write", Tail(todo[w]))
                 ELSE Return(w)
\* Mutant of CanCreate: without O_EXCL.
CreateAnyway(f) == TRUE
\* O_CREAT | O_EXCL
CanCreate(f) == tmp[f] = None

OpenTmp(w) == LET f == Head(todo[w]) IN
    /\ At(w, "write")
    /\ \/ /\ CanCreate(f)
          /\ tmp' = [tmp EXCEPT ![f] = NewTmp(w)]
          /\ Goto(w, "fill")
          /\ UNCHANGED <<snap, content, todo, ok>>
       \/ /\ ~CanCreate(f)
          /\ NextFormat(w)
          /\ UNCHANGED tmp
    /\ UNCHANGED <<hist, src, out, up, pending, lost, trail, bounds>>

\* Mutant of Fill: a failing write is not noticed.
FillUnchecked(w) == LET f == Head(todo[w]) IN
    /\ At(w, "fill")
    /\ \/ /\ tmp' = WriteOwned(w, tmp, f, FullFile(w))
          /\ out' = WriteOwned(w, out, f, FullFile(w))
          /\ UNCHANGED errors
       \/ /\ CallFails
          /\ UNCHANGED <<out, tmp>>
    /\ Goto(w, "rename")
    /\ UNCHANGED <<hist, src, up, pending, snap, content, todo, ok, lost, trail, crashes>>

Fill(w) == LET f == Head(todo[w]) IN
    /\ At(w, "fill")
    /\ \/ /\ tmp' = WriteOwned(w, tmp, f, FullFile(w))
          /\ out' = WriteOwned(w, out, f, FullFile(w))
          /\ Goto(w, "rename")
          /\ UNCHANGED <<snap, content, todo, ok, errors>>
       \/ /\ CallFails                         \* write, fchmod or fsync
          /\ tmp' = [tmp EXCEPT ![f] = None]
          /\ NextFormat(w)
          /\ UNCHANGED out
    /\ UNCHANGED <<hist, src, up, pending, lost, trail, crashes>>

\* Mutant of Move: a copy of the temporary file, which stays.
CopyOver(f) == out' = [out EXCEPT ![f] = tmp[f]] /\ UNCHANGED tmp

\* rename(tmp, output) moves whatever is at the temporary path by now.
Move(f) == /\ out' = [out EXCEPT ![f] = tmp[f]]
           /\ tmp' = [tmp EXCEPT ![f] = None]

Rename(w) == LET f == Head(todo[w]) IN
    /\ At(w, "rename")
    /\ \/ tmp[f] # None /\ Move(f) /\ Phase(w, "meta", todo[w])
       \/ tmp[f] = None /\ NextFormat(w) /\ UNCHANGED <<out, tmp>>
    /\ UNCHANGED <<hist, src, up, pending, lost, trail, bounds>>

\* copy_metadata: the mtime the original has NOW, and its user if the daemon
\* is root (fchown is refused to others).
CopyMtime(f) ==
    out' = IF out[f] # None /\ src # 0
           THEN [out EXCEPT ![f].mtime = Mtime(src),
                            ![f].uid = IF Daemon = Root THEN Uid(src) ELSE @]
           ELSE out

Meta(w) == /\ At(w, "meta")
           /\ CopyMtime(Head(todo[w]))
           /\ NextFormat(w)
           /\ UNCHANGED <<hist, src, tmp, up, pending, lost, trail, bounds>>
-----------------------------------------------------------------------------
(* Streaming *)

Unlink(w) == /\ At(w, "unlink")
             /\ tmp' = [tmp EXCEPT ![Head(todo[w])] = None]
             /\ Goto(w, "create")
             /\ UNCHANGED <<hist, src, out, up, pending, snap, content, todo, ok, lost,
                            trail, bounds>>

\* After the last format: read on with those that started, or give up.
Started(w, S) == /\ ok' = [ok EXCEPT ![w] = S]
                 /\ IF Len(todo[w]) > 1
                    THEN /\ Goto(w, "unlink")
                         /\ todo' = [todo EXCEPT ![w] = Tail(@)]
                         /\ UNCHANGED <<snap, content>>
                    ELSE /\ Goto(w, IF S = {} THEN "idle" ELSE "chunk1")
                         /\ todo' = [todo EXCEPT ![w] = <<>>]
                         /\ UNCHANGED content
                         /\ snap' = [snap EXCEPT ![w] = IF S = {} THEN 0 ELSE @]

Create(w) == LET f == Head(todo[w]) IN
    /\ At(w, "create")
    /\ \/ /\ CanCreate(f)
          /\ tmp' = [tmp EXCEPT ![f] = NewTmp(w)]
          /\ Started(w, ok[w] \cup {f})
       \/ /\ ~CanCreate(f)
          /\ Started(w, ok[w])
          /\ UNCHANGED tmp
    /\ UNCHANGED <<hist, src, out, up, pending, lost, trail, bounds>>

\* Premature end of file, or a failing read(): the copies go, the temporary
\* files and their descriptors stay.
StreamError(w) == RemoveCopies(w) /\ lost' = lost \cup {"fd"}

Chunk1(w) == /\ At(w, "chunk1")
             /\ LET v == Contents(snap[w]) IN
                  IF SizeOf[v] = 0
                  THEN StreamError(w) /\ UNCHANGED errors
                  ELSE \/ /\ Goto(w, "chunk2")
                          /\ content' = [content EXCEPT ![w] = {v}]
                          /\ UNCHANGED <<snap, todo, ok, lost, errors>>
                       \/ CallFails /\ StreamError(w)
             /\ UNCHANGED <<files, up, pending, trail, crashes>>

Chunk2(w) == /\ At(w, "chunk2")
             /\ LET v == Contents(snap[w]) IN
                  IF ~Streamed(v)
                  THEN StreamError(w) /\ UNCHANGED errors
                  ELSE \/ /\ Goto(w, "flush")
                          /\ content' = [content EXCEPT ![w] = @ \cup {v}]
                          /\ todo' = [todo EXCEPT ![w] = BrFirst(ok[w])]
                          /\ UNCHANGED <<snap, ok, lost, errors>>
                       \/ CallFails /\ StreamError(w)
             /\ UNCHANGED <<files, up, pending, trail, crashes>>

\* The formats flush and rename one after the other; then comes the check.
NextFlush(w, S) ==
    /\ ok' = [ok EXCEPT ![w] = S]
    /\ Goto(w, IF Len(todo[w]) > 1 THEN "flush" ELSE "scheck")
    /\ todo' = [todo EXCEPT ![w] = Tail(@)]
    /\ UNCHANGED <<snap, content>>

Flush(w) == LET f == Head(todo[w]) IN
    /\ At(w, "flush")
    /\ \/ /\ tmp' = WriteOwned(w, tmp, f, FullFile(w))
          /\ out' = WriteOwned(w, out, f, FullFile(w))
          /\ Goto(w, "publish")
          /\ UNCHANGED <<snap, content, todo, ok, lost, errors>>
       \/ /\ CallFails                         \* has_error: nothing is cleaned up
          /\ lost' = lost \cup {"fd"}
          /\ NextFlush(w, ok[w] \ {f})
          /\ UNCHANGED <<out, tmp>>
    /\ UNCHANGED <<hist, src, up, pending, trail, crashes>>

Publish(w) == LET f == Head(todo[w]) IN
    /\ At(w, "publish")
    /\ \/ tmp[f] # None /\ Move(f) /\ NextFlush(w, ok[w])
       \/ tmp[f] = None /\ NextFlush(w, ok[w] \ {f}) /\ UNCHANGED <<out, tmp>>
    /\ UNCHANGED <<hist, src, up, pending, lost, trail, bounds>>

\* Mutant of StreamCheck: the race check of the streaming branch is missing.
StreamUnchecked(w) ==
    /\ At(w, "scheck")
    /\ IF ok[w] # {} THEN Phase(w, "smeta", GzFirst(ok[w])) ELSE Return(w)
    /\ UNCHANGED <<files, up, pending, lost, trail, bounds>>

StreamCheck(w) ==
    /\ At(w, "scheck")
    /\ IF Unchanged(snap[w]) /\ ~BelowMin(src)
       THEN IF ok[w] # {} THEN Phase(w, "smeta", GzFirst(ok[w])) ELSE Return(w)
       ELSE RemoveCopies(w)
    /\ UNCHANGED <<files, up, pending, lost, trail, bounds>>

StreamMeta(w) == /\ At(w, "smeta")
                 /\ CopyMtime(Head(todo[w]))
                 /\ IF Len(todo[w]) > 1 THEN Phase(w, "smeta", Tail(todo[w])) ELSE Return(w)
                 /\ UNCHANGED <<hist, src, tmp, up, pending, lost, trail, bounds>>
-----------------------------------------------------------------------------
(* Compressor::safe_remove_compressed, one copy after the other *)

\* lstat of the original, before the first copy: 0 when there is none.
Seen(w) == IF Len(todo[w]) = Cardinality(Formats) THEN src ELSE snap[w]

\* Mutant of MayRemove: an original that is gone owns nothing.
MayRemoveOwned(f, v) == v # 0 /\ (Uid(v) = Root \/ out[f].uid = Uid(v))

\* check_file_ownership: as long as there is an original, a copy must belong
\* to the same user, unless that is root.
MayRemove(f, v) == v # 0 => Uid(v) = Root \/ out[f].uid = Uid(v)

NextRemoval(w) == IF Len(todo[w]) > 1
                  THEN /\ Goto(w, "remove")
                       /\ todo' = [todo EXCEPT ![w] = Tail(@)]
                       /\ snap' = [snap EXCEPT ![w] = Seen(w)]
                       /\ UNCHANGED <<content, ok>>
                  ELSE Return(w)

\* Mutant of Remove: the original is queued even when no copy was there.
RemoveAndRequeue(w) == LET f == Head(todo[w]) IN
    /\ At(w, "remove")
    /\ out' = [out EXCEPT ![f] = None]
    /\ pending' = pending \cup {"compress"}
    /\ NextRemoval(w)
    /\ UNCHANGED <<hist, src, tmp, up, lost, trail, bounds>>

\* The monitor answers the IN_DELETE of a copy by queueing its original.  A
\* copy stays if it is another user's, or if its directory cannot be opened
\* or unlinkat fails.
Remove(w) == LET f == Head(todo[w]) IN
    /\ At(w, "remove")
    /\ \/ /\ out[f] = None
          /\ UNCHANGED <<out, pending, kept, errors>>
       \/ /\ out[f] # None /\ MayRemove(f, Seen(w))
          /\ out' = [out EXCEPT ![f] = None]
          /\ pending' = pending \cup {"compress"}
          /\ UNCHANGED <<kept, errors>>
       \/ /\ out[f] # None
          /\ IF MayRemove(f, Seen(w)) THEN CallFails ELSE UNCHANGED errors
          /\ kept' = TRUE
          /\ UNCHANGED <<out, pending>>
    /\ NextRemoval(w)
    /\ UNCHANGED <<hist, src, tmp, up, lost, late, cut, crashes>>

\* A worker there may have published copies it has not checked yet.
Unchecked == {"flush", "publish", "scheck", "remove"}

\* Everything in memory is gone, the files are what they are.
Disown(dir) == [f \in Formats |-> IF dir[f] = None THEN None ELSE [dir[f] EXCEPT !.owner = None]]
Crash == /\ up
         /\ crashes < MaxCrashes
         /\ crashes' = crashes + 1
         /\ up' = FALSE
         /\ cut' = (cut \/ \E w \in Workers : pc[w] \in Unchecked)
         /\ pending' = {}
         /\ out' = Disown(out)
         /\ tmp' = Disown(tmp)
         /\ pc' = [w \in Workers |-> "idle"]
         /\ snap' = [w \in Workers |-> 0]
         /\ content' = [w \in Workers |-> {}]
         /\ todo' = [w \in Workers |-> <<>>]
         /\ ok' = [w \in Workers |-> {}]
         /\ lost' = {}
         /\ UNCHANGED <<hist, src, late, kept, errors>>

\* Monitor::scan_existing_files, for this file.  It removes the copies of a
\* small file whosever they are (unlink may fail, and the monitor may notice),
\* and it compares whole seconds: copies that are only just too old pass.
Restart == /\ ~up
           /\ up' = TRUE
           /\ IF src # 0 /\ BelowMin(src)
              THEN /\ \/ /\ out' = [f \in Formats |-> None]
                         /\ UNCHANGED <<kept, errors>>
                      \/ /\ CallFails
                         /\ \E f \in Formats : out' = [g \in Formats |-> IF g = f THEN out[f] ELSE None]
                         /\ kept' = TRUE
                   /\ pending' \in {{}, {"compress"}}
              ELSE /\ pending' \in (IF ShouldCompress THEN {{"compress"}} ELSE {{}})
                                  \cup (IF \A f \in Formats : out[f] # None THEN {{}} ELSE {})
                   /\ UNCHANGED <<out, kept, errors>>
           /\ UNCHANGED <<hist, src, tmp, local, lost, late, cut, crashes>>

Step(w) == \/ BeginCompress(w) \/ BeginDelete(w) \/ Decide(w) \/ Open(w)
           \/ Read(w) \/ Check(w) \/ OpenTmp(w) \/ Fill(w) \/ Rename(w) \/ Meta(w)
           \/ Unlink(w) \/ Create(w) \/ Chunk1(w) \/ Chunk2(w) \/ Flush(w) \/ Publish(w)
           \/ StreamCheck(w) \/ StreamMeta(w) \/ Remove(w)

Next == \/ \E w \in Workers : Step(w)
        \/ Modify \/ Replace \/ ReplaceByOlder \/ Delete
        \/ Crash \/ Restart

Spec == Init /\ [][Next]_vars

\* Workers run; the daemon is restarted after a crash (Restart=on-failure).
FairSpec == Spec /\ (\A w \in Workers : WF_vars(Step(w))) /\ WF_vars(Restart)
-----------------------------------------------------------------------------
(* Safety *)

Quiet == up /\ pending = {} /\ \A w \in Workers : pc[w] = "idle"
CopyOf(f, v) == out[f] # None /\ out[f].complete /\ out[f].content = {v}
\* The copies are what the original calls for.
Fresh == IF src = 0 \/ BelowMin(src)
         THEN \A f \in Formats : out[f] = None
         ELSE \A f \in Enabled : CopyOf(f, src)

\* With every task done, the copies are those of the current original (none
\* for a small or deleted one), unless it changed after the last check of a
\* task that was running, an older file took its place, a call failed, a copy
\* was left in place because it did not belong to the user of the original,
\* or a crash or a stream that broke off at a truncation left temporary files
\* that lock every later task out: there is no other way to a stale copy.
FreshUnlessLate ==
    /\ Quiet /\ ~late /\ ~kept /\ errors = 0 /\ crashes = 0 /\ "fd" \notin lost
    /\ src # 0 => Mtime(src) # 0
    => Fresh

\* A copy outlives its removal only if a call failed or an original belonged
\* to a stranger: where each is root's or the daemon's own, everything that is
\* to be removed is removed, and so are the copies of a deleted original.
KeptHasACause ==
    kept => errors > 0 \/ \E v \in 1..Now : Uid(v) \notin {Root, Daemon}

\* A published copy is complete: what is at path.gz or path.br can be read
\* to its end, at every moment.
NoTornCopy == \A f \in Formats : out[f] # None => out[f].complete

\* A file that should_compress would skip has copies of its current version:
\* whatever crashed or failed, what the idempotence check trusts is right,
\* unless a change came after a task's last check, a stream has published what
\* it has not checked (and a crash may keep it from doing so), a copy that was
\* to be removed was not, or the original is an older file put in place with
\* its old mtime.
TrustedCopiesAreFresh ==
    /\ src # 0 /\ Mtime(src) # 0 /\ ~ShouldCompress
    /\ ~late /\ ~cut /\ ~kept /\ \A w \in Workers : pc[w] \notin Unchecked
    => \A f \in Formats : CopyOf(f, src)

\* Streaming publishes before it checks: a copy that mixes versions is there
\* only while the worker that will remove it is on its way, or if a crash took
\* that worker away, or if its removal was refused: until copy_metadata the
\* copy is the daemon's, and safe_remove_compressed leaves it to an original
\* of any other user but root.
MixedCopyIsDoomed ==
    (\E f \in Formats : out[f] # None /\ Cardinality(out[f].content) > 1) =>
        cut \/ kept \/ \E w \in Workers : pc[w] \in Unchecked

\* A temporary file belongs to a task in flight: none survives the last task.
NoTmpLeft == Quiet => \A f \in Formats : tmp[f] = None

\* A one-shot temporary file has one writer: O_EXCL keeps a second task for
\* the same file from touching it until it is renamed or unlinked.
OneWriter == \A v, w \in Workers :
                /\ pc[v] \in {"fill", "rename"} /\ pc[w] \in {"fill", "rename"}
                /\ Head(todo[v]) = Head(todo[w])
                => v = w

\* A copy is replaced by the copy of a version that is not older, as long as
\* nothing changes behind a task's last check.
NoRegress ==
    [][\A f \in Formats : out[f] # None /\ out'[f] # None /\ ~late' =>
          \A m \in out[f].content : \E n \in out'[f].content : n >= m]_vars

\* A task gives its buffer and its descriptors back, unless the very file it
\* has open was truncated, or a read or a write failed: a file that is replaced
\* by a shorter one costs nothing.
LostHasACause ==
    lost # {} => \/ errors > 0
                 \/ \E m, n \in 1..Now : m < n /\ Ino(m) = Ino(n) /\ SizeOf[n] < SizeOf[m]
-----------------------------------------------------------------------------
(* Liveness *)

\* The daemon comes to rest after the last edit: removing copies, which
\* makes the monitor queue the file again, does not go on forever.
ComesToRest == <>[](up => Quiet)
-----------------------------------------------------------------------------
(* What the specification of the program says, and the code does not do *)

\* Specification 3.1.8, requirement 2 and the table above it: a copy never
\* stays behind the original.
FreshWhenQuiet == Quiet => Fresh
=============================================================================
