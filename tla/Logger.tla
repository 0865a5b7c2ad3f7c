------------------------------- MODULE Logger -------------------------------
(***************************************************************************)
(* The asynchronous log (class Logger, src/src/logger.cpp): threads queue  *)
(* messages under s_queue_mutex, one thread takes them in batches and      *)
(* hands them to syslog, a full queue sheds its oldest part and says so,   *)
(* and shutdown() waits for the rest to be written.                        *)
(*                                                                         *)
(* A message is the number under which it entered the queue; 0 stands for  *)
(* the warning "Log queue overflow".  Each block under s_queue_mutex is    *)
(* one step.  The waits of the writer (100 ms) and of shutdown (5 s) may   *)
(* always time out.                                                        *)
(***************************************************************************)
EXTENDS Naturals, Sequences, FiniteSets

CONSTANTS Producers,    \* threads that log
          Main,         \* the one that calls init and shutdown
          Cap,          \* MAX_LOG_QUEUE_SIZE
          DropPart,     \* a full queue loses one part in so many
          BatchSize,    \* BATCH_SIZE
          MaxMessages   \* bound

ASSUME ProducersAssumption == IsFiniteSet(Producers) /\ Main \in Producers
ASSUME SizesAssumption == /\ Cap \in Nat /\ DropPart \in Nat \ {0}
                          /\ Cap \div DropPart >= 2       \* 10000 / 4 in the code
                          /\ BatchSize \in Nat \ {0}
                          /\ MaxMessages \in Nat

VARIABLES queue,    \* s_log_queue
          next,     \* number of the next message
          owing,    \* threads between the two locked blocks of log()
          dropped,  \* messages shed by a full queue
          open,     \* s_running
          writer,   \* where async_writer is; "none" before init, "done" after it
          batch,    \* what it has taken out
          written,  \* what syslog was given
          stage,    \* where shutdown() is; "up" before it, "closed" after it
          complaint \* history: the message shutdown() itself has logged, or 0

lvars == <<queue, next, owing, dropped, open, writer, batch, written, stage, complaint>>

LTypeOK == /\ queue \in Seq(Nat)
           /\ next \in Nat \ {0}
           /\ owing \subseteq Producers
           /\ dropped \subseteq Nat \ {0}
           /\ open \in BOOLEAN
           /\ writer \in {"none", "test", "take", "write", "done"}
           /\ batch \in Seq(Nat)
           /\ written \in Seq(Nat)
           /\ stage \in {"up", "flush", "complain", "join", "closed"}
           /\ complaint \in Nat

\* Messages may be there before init: load_config logs.
LInit == /\ queue = <<>>
         /\ next = 1
         /\ owing = {}
         /\ dropped = {}
         /\ open = FALSE
         /\ writer = "none"
         /\ batch = <<>>
         /\ written = <<>>
         /\ stage = "up"
         /\ complaint = 0
-----------------------------------------------------------------------------
(* log() *)

Full == Len(queue) >= Cap
\* How many of the oldest entries go.
Shed == IF Full THEN Len(queue) \div DropPart ELSE 0

\* Mutant of Put: the overflow is not reported.
PutSilently(p) == /\ queue' = Append(SubSeq(queue, Shed + 1, Len(queue)), next)
                  /\ dropped' = dropped \cup ({queue[i] : i \in 1..Shed} \ {0})
                  /\ next' = next + 1
                  /\ UNCHANGED <<owing, open, writer, batch, written>>

\* The first locked block.
Put(p) == /\ queue' = Append(SubSeq(queue, Shed + 1, Len(queue)), next)
          /\ dropped' = dropped \cup ({queue[i] : i \in 1..Shed} \ {0})
          /\ next' = next + 1
          /\ owing' = IF Full THEN owing \cup {p} ELSE owing
          /\ UNCHANGED <<open, writer, batch, written>>

Log(p) == /\ p \notin owing
          /\ next <= MaxMessages
          /\ Put(p)
          /\ UNCHANGED <<stage, complaint>>

\* The second one: the overflow warning, however full the queue is by now.
Warn(p) == /\ p \in owing
           /\ owing' = owing \ {p}
           /\ queue' = Append(queue, 0)
           /\ UNCHANGED <<next, dropped, open, writer, batch, written, stage, complaint>>
-----------------------------------------------------------------------------
(* init() and async_writer() *)

StartWriter == /\ writer = "none"
               /\ open' = TRUE
               /\ writer' = "test"
               /\ UNCHANGED <<queue, next, owing, dropped, batch, written, stage, complaint>>

GoOn == open \/ queue # <<>>
Test == /\ writer = "test"
        /\ writer' = IF GoOn THEN "take" ELSE "done"
        /\ UNCHANGED <<queue, next, owing, dropped, open, batch, written, stage, complaint>>

\* Woken or timed out: a batch, which may be empty.
Take == /\ writer = "take"
        /\ LET n == IF Len(queue) < BatchSize THEN Len(queue) ELSE BatchSize
           IN /\ batch' = SubSeq(queue, 1, n)
              /\ queue' = SubSeq(queue, n + 1, Len(queue))
        /\ writer' = "write"
        /\ UNCHANGED <<next, owing, dropped, open, written, stage, complaint>>

\* Mutant of WriteBatch: the batch is given out from its end.
WriteBackwards == /\ writer = "write"
                  /\ written' = written \o [i \in 1..Len(batch) |-> batch[Len(batch) + 1 - i]]
                  /\ batch' = <<>>
                  /\ writer' = "test"
                  /\ UNCHANGED <<queue, next, owing, dropped, open, stage, complaint>>

WriteBatch == /\ writer = "write"
              /\ written' = written \o batch
              /\ batch' = <<>>
              /\ writer' = "test"
              /\ UNCHANGED <<queue, next, owing, dropped, open, stage, complaint>>

Writer == Test \/ Take \/ WriteBatch
-----------------------------------------------------------------------------
(* shutdown().  Whoever uses the log has joined the threads that log. *)

Close == /\ stage = "up" /\ open
         /\ open' = FALSE
         /\ stage' = "flush"
         /\ UNCHANGED <<queue, next, owing, dropped, writer, batch, written, complaint>>

\* The queue is seen empty, or the five seconds are over; what is then left
\* is looked at once more.
Flushed == /\ stage = "flush"
           /\ stage' \in {"join"} \cup (IF queue # <<>> THEN {"complain"} ELSE {})
           /\ queue = <<>> \/ stage' = "complain"
           /\ UNCHANGED <<queue, next, owing, dropped, open, writer, batch, written, complaint>>

Complain == /\ stage = "complain"
            /\ Put(Main)
            /\ complaint' = next
            /\ stage' = "join"

Join == /\ stage = "join"
        /\ Main \notin owing
        /\ writer = "done"
        /\ stage' = "closed"
        /\ UNCHANGED <<queue, next, owing, dropped, open, writer, batch, written, complaint>>

-----------------------------------------------------------------------------
LNext == \/ \E p \in Producers : (stage = "up" /\ Log(p)) \/ Warn(p)
         \/ StartWriter
         \/ Writer
         \/ owing = {} /\ Close
         \/ Flushed \/ Complain \/ Join

LSpec == LInit /\ [][LNext]_lvars
-----------------------------------------------------------------------------
(* Safety *)

\* The queue stays within its limit but for the warnings that threads still
\* owe it: one entry may be over for each thread, whatever they log.
QueueIsBounded == Len(queue) + Cardinality(owing) < Cap + Cardinality(Producers)

Holds(s, n) == \E i \in 1..Len(s) : s[i] = n
InOrder(s) == \A i, j \in 1..Len(s) : i < j /\ s[i] # 0 /\ s[j] # 0 => s[i] < s[j]

\* The log shows messages in the order in which they entered the queue, none
\* of them twice and none that was shed.
WrittenInOrder == InOrder(written) /\ \A d \in dropped : ~Holds(written, d)

\* When shutdown has returned, every message was written or shed by a full
\* queue, the last one like the others; only the complaint of shutdown itself,
\* if it made one, may come after the writer has left.
LogIsComplete ==
    stage = "closed" =>
        \A n \in (1..(next - 1)) \ {complaint} : Holds(written, n) \/ n \in dropped

\* When shutdown has returned and messages were shed, a warning stands in the
\* log behind everything that was logged before the loss, unless it was the
\* complaint of shutdown that overflowed the queue: its warning may be left in
\* the queue by a writer that has gone.
LossIsReported ==
    stage = "closed" /\ ~Holds(queue, 0) =>
        \A d \in dropped :
            \E k \in 1..Len(written) :
                /\ written[k] = 0
                /\ \A j \in 1..Len(written) : written[j] \in 1..d => j < k

\* No message is lost without a trace.
LogTellsAll == LogIsComplete /\ LossIsReported
=============================================================================
