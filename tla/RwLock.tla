--------------------------------- MODULE RwLock ---------------------------------
(***************************************************************************)
(* clib_rwlock: a reentrant, FIFO-fair, upgradeable reader-writer lock     *)
(* made of a mutex, tickets and one condition variable per waiting thread. *)
(*                                                                         *)
(* What a thread does while it holds the mutex is one step.  A thread in   *)
(* pthread_cond_wait has let go of the mutex and sleeps until a signal, or *)
(* for no reason; it then tests its condition again.                       *)
(***************************************************************************)
EXTENDS Naturals, Sequences, FiniteSets

CONSTANTS
  Threads,
  NoThread,    \* writer_thread 0
  MaxTicket,   \* UINT_MAX
  MaxDepth     \* bound: how deep a thread nests its locks

ASSUME RwLockAssumption ==
  /\ IsFiniteSet(Threads) /\ NoThread \notin Threads
  /\ MaxTicket \in Nat /\ Cardinality(Threads) <= MaxTicket + 1
  /\ MaxDepth \in Nat \ {0}

VARIABLES
  next_ticket, serving_ticket,
  writer_thread, write_recursion,
  num_readers,
  queue,            \* the threads with a node, in order
  upgrade_pending,
  my_read_count,    \* of each thread, in thread-local storage
  ticket,           \* of the node of each waiting thread
  pc,               \* which wait each thread is in
  asleep            \* the waiting threads that nobody has signalled

tickets == <<next_ticket, serving_ticket>>
writer  == <<writer_thread, write_recursion>>
waiters == <<queue, ticket, pc, asleep>>
vars == <<next_ticket, serving_ticket, writer_thread, write_recursion, num_readers,
          queue, upgrade_pending, my_read_count, ticket, pc, asleep>>

Init ==
  /\ next_ticket = 0 /\ serving_ticket = 0
  /\ writer_thread = NoThread /\ write_recursion = 0
  /\ num_readers = 0
  /\ queue = <<>>
  /\ upgrade_pending = FALSE
  /\ my_read_count = [t \in Threads |-> 0]
  /\ ticket = [t \in Threads |-> 0]
  /\ pc = [t \in Threads |-> "running"]
  /\ asleep = {}

-----------------------------------------------------------------------------
(* Tickets, conditions, signals.                                            *)

Inc(n) == IF n = MaxTicket THEN 0 ELSE n + 1

IsWriter(t) == write_recursion > 0 /\ writer_thread = t

(* Mutant: readers that arrive during an upgrade are let in.                *)
MayRead_Upgrading(n) == n = serving_ticket /\ write_recursion = 0
MayRead(n) == n = serving_ticket /\ write_recursion = 0 /\ ~upgrade_pending

(* Mutant: condition (c) of the code's comment is missing.                  *)
MayWrite_Shared(n, readers) == n = serving_ticket /\ readers = 0
MayWrite(n, readers) == n = serving_ticket /\ readers = 0 /\ write_recursion = 0

First(q) == IF q = <<>> THEN {} ELSE {Head(q)}
Upgraders == {t \in Threads : pc[t] = "upgrading"}

(* Mutant: a thread that got in does not signal the next one.               *)
Dequeued_Silent(t, q, sleepers) ==
  /\ queue' = Tail(q)
  /\ serving_ticket' = Inc(serving_ticket)
  /\ ticket' = [ticket EXCEPT ![t] = 0]
  /\ pc' = [pc EXCEPT ![t] = "running"]
  /\ asleep' = sleepers \ {t}

(* The head of the queue leaves it, and signals the next one.               *)
Dequeued(t, q, sleepers) ==
  /\ queue' = Tail(q)
  /\ serving_ticket' = Inc(serving_ticket)
  /\ ticket' = [ticket EXCEPT ![t] = 0]
  /\ pc' = [pc EXCEPT ![t] = "running"]
  /\ asleep' = sleepers \ ({t} \cup First(Tail(q)))

(* The thread takes a place at the end of the queue, and sleeps.            *)
Queued(t, wait, sleepers) ==
  /\ queue' = Append(queue, t)
  /\ ticket' = [ticket EXCEPT ![t] = next_ticket]
  /\ pc' = [pc EXCEPT ![t] = wait]
  /\ asleep' = sleepers \cup {t}

-----------------------------------------------------------------------------
(* clib__read_lock.                                                         *)

NestedRead(t) ==
  /\ pc[t] = "running" /\ IsWriter(t) /\ my_read_count[t] < MaxDepth
  /\ my_read_count' = [my_read_count EXCEPT ![t] = @ + 1]
  /\ UNCHANGED <<tickets, writer, num_readers, upgrade_pending, waiters>>

RecursiveRead(t) ==
  /\ pc[t] = "running" /\ ~IsWriter(t) /\ my_read_count[t] \in 1 .. MaxDepth - 1
  /\ my_read_count' = [my_read_count EXCEPT ![t] = @ + 1]
  /\ num_readers' = num_readers + 1
  /\ UNCHANGED <<tickets, writer, upgrade_pending, waiters>>

BecomesReader(t, q) ==
  /\ my_read_count' = [my_read_count EXCEPT ![t] = @ + 1]
  /\ num_readers' = num_readers + 1
  /\ Dequeued(t, q, asleep)
  /\ UNCHANGED <<writer, upgrade_pending>>

FirstRead(t) ==
  /\ pc[t] = "running" /\ ~IsWriter(t) /\ my_read_count[t] = 0
  /\ next_ticket' = Inc(next_ticket)
  /\ \/ MayRead(next_ticket) /\ BecomesReader(t, Append(queue, t))
     \/ /\ ~MayRead(next_ticket) /\ Queued(t, "reading", asleep)
        /\ UNCHANGED <<serving_ticket, writer, num_readers, upgrade_pending, my_read_count>>

(* pthread_cond_wait returns.                                               *)
SleepsAgain(t) ==
  /\ asleep' = asleep \cup {t}
  /\ UNCHANGED <<tickets, writer, num_readers, upgrade_pending, my_read_count, queue,
                 ticket, pc>>

ReaderWakes(t) ==
  /\ pc[t] = "reading" /\ t \notin asleep
  /\ \/ MayRead(ticket[t]) /\ BecomesReader(t, queue) /\ UNCHANGED next_ticket
     \/ ~MayRead(ticket[t]) /\ SleepsAgain(t)

-----------------------------------------------------------------------------
(* clib__write_lock.                                                        *)

RecursiveWrite(t) ==
  /\ pc[t] = "running" /\ IsWriter(t) /\ write_recursion < MaxDepth
  /\ write_recursion' = write_recursion + 1
  /\ UNCHANGED <<tickets, writer_thread, num_readers, upgrade_pending, my_read_count, waiters>>

(* The reads of the thread, however many, become one write.                 *)
Converted(t) ==
  /\ num_readers' = num_readers - my_read_count[t]
  /\ my_read_count' = [my_read_count EXCEPT ![t] = 0]
  /\ writer_thread' = t /\ write_recursion' = 1
  /\ upgrade_pending' = FALSE
  /\ pc' = [pc EXCEPT ![t] = "running"]
  /\ asleep' = asleep \ ({t} \cup First(queue))
  /\ UNCHANGED <<tickets, queue, ticket>>

StartUpgrade(t) ==
  /\ pc[t] = "running" /\ ~IsWriter(t) /\ my_read_count[t] > 0 /\ ~upgrade_pending
  /\ \/ ~(num_readers > my_read_count[t]) /\ Converted(t)
     \/ /\ num_readers > my_read_count[t]
        /\ upgrade_pending' = TRUE
        /\ pc' = [pc EXCEPT ![t] = "upgrading"]
        /\ asleep' = asleep \cup {t}
        /\ UNCHANGED <<tickets, writer, num_readers, my_read_count, queue, ticket>>

UpgraderWakes(t) ==
  /\ pc[t] = "upgrading" /\ t \notin asleep
  /\ \/ ~(num_readers > my_read_count[t]) /\ Converted(t)
     \/ num_readers > my_read_count[t] /\ SleepsAgain(t)

BecomesWriter(t, q, sleepers) ==
  /\ writer_thread' = t /\ write_recursion' = 1
  /\ Dequeued(t, q, sleepers)

Contends(t, readers, sleepers) ==
  /\ next_ticket' = Inc(next_ticket)
  /\ num_readers' = readers
  /\ my_read_count' = [my_read_count EXCEPT ![t] = 0]
  /\ \/ MayWrite(next_ticket, readers) /\ BecomesWriter(t, Append(queue, t), sleepers)
     \/ /\ ~MayWrite(next_ticket, readers) /\ Queued(t, "writing", sleepers)
        /\ UNCHANGED <<serving_ticket, writer>>
  /\ UNCHANGED upgrade_pending

FirstWrite(t) ==
  /\ pc[t] = "running" /\ ~IsWriter(t) /\ my_read_count[t] = 0
  /\ Contends(t, num_readers, asleep)

(* A second upgrader gives its reads up, wakes the first, and queues.       *)
Surrender(t) ==
  /\ pc[t] = "running" /\ ~IsWriter(t) /\ my_read_count[t] > 0 /\ upgrade_pending
  /\ Contends(t, num_readers - my_read_count[t], asleep \ Upgraders)

WriterWakes(t) ==
  /\ pc[t] = "writing" /\ t \notin asleep
  /\ \/ /\ MayWrite(ticket[t], num_readers) /\ BecomesWriter(t, queue, asleep)
        /\ UNCHANGED <<next_ticket, num_readers, upgrade_pending, my_read_count>>
     \/ ~MayWrite(ticket[t], num_readers) /\ SleepsAgain(t)

-----------------------------------------------------------------------------
(* clib__unlock; by a thread that holds nothing it changes nothing.         *)

SignalledIfFree(readers, depth) ==
  IF readers = 0 /\ depth = 0 THEN First(queue) ELSE {}

UnlockNestedRead(t) ==
  /\ pc[t] = "running" /\ IsWriter(t) /\ my_read_count[t] > 0
  /\ my_read_count' = [my_read_count EXCEPT ![t] = @ - 1]
  /\ UNCHANGED <<tickets, writer, num_readers, upgrade_pending, waiters>>

UnlockWrite(t) ==
  /\ pc[t] = "running" /\ IsWriter(t) /\ my_read_count[t] = 0
  /\ write_recursion' = write_recursion - 1
  /\ writer_thread' = IF write_recursion = 1 THEN NoThread ELSE writer_thread
  /\ asleep' = asleep \ SignalledIfFree(num_readers, write_recursion - 1)
  /\ UNCHANGED <<tickets, num_readers, upgrade_pending, my_read_count, queue, ticket, pc>>

UnlockRead(t) ==
  /\ pc[t] = "running" /\ ~IsWriter(t) /\ my_read_count[t] > 0
  /\ my_read_count' = [my_read_count EXCEPT ![t] = @ - 1]
  /\ num_readers' = num_readers - 1
  /\ asleep' = asleep \ ((IF upgrade_pending THEN Upgraders ELSE {})
                           \cup SignalledIfFree(num_readers - 1, write_recursion))
  /\ UNCHANGED <<tickets, writer, upgrade_pending, queue, ticket, pc>>

(* clib__rwlock_destroy and _init, when nobody holds or waits, as their     *)
(* caller must ensure.                                                      *)
Renew ==
  /\ queue = <<>> /\ writer_thread = NoThread /\ num_readers = 0
  /\ next_ticket' = 0 /\ serving_ticket' = 0
  /\ UNCHANGED <<writer, num_readers, upgrade_pending, my_read_count, waiters>>

(* POSIX lets pthread_cond_wait return without a signal.                    *)
SpuriousWakeup(t) ==
  /\ t \in asleep
  /\ asleep' = asleep \ {t}
  /\ UNCHANGED <<tickets, writer, num_readers, upgrade_pending, my_read_count, queue,
                 ticket, pc>>

Locks(t) ==
  \/ NestedRead(t) \/ RecursiveRead(t) \/ FirstRead(t)
  \/ RecursiveWrite(t) \/ StartUpgrade(t) \/ FirstWrite(t) \/ Surrender(t)
Unlocks(t) == UnlockNestedRead(t) \/ UnlockWrite(t) \/ UnlockRead(t)
Wakes(t) == ReaderWakes(t) \/ UpgraderWakes(t) \/ WriterWakes(t)

Next ==
  \/ \E t \in Threads : Locks(t) \/ Unlocks(t) \/ Wakes(t) \/ SpuriousWakeup(t)
  \/ Renew

Spec == Init /\ [][Next]_vars

(* A thread that was signalled gets the mutex some day.  Nothing is assumed *)
(* of callers, nor of spurious wakeups.                                     *)
FairSpec == Spec /\ \A t \in Threads : WF_vars(Wakes(t))

-----------------------------------------------------------------------------
TypeOK ==
  /\ next_ticket \in 0 .. MaxTicket /\ serving_ticket \in 0 .. MaxTicket
  /\ writer_thread \in Threads \cup {NoThread}
  /\ write_recursion \in 0 .. MaxDepth
  /\ num_readers \in Nat
  /\ queue \in Seq(Threads)
  /\ upgrade_pending \in BOOLEAN
  /\ my_read_count \in [Threads -> 0 .. MaxDepth]
  /\ ticket \in [Threads -> 0 .. MaxTicket]
  /\ pc \in [Threads -> {"running", "reading", "writing", "upgrading"}]
  /\ asleep \subseteq Threads

(* A writer is alone: while one thread holds the lock for writing no other  *)
(* holds it at all, however reads nest, are upgraded or surrendered.        *)
Exclusion ==
  \A t, u \in Threads : t # u /\ IsWriter(t) => my_read_count[u] = 0

(* Every thread that sleeps has a reason to: none sleeps on a condition     *)
(* that has come true, so no signal is missing on any path, and the lock    *)
(* never lies idle with everyone asleep.                                    *)
MayProceed(t) ==
  \/ pc[t] = "reading" /\ MayRead(ticket[t])
  \/ pc[t] = "writing" /\ MayWrite(ticket[t], num_readers)
  \/ pc[t] = "upgrading" /\ ~(num_readers > my_read_count[t])
WakeupsAreNotLost == \A t \in asleep : ~MayProceed(t)

(* clib_rwlock.h, "WHY THIS EXISTS": as long as no caller keeps the lock    *)
(* for ever, every thread that waits gets in, writers behind a stream of    *)
(* readers and upgraders included.                                          *)
Holds(t) == IsWriter(t) \/ my_read_count[t] > 0
Blocked(t) == pc[t] # "running"
EveryoneGetsIn ==
  (\A t \in Threads : []<>(Blocked(t) \/ ~Holds(t)))
    => \A t \in Threads : Blocked(t) ~> ~Blocked(t)

(* The lock implements FifoLock: one writer or many readers, and nobody is  *)
(* overtaken in the line.                                                   *)
Kind(t) == IF pc[t] = "reading" THEN "read" ELSE "write"
Mode(t) == IF IsWriter(t) THEN "write" ELSE IF my_read_count[t] > 0 THEN "read" ELSE "none"
Fifo == INSTANCE FifoLock WITH
  mode <- [t \in Threads |-> Mode(t)],
  line <- [i \in DOMAIN queue |-> <<queue[i], Kind(queue[i])>>]
ImplementsFifoLock == Fifo!FifoSpec
=============================================================================
