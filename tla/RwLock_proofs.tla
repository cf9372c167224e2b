------------------------------ MODULE RwLock_proofs ------------------------------
(***************************************************************************)
(* RwLock keeps writers alone, loses no wakeup and implements FifoLock,    *)
(* for every set of threads, every ticket width that has a ticket for      *)
(* each of them, and every nesting depth.                                  *)
(***************************************************************************)
EXTENDS RwLock, FiniteSetTheorems, SequenceTheorems, TLAPS

Wrap(n) == IF n > MaxTicket THEN n - (MaxTicket + 1) ELSE n

(* The ticket of the i-th thread in the queue.                              *)
TicketAt(i) == Wrap(serving_ticket + i - 1)

InQueue == {"reading", "writing"}

QueueInv ==
  /\ \A i \in DOMAIN queue : pc[queue[i]] \in InQueue /\ ticket[queue[i]] = TicketAt(i)
  /\ \A i, j \in DOMAIN queue : queue[i] = queue[j] => i = j
  /\ \A t \in Threads : pc[t] \in InQueue => \E i \in DOMAIN queue : queue[i] = t
  /\ next_ticket = TicketAt(Len(queue) + 1)

WriterInv ==
  /\ write_recursion = 0 <=> writer_thread = NoThread
  /\ writer_thread # NoThread => pc[writer_thread] = "running" /\ num_readers = 0
  /\ upgrade_pending => writer_thread = NoThread

WaitInv ==
  /\ \A t \in Threads : pc[t] \in InQueue => my_read_count[t] = 0
  /\ \A t \in Threads : pc[t] = "upgrading" => my_read_count[t] > 0 /\ upgrade_pending
  /\ upgrade_pending => \E t \in Threads : pc[t] = "upgrading"
  /\ \A t, u \in Threads : pc[t] = "upgrading" /\ pc[u] = "upgrading" => t = u
  /\ \A t \in asleep : pc[t] # "running"

(* The reads that num_readers counts, one by one: all but the writer's.     *)
Reads(count, w) ==
  {h \in Threads \X (1 .. MaxDepth) : h[1] # w /\ h[2] <= count[h[1]]}
CountInv == num_readers = Cardinality(Reads(my_read_count, writer_thread))

IInv == TypeOK /\ QueueInv /\ WriterInv /\ WaitInv /\ CountInv /\ WakeupsAreNotLost

-----------------------------------------------------------------------------
(* Counting reads.                                                          *)

Counts == [Threads -> 0 .. MaxDepth]
Own(count, t) == {t} \X (1 .. count[t])

(* There are finitely many reads, and they can be counted.                  *)
LEMMA ReadsFinite ==
  ASSUME NEW count, NEW w
  PROVE  IsFiniteSet(Reads(count, w)) /\ Cardinality(Reads(count, w)) \in Nat
<1>0. IsFiniteSet(Threads) /\ IsFiniteSet(1 .. MaxDepth)
  BY RwLockAssumption, FS_Interval
<1>1. IsFiniteSet(Threads \X (1 .. MaxDepth))
  BY <1>0, FS_Product
<1>2. Reads(count, w) \in SUBSET (Threads \X (1 .. MaxDepth))
  BY DEF Reads
<1>3. IsFiniteSet(Reads(count, w))
  BY <1>1, <1>2, FS_Subset
<1> QED
  BY <1>3, FS_CardinalityType

(* One more read of a thread that is not the writer is one more read.       *)
LEMMA OneMoreRead ==
  ASSUME NEW count \in Counts, NEW w, NEW t \in Threads, t # w, count[t] < MaxDepth
  PROVE  Cardinality(Reads([count EXCEPT ![t] = @ + 1], w)) = Cardinality(Reads(count, w)) + 1
<1> DEFINE more == [count EXCEPT ![t] = @ + 1]
           new  == <<t, count[t] + 1>>
<1>1. Reads(more, w) = Reads(count, w) \cup {new}
  BY RwLockAssumption DEF Reads, Counts
<1>2. new \notin Reads(count, w)
  BY DEF Reads, Counts
<1> QED
  BY <1>1, <1>2, ReadsFinite, FS_AddElement

(* One read less.                                                           *)
LEMMA OneReadLess ==
  ASSUME NEW count \in Counts, NEW w, NEW t \in Threads, t # w, count[t] > 0
  PROVE  Cardinality(Reads([count EXCEPT ![t] = @ - 1], w)) = Cardinality(Reads(count, w)) - 1
<1> DEFINE less == [count EXCEPT ![t] = @ - 1]
           old  == <<t, count[t]>>
<1>1. Reads(less, w) = Reads(count, w) \ {old}
  BY RwLockAssumption DEF Reads, Counts
<1>2. old \in Reads(count, w)
  BY RwLockAssumption DEF Reads, Counts
<1> QED
  BY <1>1, <1>2, ReadsFinite, FS_RemoveElement, ZenonT(40)

(* A thread has as many reads as its counter says.                          *)
LEMMA OwnReads ==
  ASSUME NEW count \in Counts, NEW t \in Threads
  PROVE  IsFiniteSet(Own(count, t)) /\ Cardinality(Own(count, t)) = count[t]
<1>1. count[t] \in Nat
  BY RwLockAssumption DEF Counts
<1>2. IsFiniteSet(1 .. count[t]) /\ Cardinality(1 .. count[t]) = count[t]
  BY <1>1, FS_Interval, SMTT(30)
<1>3. IsFiniteSet({t}) /\ Cardinality({t}) = 1
  BY FS_Singleton
<1>4. /\ IsFiniteSet({t} \X (1 .. count[t]))
      /\ Cardinality({t} \X (1 .. count[t])) = Cardinality({t}) * Cardinality(1 .. count[t])
  BY <1>2, <1>3, FS_Product
<1>5. Cardinality({t} \X (1 .. count[t])) = count[t]
  BY <1>1, <1>2, <1>3, <1>4
<1> QED
  BY <1>4, <1>5 DEF Own

LEMMA OwnAreReads ==
  ASSUME NEW count \in Counts, NEW w, NEW t \in Threads, t # w
  PROVE  Own(count, t) \in SUBSET Reads(count, w)
  BY RwLockAssumption DEF Own, Reads, Counts

(* A thread that gives up its reads takes away exactly those.               *)
LEMMA ReadsGivenUp ==
  ASSUME NEW count \in Counts, NEW w, NEW t \in Threads, t # w
  PROVE  Cardinality(Reads([count EXCEPT ![t] = 0], w)) = Cardinality(Reads(count, w)) - count[t]
<1> DEFINE none == [count EXCEPT ![t] = 0]
<1>1. Reads(none, w) = Reads(count, w) \ Own(count, t)
  BY RwLockAssumption DEF Reads, Counts, Own
<1>2. Reads(count, w) \cap Own(count, t) = Own(count, t)
  BY OwnAreReads
<1>3. Cardinality(Reads(count, w) \ Own(count, t))
        = Cardinality(Reads(count, w)) - Cardinality(Reads(count, w) \cap Own(count, t))
  BY ReadsFinite, FS_Difference
<1> QED
  BY <1>1, <1>2, <1>3, OwnReads

(* Whoever has no reads may become the writer, or stop being it.            *)
LEMMA WriterChanges ==
  ASSUME NEW count \in Counts, NEW v, NEW w,
         v \in Threads => count[v] = 0, w \in Threads => count[w] = 0
  PROVE  Reads(count, v) = Reads(count, w)
  BY DEF Reads, Counts

(* The reads that are nested in a write are not counted.                    *)
LEMMA NestedReads ==
  ASSUME NEW count \in Counts, NEW w, NEW n
  PROVE  Reads([count EXCEPT ![w] = n], w) = Reads(count, w)
  BY DEF Reads, Counts

(* What num_readers says of the threads one by one.                         *)
LEMMA CountFacts ==
  ASSUME TypeOK, CountInv, NEW t \in Threads, t # writer_thread
  PROVE  /\ my_read_count[t] <= num_readers
         /\ num_readers = 0 => my_read_count[t] = 0
         /\ ~(num_readers > my_read_count[t]) =>
              \A u \in Threads \ {t, writer_thread} : my_read_count[u] = 0
<1> DEFINE all == Reads(my_read_count, writer_thread)
<1>1. my_read_count \in Counts
  BY DEF TypeOK, Counts
<1>2. IsFiniteSet(all) /\ Cardinality(all) = num_readers
  BY ReadsFinite DEF CountInv
<1>3. Own(my_read_count, t) \in SUBSET all
  BY <1>1, OwnAreReads
<1>4. Cardinality(Own(my_read_count, t)) = my_read_count[t]
  BY <1>1, OwnReads
<1>5. my_read_count[t] <= num_readers
  BY <1>2, <1>3, <1>4, FS_Subset
<1>6. my_read_count[t] \in Nat /\ num_readers \in Nat
  BY RwLockAssumption DEF TypeOK
<1>7. ASSUME ~(num_readers > my_read_count[t]), NEW u \in Threads \ {t, writer_thread}
      PROVE  my_read_count[u] = 0
  <2>1. Own(my_read_count, t) = all
    BY <1>2, <1>3, <1>4, <1>5, <1>6, <1>7, FS_Subset
  <2>2. Own(my_read_count, u) \in SUBSET all
    BY <1>1, OwnAreReads
  <2>3. my_read_count[u] > 0 => <<u, 1>> \in Own(my_read_count, u)
    BY RwLockAssumption DEF Own, TypeOK
  <2>4. <<u, 1>> \notin Own(my_read_count, t)
    BY DEF Own
  <2> QED
    BY <2>1, <2>2, <2>3, <2>4, RwLockAssumption DEF TypeOK
<1> QED
  BY <1>5, <1>6, <1>7

-----------------------------------------------------------------------------
(* The queue and its tickets.                                               *)

(* No more threads wait than there are threads, so no two hold one ticket.  *)
LEMMA QueueFits ==
  ASSUME TypeOK, QueueInv
  PROVE  /\ Len(queue) <= MaxTicket + 1
         /\ \A t \in Threads : pc[t] \notin InQueue => Len(queue) <= MaxTicket
<1> DEFINE n == Len(queue)
<1>1. n \in Nat /\ Cardinality(1 .. n) = n
  <2>1. n \in Nat
    BY DEF TypeOK
  <2>2. 1 \in Int /\ n \in Int
    BY <2>1
  <2>3. Cardinality(1 .. n) = IF 1 > n THEN 0 ELSE n - 1 + 1
    BY <2>2, FS_Interval
  <2> HIDE DEF n
  <2> QED
    BY <2>1, <2>3
<1>0. queue \in [1 .. n -> Threads]
  BY DEF TypeOK
<1>2. IsFiniteSet(Threads) /\ Cardinality(Threads) \in Nat /\ Cardinality(Threads) <= MaxTicket + 1
  BY RwLockAssumption, FS_CardinalityType
<1>3. n <= MaxTicket + 1
  <2>1. \A i, j \in 1 .. n : queue[i] = queue[j] => i = j
    BY <1>0 DEF QueueInv
  <2>3. queue \in Injection(1 .. n, Threads)
    BY <1>0, <2>1 DEF Injection, IsInjective
  <2>2. Cardinality(1 .. n) <= Cardinality(Threads)
    BY <1>2, <2>3, FS_Injection
  <2> QED
    BY <1>1, <1>2, <2>2, RwLockAssumption
<1>4. ASSUME NEW t \in Threads, pc[t] \notin InQueue
      PROVE  n <= MaxTicket
  <2>0. \A i, j \in 1 .. n : queue[i] = queue[j] => i = j
    BY <1>0 DEF QueueInv
  <2>4. \A i \in 1 .. n : queue[i] # t
    BY <1>0, <1>4 DEF QueueInv
  <2>5. queue \in [1 .. n -> Threads \ {t}]
    BY <1>0, <2>4
  <2>1. queue \in Injection(1 .. n, Threads \ {t})
    BY <2>0, <2>5 DEF Injection, IsInjective
  <2>2. /\ IsFiniteSet(Threads \ {t})
        /\ Cardinality(Threads \ {t}) = Cardinality(Threads) - 1
    BY <1>2, FS_RemoveElement
  <2>3. Cardinality(1 .. n) <= Cardinality(Threads \ {t})
    BY <2>1, <2>2, FS_Injection
  <2> QED
    BY <1>1, <1>2, <2>2, <2>3, RwLockAssumption
<1> QED
  BY <1>3, <1>4

(* The ticket that is served is that of the head of the queue.              *)
LEMMA HeadIsServed ==
  ASSUME TypeOK, QueueInv, NEW i \in DOMAIN queue
  PROVE  ticket[queue[i]] = serving_ticket <=> i = 1
<1>1. Len(queue) <= MaxTicket + 1
  BY QueueFits
<1>2. i \in Nat /\ 1 <= i /\ i <= Len(queue) /\ Len(queue) \in Nat
  BY DEF TypeOK
<1>3. ticket[queue[i]] = TicketAt(i)
  BY DEF QueueInv
<1>4. serving_ticket \in 0 .. MaxTicket /\ MaxTicket \in Nat
  BY RwLockAssumption DEF TypeOK
<1> QED
  BY <1>1, <1>2, <1>3, <1>4 DEF TicketAt, Wrap

(* A thread that arrives is served at once if and only if nobody waits.     *)
LEMMA NewcomerIsServed ==
  ASSUME TypeOK, QueueInv, NEW t \in Threads, pc[t] \notin InQueue
  PROVE  next_ticket = serving_ticket <=> queue = <<>>
<1>1. Len(queue) <= MaxTicket
  BY QueueFits
<1>2. Len(queue) = 0 <=> queue = <<>>
  BY DEF TypeOK
<1>3. Len(queue) \in Nat
  BY DEF TypeOK
<1> QED
  BY <1>1, <1>2, <1>3, RwLockAssumption DEF TypeOK, QueueInv, TicketAt, Wrap

LEMMA QueueJoins ==
  ASSUME TypeOK, QueueInv, NEW t \in Threads, pc[t] \notin InQueue, NEW sleepers,
         NEW wait \in InQueue, Queued(t, wait, sleepers),
         next_ticket' = Inc(next_ticket), serving_ticket' = serving_ticket
  PROVE  QueueInv'
<1>1. /\ Len(queue) \in Nat /\ Len(queue') = Len(queue) + 1 /\ DOMAIN queue = 1 .. Len(queue)
      /\ DOMAIN queue' = 1 .. Len(queue) + 1
      /\ \A i \in 1 .. Len(queue) : queue'[i] = queue[i] /\ queue[i] \in Threads
      /\ queue'[Len(queue) + 1] = t
  BY DEF TypeOK, Queued
<1>2. \A i \in DOMAIN queue : queue[i] # t
  BY DEF QueueInv
<1>3. Len(queue) <= MaxTicket
  BY QueueFits
<1>4. \A i \in DOMAIN queue' : pc'[queue'[i]] \in InQueue /\ ticket'[queue'[i]] = TicketAt(i)'
  <2>1. pc'[t] = wait /\ ticket'[t] = next_ticket
    BY DEF TypeOK, Queued
  <2>2. \A i \in 1 .. Len(queue) : pc'[queue[i]] = pc[queue[i]] /\ ticket'[queue[i]] = ticket[queue[i]]
    BY <1>1, <1>2 DEF TypeOK, Queued
  <2>3. \A i \in 1 .. Len(queue) : pc[queue[i]] \in InQueue /\ ticket[queue[i]] = TicketAt(i)
    BY <1>1 DEF QueueInv
  <2>4. next_ticket = TicketAt(Len(queue) + 1)
    BY DEF QueueInv
  <2>5. \A i \in 1 .. Len(queue) + 1 : TicketAt(i)' = TicketAt(i)
    BY DEF TicketAt, Wrap
  <2>6. \A i \in 1 .. Len(queue) + 1 : i \in 1 .. Len(queue) \/ i = Len(queue) + 1
    BY <1>1
  <2> QED
    BY <1>1, <2>1, <2>2, <2>3, <2>4, <2>5, <2>6
<1>5. \A i, j \in DOMAIN queue' : queue'[i] = queue'[j] => i = j
  BY <1>1, <1>2 DEF QueueInv
<1>6. \A u \in Threads : pc'[u] \in InQueue => \E i \in DOMAIN queue' : queue'[i] = u
  <2> SUFFICES ASSUME NEW u \in Threads, pc'[u] \in InQueue
               PROVE  \E i \in DOMAIN queue' : queue'[i] = u
    OBVIOUS
  <2>1. CASE u = t
    BY <1>1, <2>1
  <2>2. CASE u # t
    <3>1. pc[u] \in InQueue
      BY <2>2 DEF Queued, TypeOK
    <3>2. PICK i \in DOMAIN queue : queue[i] = u
      BY <3>1 DEF QueueInv
    <3> QED
      BY <1>1, <3>2
  <2> QED
    BY <2>1, <2>2
<1>7. next_ticket' = TicketAt(Len(queue) + 1)'
  <2>1. next_ticket = TicketAt(Len(queue) + 1) /\ serving_ticket \in 0 .. MaxTicket
        /\ MaxTicket \in Nat
    BY RwLockAssumption DEF TypeOK, QueueInv
  <2> QED
    BY <1>1, <1>3, <2>1 DEF TicketAt, Wrap, Inc
<1> QED
  BY <1>4, <1>5, <1>6, <1>7 DEF QueueInv

LEMMA QueueServes ==
  ASSUME TypeOK, QueueInv, NEW t \in Threads, queue # <<>>, Head(queue) = t,
         NEW sleepers, Dequeued(t, queue, sleepers), next_ticket' = next_ticket
  PROVE  QueueInv'
<1>1. /\ Len(queue) \in Nat /\ Len(queue) >= 1 /\ Len(queue') = Len(queue) - 1
      /\ DOMAIN queue = 1 .. Len(queue) /\ DOMAIN queue' = 1 .. Len(queue) - 1
      /\ \A i \in 1 .. Len(queue) - 1 : queue'[i] = queue[i + 1] /\ queue'[i] \in Threads
      /\ queue[1] = t
  BY DEF TypeOK, Dequeued
<1>2. \A i \in DOMAIN queue' : queue'[i] # t
  BY <1>1 DEF QueueInv
<1>3. Len(queue) <= MaxTicket + 1
  BY QueueFits
<1>4. serving_ticket \in 0 .. MaxTicket /\ MaxTicket \in Nat /\ serving_ticket' = Inc(serving_ticket)
  BY RwLockAssumption DEF TypeOK, Dequeued
<1>5. \A i \in 1 .. Len(queue) : TicketAt(i)' = TicketAt(i + 1)
  BY <1>1, <1>3, <1>4 DEF TicketAt, Wrap, Inc
<1>6. \A i \in DOMAIN queue' : pc'[queue'[i]] \in InQueue /\ ticket'[queue'[i]] = TicketAt(i)'
  <2> SUFFICES ASSUME NEW i \in 1 .. Len(queue) - 1
               PROVE  pc'[queue'[i]] \in InQueue /\ ticket'[queue'[i]] = TicketAt(i)'
    BY <1>1
  <2>1. i + 1 \in DOMAIN queue /\ i \in 1 .. Len(queue) /\ queue'[i] = queue[i + 1]
    BY <1>1
  <2>2. pc[queue[i + 1]] \in InQueue /\ ticket[queue[i + 1]] = TicketAt(i + 1)
    BY <2>1 DEF QueueInv
  <2>3. queue'[i] # t /\ queue'[i] \in Threads
    BY <1>1, <1>2
  <2>4. pc'[queue'[i]] = pc[queue'[i]] /\ ticket'[queue'[i]] = ticket[queue'[i]]
    BY <2>3 DEF Dequeued, TypeOK
  <2> QED
    BY <1>5, <2>1, <2>2, <2>4
<1>7. \A i, j \in DOMAIN queue' : queue'[i] = queue'[j] => i = j
  <2> SUFFICES ASSUME NEW i \in 1 .. Len(queue) - 1, NEW j \in 1 .. Len(queue) - 1,
                      queue'[i] = queue'[j]
               PROVE  i = j
    BY <1>1
  <2>1. i + 1 \in DOMAIN queue /\ j + 1 \in DOMAIN queue /\ queue[i + 1] = queue[j + 1]
    BY <1>1
  <2>2. i + 1 = j + 1
    BY <2>1 DEF QueueInv
  <2> QED
    BY <2>2
<1>8. ASSUME NEW u \in Threads, pc'[u] \in InQueue
      PROVE  \E i \in DOMAIN queue' : queue'[i] = u
  <2>1. u # t /\ pc[u] \in InQueue
    BY <1>8 DEF Dequeued, TypeOK, InQueue
  <2>2. PICK i \in DOMAIN queue : queue[i] = u
    BY <2>1 DEF QueueInv
  <2>3. i - 1 \in DOMAIN queue'
    BY <1>1, <2>1, <2>2
  <2> QED
    BY <1>1, <2>2, <2>3
<1>9. next_ticket' = TicketAt(Len(queue) + 1)'
  <2>1. Len(queue)' = Len(queue) - 1 /\ next_ticket = TicketAt(Len(queue) + 1)
    BY <1>1 DEF QueueInv
  <2> QED
    BY <1>1, <1>3, <1>4, <2>1 DEF TicketAt, Wrap, Inc
<1> QED
  BY <1>6, <1>7, <1>8, <1>9 DEF QueueInv

(* A thread that finds nobody waiting takes a ticket and uses it at once.   *)
LEMMA QueuePasses ==
  ASSUME TypeOK, QueueInv, NEW t \in Threads, queue = <<>>, NEW sleepers,
         Dequeued(t, Append(queue, t), sleepers), next_ticket' = Inc(next_ticket)
  PROVE  QueueInv' /\ queue' = <<>>
<1>1. queue' = <<>> /\ Len(queue) = 0
  BY DEF Dequeued
<1>2. next_ticket = serving_ticket /\ serving_ticket \in 0 .. MaxTicket /\ MaxTicket \in Nat
  BY <1>1, RwLockAssumption DEF TypeOK, QueueInv, TicketAt, Wrap
<1>3. serving_ticket' = next_ticket' /\ serving_ticket' \in 0 .. MaxTicket
  BY <1>2 DEF Dequeued, Inc
<1>4. next_ticket' = TicketAt(Len(queue) + 1)'
  BY <1>1, <1>2, <1>3 DEF TicketAt, Wrap
<1>5. \A u \in Threads : pc'[u] \notin InQueue
  BY <1>1 DEF QueueInv, Dequeued, TypeOK, InQueue
<1> QED
  BY <1>1, <1>4, <1>5 DEF QueueInv

(* Steps that leave the queue alone.                                        *)
LEMMA QueueStays ==
  ASSUME TypeOK, QueueInv, UNCHANGED <<tickets, queue, ticket>>,
         \A t \in Threads : pc'[t] # pc[t] => pc[t] \notin InQueue /\ pc'[t] \notin InQueue
  PROVE  QueueInv'
  BY SMTT(30) DEF TypeOK, QueueInv, TicketAt, Wrap, tickets

LEMMA AppendFits ==
  ASSUME NEW S, NEW q \in Seq(S), NEW e \in S
  PROVE  Append(q, e) \in Seq(S) /\ Append(q, e) # <<>>
<1>1. Append(q, e) \in Seq(S)
  OBVIOUS
<1>2. Len(Append(q, e)) = Len(q) + 1 /\ Len(q) \in Nat
  OBVIOUS
<1>3. Append(q, e) = <<>> => Len(Append(q, e)) = 0
  OBVIOUS
<1> QED
  BY <1>1, <1>2, <1>3

(* Nobody in the queue but its head is served; primed, for use after a step. *)
HeadIsNext ==
  \A t \in Threads : pc[t] \in InQueue /\ ticket[t] = serving_ticket
     => queue # <<>> /\ t = Head(queue)

LEMMA OnlyHeadIsServed == TypeOK /\ QueueInv => HeadIsNext
<1> SUFFICES ASSUME TypeOK, QueueInv, NEW t \in Threads,
                    pc[t] \in InQueue, ticket[t] = serving_ticket
             PROVE  queue # <<>> /\ t = Head(queue)
  BY DEF HeadIsNext
<1>1. PICK i \in DOMAIN queue : queue[i] = t
  BY DEF QueueInv
<1>2. i = 1
  BY <1>1, HeadIsServed
<1> QED
  BY <1>1, <1>2 DEF TypeOK

LEMMA OnlyHeadIsServedNext == (TypeOK /\ QueueInv)' => HeadIsNext'
  BY OnlyHeadIsServed, PTL

-----------------------------------------------------------------------------
(* Every action preserves the invariant.                                    *)

(* The writer is the thread that writer_thread names; what the invariant    *)
(* says of one thread.                                                      *)
LEMMA ThreadFacts ==
  ASSUME IInv, NEW t \in Threads
  PROVE  /\ IsWriter(t) <=> writer_thread = t
         /\ my_read_count[t] \in 0 .. MaxDepth /\ num_readers \in Nat
         /\ MaxDepth \in Nat \ {0}
         /\ my_read_count \in Counts
         /\ t # NoThread
         /\ num_readers = Cardinality(Reads(my_read_count, writer_thread))
  BY RwLockAssumption DEF IInv, TypeOK, WriterInv, IsWriter, Counts, CountInv

LEMMA NestedReadPreserves ==
  ASSUME IInv, NEW t \in Threads, NestedRead(t)
  PROVE  IInv'
<1>1. TypeOK'
  BY ThreadFacts DEF IInv, TypeOK, NestedRead, tickets, writer, waiters
<1>2. QueueInv'
  BY QueueStays DEF IInv, NestedRead, waiters
<1>3. WriterInv'
  BY DEF IInv, WriterInv, NestedRead, tickets, writer, waiters
<1>4. WaitInv'
  BY DEF IInv, TypeOK, WaitInv, InQueue, NestedRead, writer, waiters
<1>5. CountInv'
  BY ThreadFacts, NestedReads DEF NestedRead, CountInv, writer
<1>6. WakeupsAreNotLost'
  BY DEF IInv, TypeOK, WaitInv, WakeupsAreNotLost, MayProceed, MayRead, MayWrite, NestedRead,
         tickets, writer, waiters
<1> QED
  BY <1>1, <1>2, <1>3, <1>4, <1>5, <1>6 DEF IInv

LEMMA UnlockNestedReadPreserves ==
  ASSUME IInv, NEW t \in Threads, UnlockNestedRead(t)
  PROVE  IInv'
<1>1. TypeOK'
  BY ThreadFacts, SMTT(30) DEF IInv, TypeOK, UnlockNestedRead, tickets, writer, waiters
<1>2. QueueInv'
  BY QueueStays DEF IInv, UnlockNestedRead, waiters
<1>3. WriterInv'
  BY DEF IInv, WriterInv, UnlockNestedRead, tickets, writer, waiters
<1>4. WaitInv'
  BY DEF IInv, TypeOK, WaitInv, InQueue, UnlockNestedRead, writer, waiters
<1>5. CountInv'
  BY ThreadFacts, NestedReads DEF UnlockNestedRead, CountInv, writer
<1>6. WakeupsAreNotLost'
  BY DEF IInv, TypeOK, WaitInv, WakeupsAreNotLost, MayProceed, MayRead, MayWrite,
         UnlockNestedRead, tickets, writer, waiters
<1> QED
  BY <1>1, <1>2, <1>3, <1>4, <1>5, <1>6 DEF IInv

LEMMA RecursiveReadPreserves ==
  ASSUME IInv, NEW t \in Threads, RecursiveRead(t)
  PROVE  IInv'
<1>1. TypeOK'
  BY ThreadFacts DEF IInv, TypeOK, RecursiveRead, tickets, writer, waiters
<1>2. QueueInv'
  BY QueueStays DEF IInv, RecursiveRead, waiters
<1>3. WriterInv'
  <2>1. writer_thread # NoThread => num_readers = 0 /\ my_read_count[t] = 0
    BY ThreadFacts, CountFacts DEF IInv, WriterInv, RecursiveRead
  <2> QED
    BY <2>1, ThreadFacts DEF IInv, WriterInv, RecursiveRead, writer, waiters
<1>4. WaitInv'
  BY DEF IInv, TypeOK, WaitInv, InQueue, RecursiveRead, writer, waiters
<1>5. CountInv'
  <2>1. t # writer_thread /\ my_read_count \in Counts /\ my_read_count[t] < MaxDepth
    BY ThreadFacts DEF RecursiveRead
  <2>2. Cardinality(Reads(my_read_count', writer_thread)) = num_readers + 1
    BY <2>1, OneMoreRead DEF RecursiveRead, IInv, CountInv
  <2> QED
    BY <2>2 DEF RecursiveRead, CountInv, writer
<1>6. WakeupsAreNotLost'
  BY DEF IInv, TypeOK, WaitInv, WakeupsAreNotLost, MayProceed, MayRead, MayWrite, RecursiveRead,
         tickets, writer, waiters
<1> QED
  BY <1>1, <1>2, <1>3, <1>4, <1>5, <1>6 DEF IInv

LEMMA RecursiveWritePreserves ==
  ASSUME IInv, NEW t \in Threads, RecursiveWrite(t)
  PROVE  IInv'
<1>1. TypeOK'
  BY ThreadFacts DEF IInv, TypeOK, RecursiveWrite, tickets, waiters
<1>2. QueueInv'
  BY QueueStays DEF IInv, RecursiveWrite, waiters
<1>3. WriterInv'
  BY DEF IInv, TypeOK, WriterInv, IsWriter, RecursiveWrite, waiters
<1>4. WaitInv'
  BY DEF IInv, TypeOK, WaitInv, InQueue, RecursiveWrite, waiters
<1>5. CountInv'
  BY DEF IInv, CountInv, RecursiveWrite
<1>6. WakeupsAreNotLost'
  BY DEF IInv, TypeOK, WaitInv, WakeupsAreNotLost, MayProceed, MayRead, MayWrite, IsWriter,
         RecursiveWrite, tickets, waiters
<1> QED
  BY <1>1, <1>2, <1>3, <1>4, <1>5, <1>6 DEF IInv

LEMMA SleepsAgainPreserves ==
  ASSUME IInv, NEW t \in Threads, pc[t] # "running", ~MayProceed(t), SleepsAgain(t)
  PROVE  IInv'
<1>1. TypeOK'
  BY DEF IInv, TypeOK, SleepsAgain, tickets, writer
<1>2. QueueInv'
  BY QueueStays DEF IInv, SleepsAgain
<1>3. WriterInv' /\ CountInv'
  BY DEF IInv, WriterInv, CountInv, SleepsAgain, writer
<1>4. WaitInv'
  BY DEF IInv, WaitInv, SleepsAgain
<1>5. WakeupsAreNotLost'
  BY DEF IInv, WakeupsAreNotLost, MayProceed, MayRead, MayWrite, SleepsAgain, tickets, writer
<1> QED
  BY <1>1, <1>2, <1>3, <1>4, <1>5 DEF IInv

LEMMA SpuriousWakeupPreserves ==
  ASSUME IInv, NEW t \in Threads, SpuriousWakeup(t)
  PROVE  IInv'
<1>1. TypeOK'
  BY DEF IInv, TypeOK, SpuriousWakeup, tickets, writer
<1>2. QueueInv'
  BY QueueStays DEF IInv, SpuriousWakeup
<1>3. WriterInv' /\ CountInv'
  BY DEF IInv, WriterInv, CountInv, SpuriousWakeup, writer
<1>4. WaitInv'
  BY DEF IInv, WaitInv, SpuriousWakeup
<1>5. WakeupsAreNotLost'
  BY DEF IInv, WakeupsAreNotLost, MayProceed, MayRead, MayWrite, SpuriousWakeup, tickets, writer
<1> QED
  BY <1>1, <1>2, <1>3, <1>4, <1>5 DEF IInv

(* With an upgrade pending a thread waits that has reads; so there is no     *)
(* upgrader when nobody reads, and none when no upgrade is pending.         *)
LEMMA UpgraderFacts ==
  ASSUME IInv, NEW t \in Threads, pc[t] = "upgrading"
  PROVE  upgrade_pending /\ writer_thread = NoThread /\ num_readers > 0 /\ my_read_count[t] > 0
<1>1. upgrade_pending /\ writer_thread = NoThread /\ my_read_count[t] > 0
  BY DEF IInv, WaitInv, WriterInv
<1>2. my_read_count[t] <= num_readers
  BY <1>1, ThreadFacts, CountFacts DEF IInv
<1> QED
  BY <1>1, <1>2, ThreadFacts

(* A thread that is let in while it waits is the head of the queue.         *)
LEMMA ServedFromQueue ==
  ASSUME IInv, NEW t \in Threads, pc[t] \in InQueue, ticket[t] = serving_ticket
  PROVE  queue # <<>> /\ Head(queue) = t
  BY OnlyHeadIsServed DEF IInv, HeadIsNext

(* After a step that served the head, no sleeper has the next ticket.       *)
LEMMA NextIsAwake ==
  ASSUME (TypeOK /\ QueueInv)', NEW q, queue' = q,
         q # <<>> => Head(q) \notin asleep'
  PROVE  \A u \in asleep' : pc'[u] \in InQueue => ticket'[u] # serving_ticket'
  BY OnlyHeadIsServedNext DEF HeadIsNext, TypeOK

LEMMA BecomesReaderTypes ==
  ASSUME IInv, NEW t \in Threads, my_read_count[t] = 0, NEW q \in Seq(Threads), q # <<>>,
         BecomesReader(t, q), next_ticket' \in 0 .. MaxTicket
  PROVE  TypeOK'
<1>1. Tail(q) \in Seq(Threads)
  OBVIOUS
<1>2. Inc(serving_ticket) \in 0 .. MaxTicket
  BY RwLockAssumption DEF IInv, TypeOK, Inc
<1>3. my_read_count' \in [Threads -> 0 .. MaxDepth] /\ num_readers' \in Nat
  BY ThreadFacts DEF IInv, TypeOK, BecomesReader
<1>4. /\ queue' \in Seq(Threads) /\ serving_ticket' \in 0 .. MaxTicket
      /\ ticket' \in [Threads -> 0 .. MaxTicket]
  BY <1>1, <1>2, RwLockAssumption DEF IInv, TypeOK, BecomesReader, Dequeued
<1>5. /\ pc' \in [Threads -> {"running", "reading", "writing", "upgrading"}]
      /\ asleep' \subseteq Threads
  BY DEF IInv, TypeOK, BecomesReader, Dequeued
<1> QED
  BY <1>3, <1>4, <1>5 DEF IInv, TypeOK, BecomesReader, writer

LEMMA BecomesReaderPreserves ==
  ASSUME IInv, NEW t \in Threads, my_read_count[t] = 0, NEW q \in Seq(Threads), q # <<>>,
         BecomesReader(t, q), next_ticket' \in 0 .. MaxTicket,
         write_recursion = 0, ~upgrade_pending, QueueInv'
  PROVE  IInv'
<1>1. TypeOK'
  BY BecomesReaderTypes
<1>2. writer_thread = NoThread
  BY DEF IInv, WriterInv
<1>3. WriterInv'
  BY <1>2 DEF IInv, WriterInv, BecomesReader, writer
<1>4. WaitInv'
  BY ThreadFacts DEF IInv, TypeOK, WaitInv, InQueue, BecomesReader, Dequeued
<1>5. CountInv'
  <2>1. t # writer_thread /\ my_read_count \in Counts /\ my_read_count[t] < MaxDepth
    BY <1>2, ThreadFacts
  <2>2. Cardinality(Reads(my_read_count', writer_thread)) = num_readers + 1
    BY <2>1, OneMoreRead DEF BecomesReader, IInv, CountInv
  <2> QED
    BY <2>2 DEF BecomesReader, CountInv, writer
<1>6. WakeupsAreNotLost'
  <2>1. \A u \in asleep' : pc'[u] \in InQueue => ticket'[u] # serving_ticket'
    BY <1>1, NextIsAwake DEF BecomesReader, Dequeued, First
  <2>2. \A u \in Threads : pc'[u] # "upgrading"
    BY DEF IInv, TypeOK, WaitInv, BecomesReader, Dequeued
  <2> QED
    BY <1>1, <2>1, <2>2 DEF TypeOK, WakeupsAreNotLost, MayProceed, MayRead, MayWrite, InQueue
<1> QED
  BY <1>1, <1>3, <1>4, <1>5, <1>6 DEF IInv

LEMMA FirstReadPreserves ==
  ASSUME IInv, NEW t \in Threads, FirstRead(t)
  PROVE  IInv'
<1>1. pc[t] = "running" /\ my_read_count[t] = 0 /\ next_ticket' = Inc(next_ticket)
  BY DEF FirstRead
<1>2. next_ticket' \in 0 .. MaxTicket
  BY <1>1, RwLockAssumption DEF IInv, TypeOK, Inc
<1>3. CASE MayRead(next_ticket) /\ BecomesReader(t, Append(queue, t))
  <2>1. queue = <<>>
    BY <1>1, <1>3, NewcomerIsServed DEF IInv, MayRead, InQueue
  <2>2. QueueInv'
    BY <1>1, <1>3, <2>1, QueuePasses DEF IInv, BecomesReader
  <2>3. Append(queue, t) \in Seq(Threads) /\ Append(queue, t) # <<>>
    BY AppendFits DEF IInv, TypeOK
  <2> QED
    BY <1>1, <1>2, <1>3, <2>2, <2>3, BecomesReaderPreserves DEF MayRead
<1>4. CASE /\ ~MayRead(next_ticket) /\ Queued(t, "reading", asleep)
           /\ UNCHANGED <<serving_ticket, writer, num_readers, upgrade_pending, my_read_count>>
  <2>1. TypeOK'
    BY <1>2, <1>4 DEF IInv, TypeOK, Queued, writer
  <2>2. QueueInv'
    BY <1>1, <1>4, QueueJoins DEF IInv, InQueue
  <2>3. WriterInv'
    <3>1. writer_thread # t
      BY <1>1, ThreadFacts DEF FirstRead
    <3>2. writer_thread # NoThread => pc'[writer_thread] = pc[writer_thread]
      BY <1>4, <3>1 DEF IInv, TypeOK, Queued
    <3> QED
      BY <1>4, <3>2 DEF IInv, WriterInv, writer
  <2>4. WaitInv'
    BY <1>1, <1>4 DEF IInv, TypeOK, WaitInv, InQueue, Queued
  <2>5. CountInv'
    BY <1>4 DEF IInv, CountInv, writer
  <2>6. WakeupsAreNotLost'
    BY <1>1, <1>4 DEF IInv, TypeOK, WakeupsAreNotLost, MayProceed, MayRead, MayWrite, Queued,
                      writer
  <2> QED
    BY <2>1, <2>2, <2>3, <2>4, <2>5, <2>6 DEF IInv
<1> QED
  BY <1>3, <1>4 DEF FirstRead

LEMMA ReaderWakesPreserves ==
  ASSUME IInv, NEW t \in Threads, ReaderWakes(t)
  PROVE  IInv'
<1>1. pc[t] = "reading" /\ my_read_count[t] = 0
  BY DEF ReaderWakes, IInv, WaitInv, InQueue
<1>2. CASE MayRead(ticket[t]) /\ BecomesReader(t, queue) /\ UNCHANGED next_ticket
  <2>1. queue # <<>> /\ Head(queue) = t
    BY <1>1, <1>2, ServedFromQueue DEF MayRead, InQueue
  <2>2. QueueInv'
    BY <1>2, <2>1, QueueServes DEF IInv, BecomesReader
  <2>3. next_ticket' \in 0 .. MaxTicket /\ queue \in Seq(Threads)
    BY <1>2 DEF IInv, TypeOK
  <2> QED
    BY <1>1, <1>2, <2>1, <2>2, <2>3, BecomesReaderPreserves DEF MayRead
<1>3. CASE ~MayRead(ticket[t]) /\ SleepsAgain(t)
  <2>1. ~MayProceed(t)
    BY <1>1, <1>3 DEF MayProceed
  <2> QED
    BY <1>1, <1>3, <2>1, SleepsAgainPreserves
<1> QED
  BY <1>2, <1>3 DEF ReaderWakes

LEMMA ConvertedPreserves ==
  ASSUME IInv, NEW t \in Threads, pc[t] \in {"running", "upgrading"}, my_read_count[t] > 0,
         writer_thread # t, ~(num_readers > my_read_count[t]),
         \A u \in Threads \ {t} : pc[u] # "upgrading", Converted(t)
  PROVE  IInv'
<1>1. TypeOK'
  <2>1. num_readers - my_read_count[t] \in Nat
    BY ThreadFacts, CountFacts DEF IInv
  <2>2. my_read_count' \in [Threads -> 0 .. MaxDepth] /\ write_recursion' \in 0 .. MaxDepth
    BY RwLockAssumption DEF IInv, TypeOK, Converted
  <2>3. /\ pc' \in [Threads -> {"running", "reading", "writing", "upgrading"}]
        /\ asleep' \subseteq Threads
    BY DEF IInv, TypeOK, Converted
  <2> QED
    BY <2>1, <2>2, <2>3 DEF IInv, TypeOK, Converted, tickets
<1>2. QueueInv'
  BY QueueStays DEF IInv, TypeOK, InQueue, Converted
<1>3. writer_thread = NoThread
  <2>1. my_read_count[t] <= num_readers
    BY ThreadFacts, CountFacts DEF IInv
  <2> QED
    BY <2>1, ThreadFacts DEF IInv, WriterInv
<1>4. num_readers' = 0
  BY ThreadFacts, CountFacts DEF IInv, Converted
<1>5. WriterInv'
  BY <1>4, ThreadFacts DEF IInv, TypeOK, WriterInv, Converted
<1>6. WaitInv'
  BY ThreadFacts DEF IInv, TypeOK, WaitInv, InQueue, Converted
<1>7. CountInv'
  <2>1. my_read_count' \in Counts /\ my_read_count'[t] = 0 /\ writer_thread' = t
    BY <1>1, ThreadFacts DEF IInv, TypeOK, Converted, Counts
  <2>2. Cardinality(Reads(my_read_count', writer_thread)) = num_readers'
    BY <1>3, ThreadFacts, ReadsGivenUp DEF Converted
  <2>3. NoThread \notin Threads
    BY RwLockAssumption
  <2>4. Reads(my_read_count', t) = Reads(my_read_count', NoThread)
    BY <2>1, <2>3, WriterChanges
  <2> QED
    BY <1>3, <2>1, <2>2, <2>4 DEF CountInv
<1>8. WakeupsAreNotLost'
  BY DEF IInv, TypeOK, WakeupsAreNotLost, MayProceed, MayRead, MayWrite, Converted
<1> QED
  BY <1>1, <1>2, <1>5, <1>6, <1>7, <1>8 DEF IInv

LEMMA StartUpgradePreserves ==
  ASSUME IInv, NEW t \in Threads, StartUpgrade(t)
  PROVE  IInv'
<1>1. /\ pc[t] = "running" /\ my_read_count[t] > 0 /\ ~upgrade_pending /\ writer_thread # t
  BY ThreadFacts DEF StartUpgrade
<1>2. \A u \in Threads : pc[u] # "upgrading"
  BY <1>1 DEF IInv, WaitInv
<1>3. CASE ~(num_readers > my_read_count[t]) /\ Converted(t)
  BY <1>1, <1>2, <1>3, ConvertedPreserves
<1>4. CASE /\ num_readers > my_read_count[t]
           /\ upgrade_pending' = TRUE
           /\ pc' = [pc EXCEPT ![t] = "upgrading"]
           /\ asleep' = asleep \cup {t}
           /\ UNCHANGED <<tickets, writer, num_readers, my_read_count, queue, ticket>>
  <2>1. TypeOK'
    BY <1>4 DEF IInv, TypeOK, tickets, writer
  <2>2. QueueInv'
    BY <1>1, <1>4, QueueStays DEF IInv, TypeOK, InQueue
  <2>3. WriterInv'
    <3>1. writer_thread = NoThread
      BY <1>4, ThreadFacts DEF IInv, WriterInv
    <3> QED
      BY <1>4, <3>1 DEF IInv, WriterInv, writer
  <2>4. WaitInv'
    BY <1>1, <1>2, <1>4 DEF IInv, TypeOK, WaitInv, InQueue
  <2>5. CountInv'
    BY <1>4 DEF IInv, CountInv, writer
  <2>6. WakeupsAreNotLost'
    BY <1>1, <1>4 DEF IInv, TypeOK, WakeupsAreNotLost, MayProceed, MayRead, MayWrite, tickets,
                      writer
  <2> QED
    BY <2>1, <2>2, <2>3, <2>4, <2>5, <2>6 DEF IInv
<1> QED
  BY <1>3, <1>4 DEF StartUpgrade

LEMMA UpgraderWakesPreserves ==
  ASSUME IInv, NEW t \in Threads, UpgraderWakes(t)
  PROVE  IInv'
<1>1. pc[t] = "upgrading" /\ my_read_count[t] > 0 /\ writer_thread # t
  BY ThreadFacts, UpgraderFacts DEF UpgraderWakes
<1>2. \A u \in Threads \ {t} : pc[u] # "upgrading"
  BY <1>1 DEF IInv, WaitInv
<1>3. CASE ~(num_readers > my_read_count[t]) /\ Converted(t)
  BY <1>1, <1>2, <1>3, ConvertedPreserves
<1>4. CASE num_readers > my_read_count[t] /\ SleepsAgain(t)
  <2>1. ~MayProceed(t)
    BY <1>1, <1>4 DEF MayProceed
  <2> QED
    BY <1>1, <1>4, <2>1, SleepsAgainPreserves
<1> QED
  BY <1>3, <1>4 DEF UpgraderWakes

LEMMA BecomesWriterPreserves ==
  ASSUME IInv, NEW t \in Threads, my_read_count[t] = 0, NEW q \in Seq(Threads), q # <<>>,
         NEW sleepers \in SUBSET asleep, BecomesWriter(t, q, sleepers),
         next_ticket' \in 0 .. MaxTicket, num_readers = 0, write_recursion = 0,
         UNCHANGED <<num_readers, upgrade_pending, my_read_count>>, QueueInv'
  PROVE  IInv'
<1>1. Tail(q) \in Seq(Threads)
  OBVIOUS
<1>2. TypeOK'
  <2>1. /\ queue' \in Seq(Threads) /\ serving_ticket' \in 0 .. MaxTicket
        /\ ticket' \in [Threads -> 0 .. MaxTicket]
    BY <1>1, RwLockAssumption DEF IInv, TypeOK, BecomesWriter, Dequeued, Inc
  <2>2. /\ pc' \in [Threads -> {"running", "reading", "writing", "upgrading"}]
        /\ asleep' \subseteq Threads
    BY DEF IInv, TypeOK, BecomesWriter, Dequeued
  <2>3. writer_thread' \in Threads /\ write_recursion' \in 0 .. MaxDepth
    BY RwLockAssumption DEF BecomesWriter
  <2> QED
    BY <2>1, <2>2, <2>3 DEF IInv, TypeOK
<1>3. writer_thread = NoThread
  BY DEF IInv, WriterInv
<1>4. ~upgrade_pending
  <2>1. \A u \in Threads : pc[u] # "upgrading"
    BY UpgraderFacts, ThreadFacts
  <2> QED
    BY <2>1 DEF IInv, WaitInv
<1>5. WriterInv'
  BY <1>4, ThreadFacts DEF IInv, TypeOK, WriterInv, BecomesWriter, Dequeued
<1>6. WaitInv'
  BY <1>4 DEF IInv, TypeOK, WaitInv, InQueue, BecomesWriter, Dequeued
<1>7. CountInv'
  <2>1. NoThread \notin Threads /\ my_read_count \in Counts
    BY RwLockAssumption, ThreadFacts
  <2>2. Reads(my_read_count, t) = Reads(my_read_count, NoThread)
    BY <2>1, WriterChanges
  <2> QED
    BY <1>3, <2>2 DEF IInv, CountInv, BecomesWriter
<1>8. WakeupsAreNotLost'
  <2>1. \A u \in Threads : pc'[u] # "upgrading"
    BY <1>4, <1>6 DEF WaitInv
  <2> QED
    BY <1>2, <2>1 DEF TypeOK, WakeupsAreNotLost, MayProceed, MayRead, MayWrite, BecomesWriter
<1> QED
  BY <1>2, <1>5, <1>6, <1>7, <1>8 DEF IInv

LEMMA FirstWritePreserves ==
  ASSUME IInv, NEW t \in Threads, FirstWrite(t)
  PROVE  IInv'
<1>1. /\ pc[t] = "running" /\ my_read_count[t] = 0 /\ next_ticket' = Inc(next_ticket)
      /\ UNCHANGED <<num_readers, upgrade_pending>>
  BY DEF FirstWrite, Contends
<1>2. my_read_count' = my_read_count
  BY <1>1 DEF FirstWrite, Contends, IInv, TypeOK
<1>3. next_ticket' \in 0 .. MaxTicket
  BY <1>1, RwLockAssumption DEF IInv, TypeOK, Inc
<1>4. CASE MayWrite(next_ticket, num_readers) /\ BecomesWriter(t, Append(queue, t), asleep)
  <2>1. queue = <<>>
    BY <1>1, <1>4, NewcomerIsServed DEF IInv, MayWrite, InQueue
  <2>2. QueueInv'
    BY <1>1, <1>4, <2>1, QueuePasses DEF IInv, BecomesWriter
  <2>3. Append(queue, t) \in Seq(Threads) /\ Append(queue, t) # <<>>
    BY AppendFits DEF IInv, TypeOK
  <2> QED
    BY <1>1, <1>2, <1>3, <1>4, <2>2, <2>3, BecomesWriterPreserves DEF MayWrite
<1>5. CASE /\ ~MayWrite(next_ticket, num_readers) /\ Queued(t, "writing", asleep)
           /\ UNCHANGED <<serving_ticket, writer>>
  <2>1. TypeOK'
    BY <1>1, <1>2, <1>3, <1>5 DEF IInv, TypeOK, Queued, writer
  <2>2. QueueInv'
    BY <1>1, <1>5, QueueJoins DEF IInv, InQueue
  <2>3. WriterInv'
    <3>1. writer_thread # t
      BY <1>1, ThreadFacts DEF FirstWrite
    <3>2. writer_thread # NoThread => pc'[writer_thread] = pc[writer_thread]
      BY <1>5, <3>1 DEF IInv, TypeOK, Queued
    <3> QED
      BY <1>1, <1>5, <3>2 DEF IInv, WriterInv, writer
  <2>4. WaitInv'
    BY <1>1, <1>2, <1>5 DEF IInv, TypeOK, WaitInv, InQueue, Queued
  <2>5. CountInv'
    BY <1>1, <1>2, <1>5 DEF IInv, CountInv, writer
  <2>6. WakeupsAreNotLost'
    BY <1>1, <1>2, <1>5 DEF IInv, TypeOK, WakeupsAreNotLost, MayProceed, MayRead, MayWrite,
                            Queued, writer
  <2> QED
    BY <2>1, <2>2, <2>3, <2>4, <2>5, <2>6 DEF IInv
<1> QED
  BY <1>4, <1>5 DEF FirstWrite, Contends

LEMMA SurrenderPreserves ==
  ASSUME IInv, NEW t \in Threads, Surrender(t)
  PROVE  IInv' /\ Queued(t, "writing", asleep \ Upgraders)
<1> DEFINE readers == num_readers - my_read_count[t]
<1>1. /\ pc[t] = "running" /\ my_read_count[t] > 0 /\ next_ticket' = Inc(next_ticket)
      /\ num_readers' = readers /\ my_read_count' = [my_read_count EXCEPT ![t] = 0]
      /\ UNCHANGED upgrade_pending /\ upgrade_pending
  BY DEF Surrender, Contends
<1>2. writer_thread = NoThread
  BY <1>1 DEF IInv, WriterInv
<1>3. PICK u \in Threads : pc[u] = "upgrading"
  BY <1>1 DEF IInv, WaitInv
<1>4. u # t /\ u # NoThread /\ t # NoThread /\ my_read_count[u] > 0
  BY <1>1, <1>3, ThreadFacts, UpgraderFacts
<1>5. readers \in Nat /\ readers # 0
  <2>1. num_readers > my_read_count[t]
    BY <1>2, <1>4, CountFacts, ThreadFacts DEF IInv
  <2> QED
    BY <2>1, ThreadFacts
<1>6. /\ Queued(t, "writing", asleep \ Upgraders)
      /\ UNCHANGED <<serving_ticket, writer>>
  BY <1>5 DEF Surrender, Contends, MayWrite
<1>7. next_ticket' \in 0 .. MaxTicket
  BY <1>1, RwLockAssumption DEF IInv, TypeOK, Inc
<1>8. TypeOK'
  <2>1. my_read_count' \in [Threads -> 0 .. MaxDepth]
    BY <1>1, ThreadFacts DEF IInv, TypeOK
  <2> QED
    BY <1>1, <1>5, <1>6, <1>7, <2>1 DEF IInv, TypeOK, Queued, writer
<1>9. QueueInv'
  BY <1>1, <1>6, QueueJoins DEF IInv, InQueue
<1>10. WriterInv'
  BY <1>1, <1>2, <1>6 DEF IInv, WriterInv, writer
<1>11. WaitInv'
  <2>1. \A v \in Threads : pc'[v] = "upgrading" <=> pc[v] = "upgrading"
    BY <1>1, <1>6 DEF IInv, TypeOK, Queued
  <2>2. /\ pc' = [pc EXCEPT ![t] = "writing"] /\ DOMAIN pc = Threads
        /\ my_read_count \in Counts /\ WaitInv
        /\ asleep' = (asleep \ Upgraders) \cup {t} /\ asleep \subseteq Threads
    BY <1>6, ThreadFacts DEF IInv, TypeOK, Queued, Counts
  <2>3. ASSUME NEW v \in Threads PROVE pc'[v] \in InQueue => my_read_count'[v] = 0
    BY <1>1, <2>2, RwLockAssumption DEF WaitInv, Counts, InQueue
  <2>4. ASSUME NEW v \in Threads, pc'[v] = "upgrading"
        PROVE  my_read_count'[v] > 0 /\ upgrade_pending'
    BY <1>1, <1>6, <2>1, <2>2, <2>4, RwLockAssumption DEF WaitInv, Counts, Queued
  <2>5. ASSUME NEW v \in asleep' PROVE pc'[v] # "running"
    BY <2>2 DEF WaitInv
  <2>6. upgrade_pending' => \E v \in Threads : pc'[v] = "upgrading"
    BY <1>1, <2>1, <2>2 DEF WaitInv
  <2>7. ASSUME NEW v \in Threads, NEW y \in Threads, pc'[v] = "upgrading", pc'[y] = "upgrading"
        PROVE  v = y
    BY <2>1, <2>2, <2>7 DEF WaitInv
  <2> QED
    BY <2>3, <2>4, <2>5, <2>6, <2>7 DEF WaitInv
<1>12. CountInv'
  <2>1. /\ my_read_count \in Counts /\ t # NoThread
        /\ num_readers = Cardinality(Reads(my_read_count, NoThread))
    BY <1>2, ThreadFacts
  <2>2. Cardinality(Reads([my_read_count EXCEPT ![t] = 0], NoThread))
        = Cardinality(Reads(my_read_count, NoThread)) - my_read_count[t]
    BY <2>1, ReadsGivenUp
  <2>3. Cardinality(Reads(my_read_count', NoThread)) = num_readers - my_read_count[t]
    BY <1>1, <2>1, <2>2
  <2> QED
    BY <1>1, <1>2, <1>6, <2>3 DEF CountInv, writer
<1>13. WakeupsAreNotLost'
  <2>1. \A v \in asleep' : pc'[v] # "upgrading"
    BY <1>1, <1>6 DEF IInv, TypeOK, Queued, Upgraders
  <2> QED
    BY <1>1, <1>5, <2>1 DEF WakeupsAreNotLost, MayProceed, MayRead, MayWrite
<1> QED
  BY <1>6, <1>8, <1>9, <1>10, <1>11, <1>12, <1>13 DEF IInv

LEMMA WriterWakesPreserves ==
  ASSUME IInv, NEW t \in Threads, WriterWakes(t)
  PROVE  IInv'
<1>1. pc[t] = "writing" /\ my_read_count[t] = 0
  BY DEF WriterWakes, IInv, WaitInv, InQueue
<1>2. CASE /\ MayWrite(ticket[t], num_readers) /\ BecomesWriter(t, queue, asleep)
           /\ UNCHANGED <<next_ticket, num_readers, upgrade_pending, my_read_count>>
  <2>1. queue # <<>> /\ Head(queue) = t
    BY <1>1, <1>2, ServedFromQueue DEF MayWrite, InQueue
  <2>2. QueueInv'
    BY <1>2, <2>1, QueueServes DEF IInv, BecomesWriter
  <2>3. next_ticket' \in 0 .. MaxTicket /\ queue \in Seq(Threads)
    BY <1>2 DEF IInv, TypeOK
  <2> QED
    BY <1>1, <1>2, <2>1, <2>2, <2>3, BecomesWriterPreserves DEF MayWrite
<1>3. CASE ~MayWrite(ticket[t], num_readers) /\ SleepsAgain(t)
  <2>1. ~MayProceed(t)
    BY <1>1, <1>3 DEF MayProceed
  <2> QED
    BY <1>1, <1>3, <2>1, SleepsAgainPreserves
<1> QED
  BY <1>2, <1>3 DEF WriterWakes

LEMMA UnlockWritePreserves ==
  ASSUME IInv, NEW t \in Threads, UnlockWrite(t)
  PROVE  IInv'
<1>1. /\ pc[t] = "running" /\ writer_thread = t /\ my_read_count[t] = 0
      /\ write_recursion \in 1 .. MaxDepth /\ write_recursion' = write_recursion - 1
      /\ writer_thread' = IF write_recursion = 1 THEN NoThread ELSE t
      /\ num_readers = 0 /\ ~upgrade_pending /\ t # NoThread
  BY ThreadFacts DEF UnlockWrite, IInv, TypeOK, WriterInv, IsWriter
<1>2. TypeOK'
  <2>1. write_recursion' \in 0 .. MaxDepth /\ writer_thread' \in Threads \cup {NoThread}
    BY <1>1, RwLockAssumption
  <2> QED
    BY <2>1 DEF IInv, TypeOK, UnlockWrite, tickets
<1>3. QueueInv'
  BY QueueStays DEF IInv, UnlockWrite
<1>4. WriterInv'
  BY <1>1 DEF IInv, WriterInv, UnlockWrite
<1>5. WaitInv'
  BY DEF IInv, WaitInv, UnlockWrite
<1>6. CountInv'
  <2>1. NoThread \notin Threads /\ my_read_count \in Counts
    BY RwLockAssumption, ThreadFacts
  <2>2. Reads(my_read_count, t) = Reads(my_read_count, NoThread)
    BY <1>1, <2>1, WriterChanges
  <2> QED
    BY <1>1, <2>2 DEF IInv, CountInv, UnlockWrite
<1>7. WakeupsAreNotLost'
  <2>1. CASE write_recursion = 1
    <3>1. queue' = queue /\ (queue # <<>> => Head(queue) \notin asleep')
      BY <1>1, <2>1 DEF UnlockWrite, SignalledIfFree, First
    <3>2. \A u \in asleep' : pc'[u] \in InQueue => ticket'[u] # serving_ticket'
      BY <1>2, <1>3, <3>1, NextIsAwake
    <3>3. \A u \in Threads : pc'[u] # "upgrading"
      BY <1>1, <1>5 DEF UnlockWrite, WaitInv
    <3> QED
      BY <1>2, <3>2, <3>3 DEF TypeOK, WakeupsAreNotLost, MayProceed, MayRead, MayWrite, InQueue
  <2>2. CASE write_recursion # 1
    BY <1>1, <2>2 DEF IInv, WakeupsAreNotLost, MayProceed, MayRead, MayWrite, UnlockWrite, tickets
  <2> QED
    BY <2>1, <2>2
<1> QED
  BY <1>2, <1>3, <1>4, <1>5, <1>6, <1>7 DEF IInv

LEMMA UnlockReadPreserves ==
  ASSUME IInv, NEW t \in Threads, UnlockRead(t)
  PROVE  IInv'
<1>1. /\ pc[t] = "running" /\ writer_thread # t /\ my_read_count[t] > 0
      /\ num_readers' = num_readers - 1
      /\ my_read_count' = [my_read_count EXCEPT ![t] = @ - 1]
  BY ThreadFacts DEF UnlockRead
<1>2. my_read_count[t] <= num_readers /\ writer_thread = NoThread
  <2>1. my_read_count[t] <= num_readers /\ num_readers # 0
    BY <1>1, ThreadFacts, CountFacts DEF IInv
  <2> QED
    BY <2>1 DEF IInv, WriterInv
<1>3. TypeOK'
  <2>1. num_readers' \in Nat /\ my_read_count' \in [Threads -> 0 .. MaxDepth]
    BY <1>1, <1>2, ThreadFacts DEF IInv, TypeOK
  <2> QED
    BY <2>1 DEF IInv, TypeOK, UnlockRead, tickets, writer
<1>4. QueueInv'
  BY QueueStays DEF IInv, UnlockRead
<1>5. WriterInv'
  BY <1>2 DEF IInv, WriterInv, UnlockRead, writer
<1>6. WaitInv'
  BY <1>1, ThreadFacts DEF IInv, TypeOK, WaitInv, InQueue, UnlockRead
<1>7. CountInv'
  <2>1. Cardinality(Reads(my_read_count', writer_thread)) = num_readers - 1
    BY <1>1, ThreadFacts, OneReadLess
  <2> QED
    BY <1>1, <2>1 DEF CountInv, UnlockRead, writer
<1>8. WakeupsAreNotLost'
  <2> SUFFICES ASSUME NEW u \in asleep', MayProceed(u)'
               PROVE  FALSE
    BY DEF WakeupsAreNotLost
  <2>1. u \in asleep /\ u \in Threads /\ ~MayProceed(u) /\ u # t
    BY <1>1 DEF IInv, TypeOK, WaitInv, WakeupsAreNotLost, UnlockRead
  <2>2. CASE pc[u] = "upgrading"
    BY <2>1, <2>2, UpgraderFacts DEF UnlockRead, Upgraders
  <2>3. CASE pc[u] = "reading"
    BY <2>1, <2>3 DEF MayProceed, MayRead, UnlockRead, tickets, writer
  <2>4. CASE pc[u] = "writing"
    <3>1. num_readers' = 0 /\ write_recursion = 0 /\ ticket'[u] = serving_ticket'
      BY <2>4 DEF MayProceed, MayWrite, UnlockRead, writer
    <3>2. queue' = queue /\ (queue # <<>> => Head(queue) \notin asleep')
      BY <1>1, <3>1 DEF UnlockRead, SignalledIfFree, First
    <3>3. pc'[u] \in InQueue => ticket'[u] # serving_ticket'
      BY <1>3, <1>4, <3>2, NextIsAwake
    <3> QED
      BY <2>4, <3>1, <3>3 DEF InQueue, UnlockRead
  <2> QED
    BY <2>1, <2>2, <2>3, <2>4 DEF MayProceed, UnlockRead
<1> QED
  BY <1>3, <1>4, <1>5, <1>6, <1>7, <1>8 DEF IInv

LEMMA RenewPreserves ==
  ASSUME IInv, Renew
  PROVE  IInv'
<1>1. queue = <<>> /\ queue' = <<>> /\ DOMAIN queue = {} /\ Len(queue) = 0
  BY DEF Renew, waiters
<1>2. TypeOK'
  BY RwLockAssumption DEF IInv, TypeOK, Renew, writer, waiters
<1>3. \A t \in Threads : pc[t] \notin InQueue
  BY <1>1 DEF IInv, QueueInv
<1>4. QueueInv'
  BY <1>1, <1>3, RwLockAssumption DEF QueueInv, Renew, waiters, TicketAt, Wrap
<1>5. WriterInv' /\ WaitInv' /\ CountInv'
  BY DEF IInv, WriterInv, WaitInv, CountInv, Renew, writer, waiters
<1>6. WakeupsAreNotLost'
  BY <1>3 DEF IInv, TypeOK, WakeupsAreNotLost, MayProceed, InQueue, Renew, writer, waiters
<1> QED
  BY <1>2, <1>4, <1>5, <1>6 DEF IInv

LEMMA StutterPreserves ==
  ASSUME IInv, UNCHANGED vars
  PROVE  IInv'
  BY DEF vars, IInv, TypeOK, QueueInv, TicketAt, Wrap, WriterInv, IsWriter, WaitInv, CountInv,
         WakeupsAreNotLost, MayProceed, MayRead, MayWrite

LEMMA InitEstablishes == Init => IInv
<1> SUFFICES ASSUME Init
             PROVE  IInv
  OBVIOUS
<1>1. TypeOK
  <2>1. 0 \in 0 .. MaxTicket /\ 0 \in 0 .. MaxDepth
    BY RwLockAssumption
  <2>2. queue \in Seq(Threads) /\ num_readers \in Nat
    BY DEF Init
  <2> QED
    BY <2>1, <2>2 DEF Init, TypeOK
<1>5. WaitInv /\ WakeupsAreNotLost
  BY DEF Init, WaitInv, InQueue, WakeupsAreNotLost
<1>2. QueueInv
  BY RwLockAssumption DEF Init, QueueInv, InQueue, TicketAt, Wrap
<1>3. WriterInv
  BY DEF Init, WriterInv
<1>4. CountInv
  <2>1. Reads(my_read_count, writer_thread) = {}
    BY DEF Init, Reads
  <2> QED
    BY <2>1, FS_EmptySet DEF Init, CountInv
<1> QED
  BY <1>1, <1>2, <1>3, <1>4, <1>5 DEF IInv

LEMMA NextPreserves == IInv /\ [Next]_vars => IInv'
<1> SUFFICES ASSUME IInv, [Next]_vars
             PROVE  IInv'
  OBVIOUS
<1>1. ASSUME NEW t \in Threads, Locks(t)
      PROVE  IInv'
  BY <1>1, NestedReadPreserves, RecursiveReadPreserves, FirstReadPreserves,
     RecursiveWritePreserves, StartUpgradePreserves, FirstWritePreserves, SurrenderPreserves
     DEF Locks
<1>2. ASSUME NEW t \in Threads, Unlocks(t)
      PROVE  IInv'
  BY <1>2, UnlockNestedReadPreserves, UnlockWritePreserves, UnlockReadPreserves DEF Unlocks
<1>3. ASSUME NEW t \in Threads, Wakes(t)
      PROVE  IInv'
  BY <1>3, ReaderWakesPreserves, UpgraderWakesPreserves, WriterWakesPreserves DEF Wakes
<1> QED
  BY <1>1, <1>2, <1>3, SpuriousWakeupPreserves, RenewPreserves, StutterPreserves DEF Next

-----------------------------------------------------------------------------
(* The theorems.                                                            *)

LEMMA Invariant == Spec => []IInv
  BY InitEstablishes, NextPreserves, PTL DEF Spec

(* The fields of clib_rwlock.c keep their ranges: no count goes below zero  *)
(* and no ticket beyond the last.                                           *)
THEOREM TypeCorrect == Spec => []TypeOK
<1>1. IInv => TypeOK
  BY DEF IInv
<1> QED
  BY <1>1, Invariant, PTL

(* While one thread holds the lock for writing no other thread holds it at  *)
(* all, however clib__read_lock, clib__write_lock and clib__unlock nest,    *)
(* upgrade and surrender.                                                   *)
THEOREM WritersAreAlone == Spec => []Exclusion
<1>1. IInv => Exclusion
  <2> SUFFICES ASSUME IInv, NEW t \in Threads, NEW u \in Threads, t # u, IsWriter(t)
               PROVE  my_read_count[u] = 0
    BY DEF Exclusion
  <2>1. writer_thread = t /\ num_readers = 0
    BY ThreadFacts DEF IInv, WriterInv
  <2> QED
    BY <2>1, CountFacts DEF IInv
<1> QED
  BY <1>1, Invariant, PTL

(* No thread sleeps in pthread_cond_wait on a condition that is true: every *)
(* path that makes one true has signalled its condition variable.           *)
THEOREM NoWakeupIsLost == Spec => []WakeupsAreNotLost
<1>1. IInv => WakeupsAreNotLost
  BY DEF IInv
<1> QED
  BY <1>1, Invariant, PTL

-----------------------------------------------------------------------------
(* The lock implements FifoLock.                                            *)

BarMode == [t \in Threads |-> Mode(t)]
BarLine == [i \in DOMAIN queue |-> <<queue[i], Kind(queue[i])>>]

(* How the abstract steps look through the refinement mapping.              *)
LEMMA AbstractSteps ==
  ASSUME NEW t \in Threads, NEW kind \in {"read", "write"}
  PROVE  /\ /\ BarLine = <<>> /\ BarMode[t] = "none" /\ BarLine' = BarLine
            /\ BarMode' = [BarMode EXCEPT ![t] = kind]
            /\ \A u \in Threads \ {t} :
                 BarMode[u] = "none" \/ (kind = "read" /\ BarMode[u] = "read")
            => Fifo!FifoNext
         /\ /\ ~\E i \in DOMAIN BarLine : BarLine[i][1] = t
            /\ BarMode[t] = "none" \/ (BarMode[t] = "read" /\ kind = "write")
            /\ BarMode' = [BarMode EXCEPT ![t] = "none"]
            /\ BarLine' = Append(BarLine, <<t, kind>>)
            => Fifo!FifoNext
         /\ /\ BarLine # <<>> /\ Head(BarLine) = <<t, kind>>
            /\ BarMode' = [BarMode EXCEPT ![t] = kind]
            /\ BarLine' = Tail(BarLine)
            /\ \A u \in Threads \ {t} :
                 BarMode[u] = "none" \/ (kind = "read" /\ BarMode[u] = "read")
            => Fifo!FifoNext
         /\ /\ BarMode[t] = "read" /\ BarLine' = BarLine
            /\ BarMode' = [BarMode EXCEPT ![t] = "write"]
            /\ \A u \in Threads \ {t} : BarMode[u] = "none"
            => Fifo!FifoNext
         /\ /\ BarMode[t] # "none" /\ BarLine' = BarLine
            /\ BarMode' = [BarMode EXCEPT ![t] = "none"]
            => Fifo!FifoNext
  BY DEF BarMode, BarLine, Fifo!FifoNext, Fifo!FifoStep, Fifo!Kinds, Fifo!Enter, Fifo!Join,
         Fifo!Admit, Fifo!Upgrade, Fifo!Release, Fifo!Compatible, Fifo!Waits

(* The line follows the queue.                                              *)
LEMMA LineStays ==
  ASSUME TypeOK, QueueInv, queue' = queue,
         \A u \in Threads : pc[u] \in InQueue => pc'[u] = pc[u]
  PROVE  BarLine' = BarLine
  BY DEF TypeOK, QueueInv, BarLine, Kind

LEMMA LineJoins ==
  ASSUME TypeOK, QueueInv, NEW t \in Threads, pc[t] \notin InQueue,
         NEW wait \in InQueue, NEW sleepers, Queued(t, wait, sleepers)
  PROVE  /\ BarLine' = Append(BarLine, <<t, IF wait = "reading" THEN "read" ELSE "write">>)
         /\ ~\E i \in DOMAIN BarLine : BarLine[i][1] = t
<1> DEFINE n == Len(queue)
           new == <<t, IF wait = "reading" THEN "read" ELSE "write">>
<1>1. /\ n \in Nat /\ DOMAIN queue = 1 .. n /\ DOMAIN queue' = 1 .. n + 1
      /\ \A i \in 1 .. n : queue'[i] = queue[i] /\ queue[i] \in Threads
      /\ queue'[n + 1] = t
  BY DEF TypeOK, Queued
<1>2. \A i \in DOMAIN queue : queue[i] # t
  BY DEF QueueInv
<1>3. \A i \in 1 .. n : pc'[queue'[i]] = pc[queue[i]]
  BY <1>1, <1>2 DEF TypeOK, Queued
<1>4. pc'[t] = wait
  BY DEF TypeOK, Queued
<1>5. BarLine' = [i \in 1 .. n + 1 |-> IF i = n + 1 THEN new ELSE BarLine[i]]
  <2>1. BarLine' = [i \in 1 .. n + 1 |->
                      <<queue'[i], IF pc'[queue'[i]] = "reading" THEN "read" ELSE "write">>]
    BY <1>1 DEF BarLine, Kind
  <2>2. \A i \in 1 .. n : BarLine[i] = <<queue[i], IF pc[queue[i]] = "reading" THEN "read" ELSE "write">>
    BY <1>1 DEF BarLine, Kind
  <2> QED
    BY <1>1, <1>3, <1>4, <2>1, <2>2
<1>6. BarLine \in Seq(Threads \X {"read", "write"}) /\ Len(BarLine) = n
  BY <1>1 DEF BarLine, Kind
<1>7. Append(BarLine, new) = [i \in 1 .. n + 1 |-> IF i = n + 1 THEN new ELSE BarLine[i]]
  BY <1>1, <1>6
<1>8. ~\E i \in DOMAIN BarLine : BarLine[i][1] = t
  BY <1>2 DEF BarLine
<1> QED
  BY <1>5, <1>7, <1>8

LEMMA LineServes ==
  ASSUME TypeOK, QueueInv, NEW t \in Threads, queue # <<>>, Head(queue) = t,
         NEW sleepers, Dequeued(t, queue, sleepers)
  PROVE  BarLine # <<>> /\ Head(BarLine) = <<t, Kind(t)>> /\ BarLine' = Tail(BarLine)
<1> DEFINE n == Len(queue)
<1>1. /\ n \in Nat /\ n >= 1 /\ DOMAIN queue = 1 .. n /\ DOMAIN queue' = 1 .. n - 1
      /\ \A i \in 1 .. n - 1 : queue'[i] = queue[i + 1] /\ queue'[i] \in Threads
      /\ \A i \in 1 .. n : queue[i] \in Threads
      /\ queue[1] = t
  BY DEF TypeOK, Dequeued
<1>2. \A i \in 1 .. n - 1 : queue'[i] # t
  BY <1>1 DEF QueueInv
<1>3. \A i \in 1 .. n - 1 : pc'[queue'[i]] = pc[queue[i + 1]]
  BY <1>1, <1>2 DEF TypeOK, Dequeued
<1>4. BarLine' = [i \in 1 .. n - 1 |-> <<queue[i + 1], Kind(queue[i + 1])>>]
  <2>1. BarLine' = [i \in 1 .. n - 1 |->
                      <<queue'[i], IF pc'[queue'[i]] = "reading" THEN "read" ELSE "write">>]
    BY <1>1 DEF BarLine, Kind
  <2> QED
    BY <1>1, <1>3, <2>1 DEF Kind
<1>5. BarLine = [i \in 1 .. n |-> <<queue[i], Kind(queue[i])>>]
  BY <1>1 DEF BarLine
<1>6. BarLine \in Seq(Threads \X {"read", "write"}) /\ Len(BarLine) = n
  BY <1>1 DEF BarLine, Kind
<1>7. Tail(BarLine) = [i \in 1 .. n - 1 |-> BarLine[i + 1]]
  <2>1. BarLine # <<>> /\ n \in Nat /\ n >= 1
    BY <1>1, <1>6
  <2> DEFINE S == Threads \X {"read", "write"}
             rest == Tail(BarLine)
  <2>2. BarLine \in Seq(S) /\ Len(BarLine) = n
    BY <1>6
  <2> HIDE DEF n, S
  <2>3. /\ rest \in Seq(S) /\ Len(rest) = n - 1
        /\ \A i \in 1 .. Len(rest) : rest[i] = BarLine[i + 1]
    BY <2>1, <2>2, HeadTailProperties
  <2>4. rest \in [1 .. n - 1 -> S] /\ \A i \in 1 .. n - 1 : rest[i] = BarLine[i + 1]
    <3>1. rest \in [1 .. Len(rest) -> S]
      BY <2>3, LenProperties
    <3> QED
      BY <2>3, <3>1
  <2>5. rest = [i \in 1 .. n - 1 |-> rest[i]]
    BY <2>4
  <2> QED
    BY <2>4, <2>5
<1>8. Tail(BarLine) = [i \in 1 .. n - 1 |-> <<queue[i + 1], Kind(queue[i + 1])>>]
  BY <1>1, <1>5, <1>7
<1>9. BarLine # <<>> /\ Head(BarLine) = <<t, Kind(t)>>
  BY <1>1, <1>5, <1>6
<1> QED
  BY <1>4, <1>8, <1>9

LEMMA LineEmpty ==
  ASSUME queue = <<>>
  PROVE  BarLine = <<>>
  BY DEF BarLine

(* How the threads hold the lock, for the steps that change it for one.     *)
LEMMA ModeStays ==
  ASSUME \A u \in Threads : Mode(u)' = Mode(u)
  PROVE  BarMode' = BarMode
  BY DEF BarMode

LEMMA ModeChanges ==
  ASSUME NEW t \in Threads, NEW kind, Mode(t)' = kind,
         \A u \in Threads \ {t} : Mode(u)' = Mode(u)
  PROVE  BarMode' = [BarMode EXCEPT ![t] = kind]
  BY DEF BarMode

LEMMA Stutters ==
  ASSUME BarMode' = BarMode, BarLine' = BarLine
  PROVE  [Fifo!FifoNext]_(Fifo!fifoVars)
  BY DEF Fifo!fifoVars, BarMode, BarLine

(* Who holds what: without a writer, and when nobody reads.                 *)
LEMMA ModeFacts ==
  ASSUME IInv, NEW t \in Threads
  PROVE  /\ BarMode[t] = Mode(t)
         /\ Mode(t) \in {"none", "read", "write"}
         /\ Mode(t) = "write" <=> writer_thread = t
         /\ Mode(t) = "none" <=> writer_thread # t /\ my_read_count[t] = 0
         /\ write_recursion = 0 => Mode(t) # "write"
         /\ write_recursion = 0 /\ num_readers = 0 => Mode(t) = "none"
<1>1. write_recursion = 0 => writer_thread # t
  BY ThreadFacts DEF IInv, WriterInv
<1>2. writer_thread # t /\ num_readers = 0 => my_read_count[t] = 0
  BY CountFacts DEF IInv
<1> QED
  BY <1>1, <1>2, ThreadFacts DEF BarMode, Mode

LEMMA ReaderEnters ==
  ASSUME IInv, NEW t \in Threads, my_read_count[t] = 0, NEW q, BecomesReader(t, q),
         write_recursion = 0, TypeOK'
  PROVE  /\ BarMode[t] = "none" /\ BarMode' = [BarMode EXCEPT ![t] = "read"]
         /\ \A u \in Threads \ {t} : BarMode[u] \in {"none", "read"}
<1>1. writer_thread = NoThread /\ \A u \in Threads : Mode(u) # "write"
  BY ModeFacts DEF IInv, WriterInv
<1>2. BarMode[t] = "none"
  BY <1>1, ModeFacts, ThreadFacts
<1>3. Mode(t)' = "read"
  BY DEF Mode, IsWriter, BecomesReader, writer, IInv, TypeOK
<1>4. \A u \in Threads \ {t} : Mode(u)' = Mode(u)
  BY DEF Mode, IsWriter, BecomesReader, writer, IInv, TypeOK
<1>5. BarMode' = [BarMode EXCEPT ![t] = "read"]
  BY <1>3, <1>4, ModeChanges
<1>6. \A u \in Threads : BarMode[u] \in {"none", "read"}
  BY <1>1, ModeFacts
<1> QED
  BY <1>2, <1>5, <1>6

LEMMA WriterEnters ==
  ASSUME IInv, NEW t \in Threads, my_read_count[t] = 0, NEW q, NEW sleepers,
         BecomesWriter(t, q, sleepers), my_read_count' = my_read_count,
         write_recursion = 0, num_readers = 0
  PROVE  /\ BarMode' = [BarMode EXCEPT ![t] = "write"]
         /\ \A u \in Threads : BarMode[u] = "none"
<1>1. writer_thread = NoThread /\ \A u \in Threads : Mode(u) = "none"
  BY ModeFacts DEF IInv, WriterInv
<1>2. Mode(t)' = "write"
  BY DEF Mode, IsWriter, BecomesWriter
<1>3. \A u \in Threads \ {t} : Mode(u)' = Mode(u)
  BY <1>1, ThreadFacts DEF Mode, IsWriter, BecomesWriter
<1>4. BarMode' = [BarMode EXCEPT ![t] = "write"]
  BY <1>2, <1>3, ModeChanges
<1> QED
  BY <1>1, <1>4, ModeFacts

LEMMA SleeperStutters ==
  ASSUME IInv, NEW t \in Threads, SleepsAgain(t) \/ SpuriousWakeup(t)
  PROVE  [Fifo!FifoNext]_(Fifo!fifoVars)
<1>1. BarMode' = BarMode
  BY ModeStays DEF SleepsAgain, SpuriousWakeup, Mode, IsWriter, writer
<1>2. BarLine' = BarLine
  BY LineStays DEF IInv, SleepsAgain, SpuriousWakeup
<1> QED
  BY <1>1, <1>2, Stutters

LEMMA NestingStutters ==
  ASSUME IInv, IInv', NEW t \in Threads,
         NestedRead(t) \/ RecursiveRead(t) \/ RecursiveWrite(t) \/ UnlockNestedRead(t)
  PROVE  [Fifo!FifoNext]_(Fifo!fifoVars)
<1>1. BarLine' = BarLine
  BY LineStays DEF IInv, NestedRead, RecursiveRead, RecursiveWrite, UnlockNestedRead, waiters
<1>2. \A u \in Threads : Mode(u)' = Mode(u)
  <2>1. CASE NestedRead(t)
    BY <2>1 DEF IInv, TypeOK, NestedRead, Mode, IsWriter, writer
  <2>2. CASE RecursiveRead(t)
    BY <2>2 DEF IInv, TypeOK, RecursiveRead, Mode, IsWriter, writer
  <2>3. CASE RecursiveWrite(t)
    BY <2>3 DEF IInv, TypeOK, RecursiveWrite, Mode, IsWriter
  <2>4. CASE UnlockNestedRead(t)
    BY <2>4 DEF IInv, TypeOK, UnlockNestedRead, Mode, IsWriter, writer
  <2> QED
    BY <2>1, <2>2, <2>3, <2>4
<1> QED
  BY <1>1, <1>2, ModeStays, Stutters

LEMMA FirstReadRefines ==
  ASSUME IInv, IInv', NEW t \in Threads, FirstRead(t)
  PROVE  Fifo!FifoNext
<1>1. pc[t] = "running" /\ my_read_count[t] = 0 /\ next_ticket' = Inc(next_ticket)
  BY DEF FirstRead
<1>2. CASE MayRead(next_ticket) /\ BecomesReader(t, Append(queue, t))
  <2>1. queue = <<>> /\ queue' = <<>>
    <3>1. queue = <<>>
      BY <1>1, <1>2, NewcomerIsServed DEF IInv, MayRead, InQueue
    <3> QED
      BY <1>1, <1>2, <3>1, QueuePasses DEF IInv, BecomesReader
  <2>2. BarLine = <<>> /\ BarLine' = <<>>
    BY <2>1 DEF BarLine
  <2> QED
    BY <1>1, <1>2, <2>2, ReaderEnters, AbstractSteps DEF MayRead, IInv
<1>3. CASE /\ Queued(t, "reading", asleep)
           /\ UNCHANGED <<serving_ticket, writer, num_readers, upgrade_pending, my_read_count>>
  <2>1. /\ BarLine' = Append(BarLine, <<t, "read">>)
        /\ ~\E i \in DOMAIN BarLine : BarLine[i][1] = t
    BY <1>1, <1>3, LineJoins DEF IInv, InQueue
  <2>2. Mode(t) = "none" /\ \A u \in Threads : Mode(u)' = Mode(u)
    BY <1>1, <1>3 DEF FirstRead, Mode, IsWriter, writer
  <2>3. BarMode[t] = "none" /\ BarMode' = [BarMode EXCEPT ![t] = "none"]
    BY <2>2, ModeChanges, ModeFacts
  <2> QED
    BY <2>1, <2>3, AbstractSteps
<1> QED
  BY <1>2, <1>3 DEF FirstRead

LEMMA ReaderWakesRefines ==
  ASSUME IInv, IInv', NEW t \in Threads, ReaderWakes(t)
  PROVE  [Fifo!FifoNext]_(Fifo!fifoVars)
<1>1. pc[t] = "reading" /\ my_read_count[t] = 0
  BY DEF ReaderWakes, IInv, WaitInv, InQueue
<1>2. CASE MayRead(ticket[t]) /\ BecomesReader(t, queue)
  <2>1. queue # <<>> /\ Head(queue) = t
    BY <1>1, <1>2, ServedFromQueue DEF MayRead, InQueue
  <2>2. BarLine # <<>> /\ Head(BarLine) = <<t, "read">> /\ BarLine' = Tail(BarLine)
    BY <1>1, <1>2, <2>1, LineServes DEF IInv, BecomesReader, Kind
  <2> QED
    BY <1>1, <1>2, <2>2, ReaderEnters, AbstractSteps DEF MayRead, IInv
<1> QED
  BY <1>2, SleeperStutters DEF ReaderWakes

LEMMA ConvertedRefines ==
  ASSUME IInv, IInv', NEW t \in Threads, pc[t] \in {"running", "upgrading"},
         my_read_count[t] > 0, writer_thread # t, ~(num_readers > my_read_count[t]), Converted(t)
  PROVE  Fifo!FifoNext
<1>1. BarLine' = BarLine
  BY LineStays DEF IInv, TypeOK, InQueue, Converted
<1>2. writer_thread = NoThread
  <2>1. my_read_count[t] <= num_readers
    BY ThreadFacts, CountFacts DEF IInv
  <2> QED
    BY <2>1, ThreadFacts DEF IInv, WriterInv
<1>3. \A u \in Threads \ {t} : my_read_count[u] = 0
  BY <1>2, ThreadFacts, CountFacts DEF IInv
<1>4. BarMode[t] = "read" /\ \A u \in Threads \ {t} : BarMode[u] = "none" /\ Mode(u) = "none"
  BY <1>2, <1>3, ModeFacts, ThreadFacts
<1>5. Mode(t)' = "write"
  BY DEF Converted, Mode, IsWriter
<1>6. \A u \in Threads \ {t} : Mode(u)' = "none"
  BY <1>3 DEF IInv, TypeOK, Converted, Mode, IsWriter
<1>7. BarMode' = [BarMode EXCEPT ![t] = "write"]
  BY <1>4, <1>5, <1>6, ModeChanges
<1> QED
  BY <1>1, <1>4, <1>7, AbstractSteps

LEMMA StartUpgradeRefines ==
  ASSUME IInv, IInv', NEW t \in Threads, StartUpgrade(t)
  PROVE  [Fifo!FifoNext]_(Fifo!fifoVars)
<1>1. pc[t] = "running" /\ my_read_count[t] > 0 /\ writer_thread # t
  BY ThreadFacts DEF StartUpgrade
<1>2. CASE ~(num_readers > my_read_count[t]) /\ Converted(t)
  BY <1>1, <1>2, ConvertedRefines
<1>3. CASE /\ pc' = [pc EXCEPT ![t] = "upgrading"]
           /\ UNCHANGED <<tickets, writer, num_readers, my_read_count, queue, ticket>>
  <2>1. BarLine' = BarLine
    BY <1>1, <1>3, LineStays DEF IInv, TypeOK, InQueue
  <2>2. BarMode' = BarMode
    BY <1>3, ModeStays DEF Mode, IsWriter, writer
  <2> QED
    BY <2>1, <2>2, Stutters
<1> QED
  BY <1>2, <1>3 DEF StartUpgrade

LEMMA UpgraderWakesRefines ==
  ASSUME IInv, IInv', NEW t \in Threads, UpgraderWakes(t)
  PROVE  [Fifo!FifoNext]_(Fifo!fifoVars)
<1>1. pc[t] = "upgrading" /\ my_read_count[t] > 0 /\ writer_thread # t
  BY ThreadFacts, UpgraderFacts DEF UpgraderWakes
<1> QED
  BY <1>1, ConvertedRefines, SleeperStutters DEF UpgraderWakes

LEMMA FirstWriteRefines ==
  ASSUME IInv, IInv', NEW t \in Threads, FirstWrite(t)
  PROVE  Fifo!FifoNext
<1>1. /\ pc[t] = "running" /\ my_read_count[t] = 0 /\ next_ticket' = Inc(next_ticket)
      /\ writer_thread # t
  BY ThreadFacts DEF FirstWrite, Contends
<1>2. my_read_count' = my_read_count
  BY <1>1 DEF FirstWrite, Contends, IInv, TypeOK
<1>3. Mode(t) = "none" /\ BarMode[t] = "none"
  BY <1>1, ModeFacts
<1>4. CASE MayWrite(next_ticket, num_readers) /\ BecomesWriter(t, Append(queue, t), asleep)
  <2>1. queue = <<>>
    BY <1>1, <1>4, NewcomerIsServed DEF IInv, MayWrite, InQueue
  <2>2. queue' = <<>>
    BY <1>1, <1>4, <2>1, QueuePasses DEF IInv, BecomesWriter
  <2>3. BarLine = <<>> /\ BarLine' = <<>>
    BY <2>1, <2>2 DEF BarLine
  <2> QED
    BY <1>1, <1>2, <1>4, <2>3, WriterEnters, AbstractSteps DEF MayWrite
<1>5. CASE Queued(t, "writing", asleep) /\ UNCHANGED <<serving_ticket, writer>>
  <2>1. /\ BarLine' = Append(BarLine, <<t, "write">>)
        /\ ~\E i \in DOMAIN BarLine : BarLine[i][1] = t
    BY <1>1, <1>5, LineJoins DEF IInv, InQueue
  <2>2. \A u \in Threads : Mode(u)' = Mode(u)
    BY <1>2, <1>5 DEF Mode, IsWriter, writer
  <2>3. BarMode' = [BarMode EXCEPT ![t] = "none"]
    BY <1>3, <2>2, ModeChanges
  <2> QED
    BY <1>3, <2>1, <2>3, AbstractSteps
<1> QED
  BY <1>4, <1>5 DEF FirstWrite, Contends

LEMMA SurrenderRefines ==
  ASSUME IInv, IInv', NEW t \in Threads, Surrender(t)
  PROVE  Fifo!FifoNext
<1>1. /\ pc[t] = "running" /\ my_read_count[t] > 0 /\ upgrade_pending
      /\ my_read_count' = [my_read_count EXCEPT ![t] = 0]
      /\ Queued(t, "writing", asleep \ Upgraders)
  BY SurrenderPreserves DEF Surrender, Contends
<1>2. writer_thread = NoThread /\ writer_thread' = NoThread
  BY <1>1 DEF IInv, WriterInv, Surrender, Contends
<1>3. /\ BarLine' = Append(BarLine, <<t, "write">>)
      /\ ~\E i \in DOMAIN BarLine : BarLine[i][1] = t
  BY <1>1, LineJoins DEF IInv, InQueue
<1>4. BarMode[t] = "read"
  BY <1>1, <1>2, ModeFacts, ThreadFacts
<1>5. \A u \in Threads : ~IsWriter(u) /\ ~IsWriter(u)'
  BY <1>2, ThreadFacts DEF IsWriter
<1>6. Mode(t)' = "none" /\ \A u \in Threads \ {t} : Mode(u)' = Mode(u)
  BY <1>1, <1>5 DEF IInv, TypeOK, Mode
<1>7. BarMode' = [BarMode EXCEPT ![t] = "none"]
  BY <1>6, ModeChanges
<1> QED
  BY <1>3, <1>4, <1>7, AbstractSteps

LEMMA WriterWakesRefines ==
  ASSUME IInv, IInv', NEW t \in Threads, WriterWakes(t)
  PROVE  [Fifo!FifoNext]_(Fifo!fifoVars)
<1>1. pc[t] = "writing" /\ my_read_count[t] = 0
  BY DEF WriterWakes, IInv, WaitInv, InQueue
<1>2. CASE /\ MayWrite(ticket[t], num_readers) /\ BecomesWriter(t, queue, asleep)
           /\ my_read_count' = my_read_count
  <2>1. queue # <<>> /\ Head(queue) = t
    BY <1>1, <1>2, ServedFromQueue DEF MayWrite, InQueue
  <2>2. BarLine # <<>> /\ Head(BarLine) = <<t, "write">> /\ BarLine' = Tail(BarLine)
    BY <1>1, <1>2, <2>1, LineServes DEF IInv, BecomesWriter, Kind
  <2> QED
    BY <1>1, <1>2, <2>2, WriterEnters, AbstractSteps DEF MayWrite
<1> QED
  BY <1>2, SleeperStutters DEF WriterWakes

LEMMA UnlockWriteRefines ==
  ASSUME IInv, IInv', NEW t \in Threads, UnlockWrite(t)
  PROVE  [Fifo!FifoNext]_(Fifo!fifoVars)
<1>1. /\ writer_thread = t /\ my_read_count[t] = 0 /\ my_read_count' = my_read_count
      /\ writer_thread' = IF write_recursion = 1 THEN NoThread ELSE t
      /\ t # NoThread
  BY ThreadFacts DEF UnlockWrite, IInv, TypeOK, WriterInv, IsWriter
<1>2. BarLine' = BarLine
  BY LineStays DEF IInv, UnlockWrite
<1>3. \A u \in Threads : IsWriter(u)' <=> writer_thread' = u
  <2>1. write_recursion' \in Nat /\ (write_recursion' = 0 <=> writer_thread' = NoThread)
    BY RwLockAssumption DEF IInv, TypeOK, WriterInv
  <2> QED
    BY <2>1, ThreadFacts DEF IsWriter
<1>4. \A u \in Threads \ {t} : Mode(u)' = Mode(u)
  BY <1>1, <1>3, ThreadFacts DEF Mode
<1>5. CASE write_recursion = 1
  <2>1. Mode(t)' = "none" /\ BarMode[t] # "none"
    BY <1>1, <1>3, <1>5, ModeFacts DEF Mode
  <2>2. BarMode' = [BarMode EXCEPT ![t] = "none"]
    BY <1>4, <2>1, ModeChanges
  <2> QED
    BY <1>2, <2>1, <2>2, AbstractSteps
<1>6. CASE write_recursion # 1
  <2>1. Mode(t)' = Mode(t)
    BY <1>1, <1>3, <1>6, ThreadFacts DEF Mode
  <2> QED
    BY <1>2, <1>4, <2>1, ModeStays, Stutters
<1> QED
  BY <1>5, <1>6

LEMMA UnlockReadRefines ==
  ASSUME IInv, IInv', NEW t \in Threads, UnlockRead(t)
  PROVE  [Fifo!FifoNext]_(Fifo!fifoVars)
<1>1. /\ writer_thread # t /\ my_read_count[t] > 0
      /\ my_read_count' = [my_read_count EXCEPT ![t] = @ - 1]
      /\ UNCHANGED writer
  BY ThreadFacts DEF UnlockRead
<1>2. BarLine' = BarLine
  BY LineStays DEF IInv, UnlockRead
<1>3. \A u \in Threads : IsWriter(u)' <=> IsWriter(u)
  BY <1>1 DEF IsWriter, writer
<1>4. \A u \in Threads \ {t} : Mode(u)' = Mode(u)
  BY <1>1, <1>3 DEF IInv, TypeOK, Mode
<1>5. BarMode[t] = "read" /\ Mode(t) = "read" /\ ~IsWriter(t) /\ my_read_count[t] \in Nat
  BY <1>1, ModeFacts, ThreadFacts
<1>6. CASE my_read_count[t] = 1
  <2>1. Mode(t)' = "none"
    BY <1>1, <1>3, <1>5, <1>6 DEF IInv, TypeOK, Mode
  <2>2. BarMode' = [BarMode EXCEPT ![t] = "none"]
    BY <1>4, <2>1, ModeChanges
  <2> QED
    BY <1>2, <1>5, <2>2, AbstractSteps
<1>7. CASE my_read_count[t] # 1
  <2>1. Mode(t)' = Mode(t)
    BY <1>1, <1>3, <1>5, <1>7 DEF IInv, TypeOK, Mode
  <2> QED
    BY <1>2, <1>4, <2>1, ModeStays, Stutters
<1> QED
  BY <1>6, <1>7

LEMMA RenewStutters ==
  ASSUME IInv, Renew
  PROVE  [Fifo!FifoNext]_(Fifo!fifoVars)
<1>1. BarLine' = BarLine
  BY DEF Renew, waiters, BarLine, Kind
<1>2. BarMode' = BarMode
  BY ModeStays DEF Renew, writer, Mode, IsWriter
<1> QED
  BY <1>1, <1>2, Stutters

LEMMA IdleStutters ==
  ASSUME IInv, UNCHANGED vars
  PROVE  [Fifo!FifoNext]_(Fifo!fifoVars)
<1>1. BarLine' = BarLine
  BY DEF vars, BarLine, Kind
<1>2. BarMode' = BarMode
  BY ModeStays DEF vars, Mode, IsWriter
<1> QED
  BY <1>1, <1>2, Stutters

LEMMA StepRefines == IInv /\ IInv' /\ [Next]_vars => [Fifo!FifoNext]_(Fifo!fifoVars)
<1> SUFFICES ASSUME IInv, IInv', [Next]_vars
             PROVE  [Fifo!FifoNext]_(Fifo!fifoVars)
  OBVIOUS
<1>1. ASSUME NEW t \in Threads, Locks(t)
      PROVE  [Fifo!FifoNext]_(Fifo!fifoVars)
  BY <1>1, NestingStutters, FirstReadRefines, StartUpgradeRefines, FirstWriteRefines,
     SurrenderRefines DEF Locks
<1>2. ASSUME NEW t \in Threads, Unlocks(t)
      PROVE  [Fifo!FifoNext]_(Fifo!fifoVars)
  BY <1>2, NestingStutters, UnlockWriteRefines, UnlockReadRefines DEF Unlocks
<1>3. ASSUME NEW t \in Threads, Wakes(t)
      PROVE  [Fifo!FifoNext]_(Fifo!fifoVars)
  BY <1>3, ReaderWakesRefines, UpgraderWakesRefines, WriterWakesRefines DEF Wakes
<1> QED
  BY <1>1, <1>2, <1>3, SleeperStutters, RenewStutters, IdleStutters DEF Next

(* The lock implements FifoLock: a thread that waits is admitted in the     *)
(* order of arrival, whatever tickets wrap, signals are spurious, or        *)
(* upgrades and surrenders happen in between.                               *)
THEOREM FifoRefinement == Spec => ImplementsFifoLock
<1>1. Init => Fifo!FifoInit
  <2> SUFFICES ASSUME Init
               PROVE  Fifo!FifoInit
    OBVIOUS
  <2>1. \A t \in Threads : Mode(t) = "none"
    BY DEF Init, Mode, IsWriter
  <2>2. queue = <<>>
    BY DEF Init
  <2> QED
    BY <2>1, <2>2 DEF Fifo!FifoInit
<1> QED
  BY <1>1, Invariant, StepRefines, PTL DEF Spec, ImplementsFifoLock, Fifo!FifoSpec
=============================================================================
