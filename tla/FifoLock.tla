-------------------------------- MODULE FifoLock --------------------------------
(***************************************************************************)
(* What clib_rwlock promises: one writer or any number of readers, a line  *)
(* that is served in the order of arrival, and a reader that may become    *)
(* the writer when it is alone.  No tickets, counters or condition         *)
(* variables; RwLock is shown to implement this.                           *)
(***************************************************************************)
EXTENDS Naturals, Sequences

CONSTANT Threads

VARIABLES
  mode,   \* how each thread holds the lock
  line    \* the threads that wait, with what they wait for

fifoVars == <<mode, line>>

Kinds == {"read", "write"}

Compatible(t, kind) ==
  \A u \in Threads \ {t} : mode[u] = "none" \/ (kind = "read" /\ mode[u] = "read")

Waits(t) == \E i \in DOMAIN line : line[i][1] = t

FifoInit == mode = [t \in Threads |-> "none"] /\ line = <<>>

(* Nobody waits and nobody is in the way.                                   *)
Enter(t, kind) ==
  /\ line = <<>> /\ mode[t] = "none" /\ Compatible(t, kind)
  /\ mode' = [mode EXCEPT ![t] = kind]
  /\ UNCHANGED line

(* A thread goes to the end of the line; a reader that wants to write       *)
(* gives up what it has.                                                    *)
Join(t, kind) ==
  /\ ~Waits(t)
  /\ mode[t] = "none" \/ (mode[t] = "read" /\ kind = "write")
  /\ mode' = [mode EXCEPT ![t] = "none"]
  /\ line' = Append(line, <<t, kind>>)

Admit(t, kind) ==
  /\ line # <<>> /\ Head(line) = <<t, kind>> /\ Compatible(t, kind)
  /\ mode' = [mode EXCEPT ![t] = kind]
  /\ line' = Tail(line)

Upgrade(t) ==
  /\ mode[t] = "read" /\ Compatible(t, "write")
  /\ mode' = [mode EXCEPT ![t] = "write"]
  /\ UNCHANGED line

Release(t) ==
  /\ mode[t] # "none"
  /\ mode' = [mode EXCEPT ![t] = "none"]
  /\ UNCHANGED line

FifoStep(t) ==
  \/ \E kind \in Kinds : Enter(t, kind) \/ Join(t, kind) \/ Admit(t, kind)
  \/ Upgrade(t) \/ Release(t)

FifoNext == \E t \in Threads : FifoStep(t)

FifoSpec == FifoInit /\ [][FifoNext]_fifoVars
=============================================================================
