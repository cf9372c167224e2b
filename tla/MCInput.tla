--------------------------------- MODULE MCInput ---------------------------------
(***************************************************************************)
(* Instances of Input: addresses as model values.                          *)
(***************************************************************************)
EXTENDS Input

CONSTANTS s1, s2, t1

(***************************************************************************)
(* Keys, touches and text inputs share no state but windows and the shell: *)
(* a session has one of the three, each with kills, exits and reused pids. *)
(***************************************************************************)
VARIABLE session

SessionInit == Init /\ session \in {"keys", "touches", "text inputs"}

SessionNext ==
  /\ Next
  /\ session # "keys" => UNCHANGED keyboards
  /\ session # "touches" => UNCHANGED fingers
  /\ session # "text inputs" => UNCHANGED <<text_inputs, announced>>
  /\ UNCHANGED session

SessionSpec == SessionInit /\ [][SessionNext]_<<vars, session>> /\ Fairness
=============================================================================
