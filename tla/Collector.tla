----------------------------- MODULE Collector -----------------------------
(***************************************************************************)
(* What the server promises about the ciphers of a task, whichever         *)
(* decryptor it uses (server/fe.go): each cipher is taken once, in any     *)
(* order; the result is reported after the last one, and never before; and *)
(* once all are taken the result comes, unless decryption fails for good.  *)
(***************************************************************************)
VARIABLES
  missing,   \* ciphers still to be taken
  reported,  \* whether the task has a result
  failed     \* no result will come

vars == <<missing, reported, failed>>

Take(c) ==
  /\ c \in missing
  /\ missing' = missing \ {c}
  /\ UNCHANGED <<reported, failed>>

Report ==
  /\ missing = {} /\ ~failed
  /\ reported' = TRUE
  /\ UNCHANGED <<missing, failed>>

Fail ==
  /\ ~reported
  /\ failed' = TRUE
  /\ UNCHANGED <<missing, reported>>

Init == missing # {} /\ ~reported /\ ~failed
Next == (\E c \in missing : Take(c)) \/ Report \/ Fail

Spec == Init /\ [][Next]_vars /\ WF_vars(Report)
=============================================================================
