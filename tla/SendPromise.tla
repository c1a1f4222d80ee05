----------------------------- MODULE SendPromise -----------------------------
(***************************************************************************)
(* What the notification worker relies on of one Send of the email client: *)
(* it returns once, nil only for an email the SMTP server has taken, the   *)
(* context's error only under a cancelled context, and any other error     *)
(* only while the context is not cancelled.  An email may be taken at any  *)
(* time, also after Send has returned an error, because a reply may be     *)
(* lost or late.                                                           *)
(***************************************************************************)
VARIABLES result, mailed, cancelled

sendVars == <<result, mailed, cancelled>>

Init ==
    /\ result = "None"
    /\ mailed = FALSE
    /\ cancelled = FALSE

\* SIGTERM reaches the worker.
Cancel ==
    /\ cancelled' = TRUE
    /\ UNCHANGED <<result, mailed>>

\* The server takes the email.
Take ==
    /\ mailed' = TRUE
    /\ UNCHANGED <<result, cancelled>>

Return ==
    /\ result = "None"
    /\ \/ result' = "Nil" /\ mailed
       \/ result' = "Context" /\ cancelled
       \/ result' = "Failed" /\ ~cancelled
    /\ UNCHANGED <<mailed, cancelled>>

Next == Cancel \/ Take \/ Return

Spec == Init /\ [][Next]_sendVars
=============================================================================
