------------------------------ MODULE MCProgress -----------------------------
(* What must happen in the end, for TLC: the event dedupe, the state file,  *)
(* the scheduler, the Gmail ingestion, the Gmail connection, the chat page  *)
(* and the rate limiter.  They share no variable here, so they are checked  *)
(* side by side: part says which of them moves in a behaviour, the others   *)
(* stay as they begin, and only the part that moves is owed fairness.       *)
EXTENDS EventDedupe, StateFile, Scheduler, GmailSync, GmailConnection, ChatClient, RateLimiter

CONSTANTS office, w1, w2, g1, c1, c2, c3, l1

VARIABLE part

\* RateLimiter: all users come from one address.
OneAddress(u) == office

\* Scheduler: one channel or label each, but two channels for w1.
OwnerOf(i) == IF i = l1 THEN g1 ELSE IF i = c3 THEN w2 ELSE w1

Parts == {"dedupe", "file", "scheduler", "gmail", "token", "chat", "limiter"}

ProgressInit ==
  /\ part \in Parts
  /\ part = "scheduler" \/ connected = {}
  /\ Init /\ FileInit /\ SchedulerInit /\ GmailInit /\ TokenInit /\ ChatInit /\ RateInit

ProgressNext ==
  /\ UNCHANGED part
  /\ \/ /\ part = "dedupe" /\ Next
        /\ UNCHANGED <<fileVars, schedulerVars, gmailVars, tokenVars, chatVars, rateVars>>
     \/ /\ part = "file" /\ FileNext
        /\ UNCHANGED <<vars, schedulerVars, gmailVars, tokenVars, chatVars, rateVars>>
     \/ /\ part = "scheduler" /\ SchedulerNext
        /\ UNCHANGED <<vars, fileVars, gmailVars, tokenVars, chatVars, rateVars>>
     \/ /\ part = "gmail" /\ GmailNext
        /\ UNCHANGED <<vars, fileVars, schedulerVars, tokenVars, chatVars, rateVars>>
     \/ /\ part = "token" /\ TokenNext
        /\ UNCHANGED <<vars, fileVars, schedulerVars, gmailVars, chatVars, rateVars>>
     \/ /\ part = "chat" /\ ChatNext
        /\ UNCHANGED <<vars, fileVars, schedulerVars, gmailVars, tokenVars, rateVars>>
     \/ /\ part = "limiter" /\ RateNext
        /\ UNCHANGED <<vars, fileVars, schedulerVars, gmailVars, tokenVars, chatVars>>

\* The fairness of the parts' own specifications, each for the part that moves.
ProgressFairness ==
  /\ \A w \in Workers : WF_vars(part = "dedupe" /\ WorkerStep(w))
  /\ \A w \in Workers, e \in Events : WF_vars(part = "dedupe" /\ RunTask(w, e))
  /\ \A w \in Writers : WF_fileVars(part = "file" /\ Step(w))
  /\ \A j \in Jobs : /\ WF_schedulerVars(part = "scheduler" /\ Fire(j))
                     /\ WF_schedulerVars(part = "scheduler" /\ JobStep(j))
  /\ \A r \in Runs : /\ WF_gmailVars(part = "gmail" /\ RunStep(r))
                     /\ WF_gmailVars(part = "gmail" /\ Start(r, FALSE))
  /\ WF_tokenVars(part = "token" /\ BeginUse("ingest"))
  /\ \A u \in Users : /\ WF_tokenVars(part = "token" /\ (Call(u) \/ CallRefreshed(u) \/ CallRaises(u)))
                      /\ WF_tokenVars(part = "token" /\ EndUse(u))
  /\ \A t \in Turns : /\ WF_chatVars(part = "chat" /\ Token(t))
                      /\ WF_chatVars(part = "chat" /\ (Done(t) \/ Break(t)))
                      /\ WF_chatVars(part = "chat" /\ Close(t))

ProgressSpec ==
  /\ ProgressInit
  /\ [][ProgressNext]_<<part, vars, fileVars, schedulerVars, gmailVars, tokenVars, chatVars, rateVars>>
  /\ ProgressFairness
==============================================================================
