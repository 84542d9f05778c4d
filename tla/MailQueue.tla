------------------------------ MODULE MailQueue -----------------------------
(***************************************************************************)
(* The durable mail queue.  A request that must mail somebody answers and  *)
(* leaves a background task; the task inserts a row into mail_jobs and,    *)
(* in inline mode, processes one due job itself.  The mail workers poll    *)
(* the same table.  Whoever processes a job claims it in a transaction,    *)
(* hands it to the mail server, and deletes it, postpones it or moves it   *)
(* to failed_mail_jobs in another.                                         *)
(*                                                                         *)
(* A runner stops where it is when its process dies or the database fails  *)
(* it: its transaction is rolled back and nothing else is undone.          *)
(***************************************************************************)
EXTENDS Naturals

CONSTANTS
  Workers,          \* processes that run scripts/mail_worker.py
  Tasks,            \* background tasks the API may run at a time
  Faulty,           \* runners that may stop in the middle
  MaxJobs,          \* bound: rows mail_jobs ever gets
  MailMaxAttempts,  \* settings.mail_max_attempts
  Inline,           \* settings.mail_queue_inline
  Answers,          \* what may come of handing a mail to the server
  None              \* no row, no owner, no job

Runners == Workers \cup Tasks
Jobs    == 1..MaxJobs
Stages  == {"idle", "asked", "polling", "claiming", "sending", "accepted", "refused"}

MaxAttempts == IF MailMaxAttempts < 1 THEN 1 ELSE MailMaxAttempts

\* A row of mail_jobs: reserved says that reserved_at is set, due that
\* available_at has passed.
Job == [attempts : 0..MaxAttempts, reserved : BOOLEAN, due : BOOLEAN]

ASSUME RunnersAssumption ==
  /\ Workers \cap Tasks = {}
  /\ Faulty \subseteq Runners
  /\ None \notin Runners \cup Nat \cup Job
ASSUME QueueAssumption ==
  /\ MaxJobs \in Nat
  /\ MailMaxAttempts \in Nat
  /\ Inline \in BOOLEAN
  /\ Answers \subseteq {"accepted", "refused", "unheard"}

VARIABLES
  job,        \* the rows of mail_jobs, by identifier
  nextId,     \* the AUTO_INCREMENT of mail_jobs
  failed,     \* the jobs that moved to failed_mail_jobs
  jobLock,    \* which claim has a row of mail_jobs locked
  pc,         \* where each runner stands
  held,       \* the job each runner works on
  answered,   \* how many requests were answered that owe a mail
  delivered,  \* copies of each mail the server took
  acked       \* history: the mails of which the server was heard to take one

vars == <<job, nextId, failed, jobLock, pc, held, answered, delivered, acked>>

TypeOK ==
  /\ job \in [Jobs -> Job \cup {None}]
  /\ nextId \in 1..(MaxJobs + 1)
  /\ failed \subseteq Jobs
  /\ jobLock \in [Jobs -> Runners \cup {None}]
  /\ pc \in [Runners -> Stages]
  /\ held \in [Runners -> Jobs \cup {None}]
  /\ answered \in 0..MaxJobs
  /\ delivered \in [Jobs -> 0..MaxAttempts]
  /\ acked \subseteq Jobs

Exists(j) == job[j] # None

\* A worker that is not at work polls; a task that is not at work is over.
Rest(r) == IF r \in Workers THEN "polling" ELSE "idle"

Init ==
  /\ job = [j \in Jobs |-> None]
  /\ nextId = 1
  /\ failed = {}
  /\ jobLock = [j \in Jobs |-> None]
  /\ pc = [r \in Runners |-> Rest(r)]
  /\ held = [r \in Runners |-> None]
  /\ answered = 0
  /\ delivered = [j \in Jobs |-> 0]
  /\ acked = {}

-----------------------------------------------------------------------------
(* The API.                                                                *)

\* A booking is created, confirmed, cancelled or paid: the transaction is
\* committed, the answer sent, and the task runs after it.
Ask(t) ==
  /\ pc[t] = "idle"
  /\ answered < MaxJobs
  /\ answered' = answered + 1
  /\ pc' = [pc EXCEPT ![t] = "asked"]
  /\ UNCHANGED <<job, nextId, failed, jobLock, held, delivered, acked>>

Enqueue(t) ==
  /\ pc[t] = "asked"
  /\ nextId \in Jobs
  /\ job' = [job EXCEPT ![nextId] = [attempts |-> 0, reserved |-> FALSE, due |-> TRUE]]
  /\ nextId' = nextId + 1
  /\ pc' = [pc EXCEPT ![t] = IF Inline THEN "polling" ELSE "idle"]
  /\ UNCHANGED <<failed, jobLock, held, answered, delivered, acked>>

-----------------------------------------------------------------------------
(* Claiming a job.                                                         *)

Claimable(j) ==
  /\ Exists(j)
  /\ job[j].due
  /\ ~job[j].reserved
  /\ jobLock[j] = None

\* Mutant: a plain SELECT, which locks nothing and skips nothing.
SelectUnlocked(r) ==
  /\ pc[r] = "polling"
  /\ \E j \in Jobs :
       /\ Exists(j) /\ job[j].due /\ ~job[j].reserved
       /\ held' = [held EXCEPT ![r] = j]
  /\ pc' = [pc EXCEPT ![r] = "claiming"]
  /\ UNCHANGED <<job, nextId, failed, jobLock, answered, delivered, acked>>

\* SELECT ... ORDER BY id LIMIT 1 FOR UPDATE SKIP LOCKED.  Other rows the
\* scan passes may be locked with the one it returns.
SelectJob(r) ==
  /\ pc[r] = "polling"
  /\ \E j \in Jobs :
       /\ Claimable(j)
       /\ \A k \in Jobs : Claimable(k) => j <= k
       /\ held' = [held EXCEPT ![r] = j]
       /\ \E scanned \in SUBSET {k \in Jobs : Exists(k) /\ jobLock[k] = None} :
            jobLock' = [k \in Jobs |-> IF k \in scanned \cup {j} THEN r ELSE jobLock[k]]
  /\ pc' = [pc EXCEPT ![r] = "claiming"]
  /\ UNCHANGED <<job, nextId, failed, answered, delivered, acked>>

\* The locks of a transaction that ends.
Unlock(r) == jobLock' = [j \in Jobs |-> IF jobLock[j] = r THEN None ELSE jobLock[j]]

\* Mutant: the claim counts the attempt and does not set reserved_at.
ReserveNothing(r) ==
  /\ pc[r] = "claiming"
  /\ job' = [job EXCEPT ![held[r]].attempts = @ + 1]
  /\ pc' = [pc EXCEPT ![r] = "sending"]
  /\ Unlock(r)
  /\ UNCHANGED <<nextId, failed, held, answered, delivered, acked>>

ReserveJob(r) ==
  /\ pc[r] = "claiming"
  /\ job' = [job EXCEPT ![held[r]].reserved = TRUE, ![held[r]].attempts = @ + 1]
  /\ pc' = [pc EXCEPT ![r] = "sending"]
  /\ Unlock(r)
  /\ UNCHANGED <<nextId, failed, held, answered, delivered, acked>>

\* A task finds nothing to claim and ends; a worker sleeps and polls again.
NothingToClaim(t) ==
  /\ pc[t] = "polling"
  /\ \A j \in Jobs : ~Claimable(j)
  /\ pc' = [pc EXCEPT ![t] = "idle"]
  /\ UNCHANGED <<job, nextId, failed, jobLock, held, answered, delivered, acked>>

-----------------------------------------------------------------------------
(* Sending a job, and what becomes of it.                                  *)

\* Mutant: the exception of a refused mail is swallowed.
SendQuietly(r) ==
  /\ pc[r] = "sending"
  /\ pc' = [pc EXCEPT ![r] = "accepted"]
  /\ \/ delivered' = [delivered EXCEPT ![held[r]] = @ + 1]
     \/ UNCHANGED delivered
  /\ UNCHANGED acked
  /\ UNCHANGED <<job, nextId, failed, jobLock, held, answered>>

\* The server takes the mail, refuses it, or takes it and is not heard.
Send(r) ==
  /\ pc[r] = "sending"
  /\ \E answer \in Answers :
       /\ pc' = [pc EXCEPT ![r] = IF answer = "accepted" THEN "accepted" ELSE "refused"]
       /\ delivered' = IF answer = "refused" THEN delivered
                       ELSE [delivered EXCEPT ![held[r]] = @ + 1]
       /\ acked' = IF answer = "accepted" THEN acked \cup {held[r]} ELSE acked
  /\ UNCHANGED <<job, nextId, failed, jobLock, held, answered>>

\* The transaction that settles the job waits for claims that scan its row.
Settle(r) ==
  /\ jobLock[held[r]] = None
  /\ pc' = [pc EXCEPT ![r] = Rest(r)]
  /\ held' = [held EXCEPT ![r] = None]
  /\ UNCHANGED <<nextId, jobLock, answered, delivered, acked>>

Complete(r) ==
  /\ pc[r] = "accepted"
  /\ job' = [job EXCEPT ![held[r]] = None]
  /\ Settle(r)
  /\ UNCHANGED failed

\* Mutant: the job is deleted and no failed job is written.
GiveUpSilently(r) ==
  /\ pc[r] = "refused"
  /\ job[held[r]].attempts >= MaxAttempts
  /\ job' = [job EXCEPT ![held[r]] = None]
  /\ Settle(r)
  /\ UNCHANGED failed

GiveUp(r) ==
  /\ pc[r] = "refused"
  /\ job[held[r]].attempts >= MaxAttempts
  /\ failed' = failed \cup {held[r]}
  /\ job' = [job EXCEPT ![held[r]] = None]
  /\ Settle(r)

\* Mutant: one attempt too many.
RetryOnceMore(r) ==
  /\ pc[r] = "refused"
  /\ job[held[r]].attempts <= MaxAttempts
  /\ job' = [job EXCEPT ![held[r]].reserved = FALSE, ![held[r]].due = FALSE]
  /\ Settle(r)
  /\ UNCHANGED failed

\* Mutant: the postponed job keeps its reserved_at.
RetryReserved(r) ==
  /\ pc[r] = "refused"
  /\ job[held[r]].attempts < MaxAttempts
  /\ job' = [job EXCEPT ![held[r]].due = FALSE]
  /\ Settle(r)
  /\ UNCHANGED failed

Retry(r) ==
  /\ pc[r] = "refused"
  /\ job[held[r]].attempts < MaxAttempts
  /\ job' = [job EXCEPT ![held[r]].reserved = FALSE, ![held[r]].due = FALSE]
  /\ Settle(r)
  /\ UNCHANGED failed

\* The backoff of a postponed job passes.
BackoffEnds(j) ==
  /\ Exists(j)
  /\ ~job[j].due
  /\ job' = [job EXCEPT ![j].due = TRUE]
  /\ UNCHANGED <<nextId, failed, jobLock, pc, held, answered, delivered, acked>>

\* The process of a runner dies, or the database fails it.
Stop(r) ==
  /\ r \in Faulty
  /\ pc[r] # Rest(r)
  /\ pc' = [pc EXCEPT ![r] = Rest(r)]
  /\ held' = [held EXCEPT ![r] = None]
  /\ Unlock(r)
  /\ UNCHANGED <<job, nextId, failed, answered, delivered, acked>>

-----------------------------------------------------------------------------
Work(r) ==
  SelectJob(r) \/ ReserveJob(r) \/ Send(r) \/ Complete(r) \/ GiveUp(r) \/ Retry(r)

Next ==
  \/ \E t \in Tasks : Ask(t) \/ Enqueue(t) \/ NothingToClaim(t)
  \/ \E r \in Runners : Work(r) \/ Stop(r)
  \/ \E j \in Jobs : BackoffEnds(j)

Spec == Init /\ [][Next]_vars

\* The event loop runs the tasks, the workers loop, the mail server answers
\* or times out, time passes.  Nobody has to ask for a mail, and nothing
\* has to fail.
Fairness ==
  /\ \A t \in Tasks : WF_vars(Enqueue(t)) /\ WF_vars(NothingToClaim(t))
  /\ \A r \in Runners : WF_vars(Work(r))
  /\ \A j \in Jobs : WF_vars(BackoffEnds(j))

FairSpec == Spec /\ Fairness

-----------------------------------------------------------------------------
(* Properties.                                                             *)

Working(r) == pc[r] \in {"sending", "accepted", "refused"}

\* No two runners ever send the same job: the claim (a locked read that
\* skips what others have locked, and a reservation) keeps them apart.
OneSender ==
  \A r, s \in Runners : Working(r) /\ Working(s) /\ r # s => held[r] # held[s]

\* A mail whose row is gone was taken by the server or is in
\* failed_mail_jobs, whoever stopped and wherever.
NothingLost ==
  \A j \in Jobs : j < nextId /\ ~Exists(j) => j \in failed \/ delivered[j] > 0

\* A mail the server was heard to take is never sent again and never given
\* up, though its runner may stop before it deletes the job.
AckedIsFinal ==
  [][\A j \in acked : delivered'[j] = delivered[j] /\ (j \in failed' => j \in failed)]_vars

\* A reserved job that nobody works on, which no claim will ever find, comes
\* only of a runner that stopped with it: every other way out of a try, heard
\* or not, in whatever order the claims of others come, frees or removes it.
Stranded(j) ==
  /\ Exists(j) /\ job[j].reserved
  /\ \A r \in Runners : Working(r) => held[r] # j

StrandedOnlyByStop ==
  [][\A j \in Jobs : ~Stranded(j) /\ Stranded(j)' =>
       \E r \in Runners : Stop(r) /\ held[r] = j]_vars

\* The inductive invariant of the proofs: what a runner holds, what it has
\* locked, and what the rows say of the tries and copies of their mails.
Holding(r) ==
  /\ pc[r] \in {"idle", "asked", "polling"} <=> held[r] = None
  /\ pc[r] = "claiming" =>
       /\ Exists(held[r])
       /\ ~job[held[r]].reserved
       /\ jobLock[held[r]] = r
  /\ Working(r) => Exists(held[r]) /\ job[held[r]].reserved
  /\ pc[r] = "sending"  => delivered[held[r]] < job[held[r]].attempts
  /\ pc[r] = "accepted" => delivered[held[r]] > 0

Locking == \A j \in Jobs : jobLock[j] # None => pc[jobLock[j]] = "claiming"

\* An acknowledged mail stays with the runner that sent it, or with nobody.
Acked(j) ==
  j \in acked => /\ Exists(j) => job[j].reserved
                /\ \A r \in Runners : pc[r] \in {"sending", "refused"} => held[r] # j

Fresh(j) == j >= nextId => ~Exists(j) /\ delivered[j] = 0 /\ j \notin failed /\ j \notin acked

Counting(j) ==
  Exists(j) => /\ j \notin failed
               /\ delivered[j] <= job[j].attempts
               /\ ~job[j].reserved => job[j].attempts < MaxAttempts

IndInv ==
  /\ TypeOK
  /\ \A r \in Runners : Holding(r)
  /\ Locking
  /\ \A j \in Jobs : Fresh(j) /\ Counting(j) /\ Acked(j)
  /\ OneSender
  /\ NothingLost

\* The queue implements the promise of the outbox: at most one copy for
\* each try, at most MaxAttempts tries, and no mail leaves without a copy
\* or a last try.
MailStage(j) ==
  IF Exists(j)          THEN IF job[j].reserved THEN "trying" ELSE "waiting"
  ELSE IF j >= nextId   THEN "unposted"
  ELSE IF j \in failed  THEN "dead"
  ELSE "sent"

MailTries(j) == IF Exists(j) THEN job[j].attempts ELSE 0

Outbox == INSTANCE MailOutbox
  WITH Mails <- Jobs, MaxTries <- MaxAttempts,
       stage <- [j \in Jobs |-> MailStage(j)],
       tries <- [j \in Jobs |-> MailTries(j)],
       copies <- delivered

OutboxSpec == Outbox!Spec

\* What is in mail_jobs leaves it: it is sent, or given up after its tries.
EveryMailSettles == \A j \in Jobs : Exists(j) ~> ~Exists(j)

=============================================================================
