\* A worker stops between its claim and what becomes of the job.
SPECIFICATION FairSpec
CONSTANTS
  Workers = {w1}
  Tasks = {t1}
  Faulty = {w1}
  MaxJobs = 1
  MailMaxAttempts = 2
  Inline = FALSE
  Answers = {"accepted", "refused", "unheard"}
  None = None
PROPERTIES EveryMailSettles
\* Once every mail the bound allows has left the queue, nothing is left to do.
CHECK_DEADLOCK FALSE
