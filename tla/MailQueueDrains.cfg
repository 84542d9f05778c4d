\* Worker mode: the API may stop, the workers do not.
SPECIFICATION FairSpec
CONSTANTS
  Workers = {w1, w2}
  Tasks = {t1, t2}
  Faulty = {t1, t2}
  MaxJobs = 3
  MailMaxAttempts = 2
  Inline = FALSE
  Answers = {"accepted", "refused", "unheard"}
  None = None
PROPERTIES EveryMailSettles
\* Once every mail the bound allows has left the queue, nothing is left to do.
CHECK_DEADLOCK FALSE
