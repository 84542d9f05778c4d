\* Two workers and an inline task compete for the jobs; everybody may stop
\* anywhere.
SPECIFICATION Spec
CONSTANTS
  Workers = {w1, w2}
  Tasks = {t1}
  Faulty = {w1, w2, t1}
  MaxJobs = 3
  MailMaxAttempts = 2
  Inline = TRUE
  Answers = {"accepted", "refused", "unheard"}
  None = None
SYMMETRY Interchangeable
INVARIANTS TypeOK OneSender NothingLost
PROPERTIES OutboxSpec AckedIsFinal StrandedOnlyByStop
\* Once every mail the bound allows has left the queue, nothing is left to do.
CHECK_DEADLOCK FALSE
