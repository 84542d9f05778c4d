----------------------------- MODULE MailOutbox -----------------------------
(***************************************************************************)
(* What the durable mail queue promises of each mail, whoever works on it: *)
(* a posted mail is tried at most MaxTries times, each try hands it to the *)
(* mail server at most once, and it leaves the outbox only with a copy     *)
(* handed over, or dead after its last try.                                *)
(***************************************************************************)
EXTENDS Naturals

CONSTANTS
  Mails,
  MaxTries

VARIABLES
  stage,     \* where each mail stands
  tries,     \* tries of the mails that are still in the outbox
  copies     \* copies the mail server took of each mail

outbox == <<stage, tries, copies>>

Init ==
  /\ stage = [m \in Mails |-> "unposted"]
  /\ tries = [m \in Mails |-> 0]
  /\ copies = [m \in Mails |-> 0]

Post(m) ==
  /\ stage[m] = "unposted"
  /\ stage' = [stage EXCEPT ![m] = "waiting"]
  /\ UNCHANGED <<tries, copies>>

Try(m) ==
  /\ stage[m] = "waiting"
  /\ tries[m] < MaxTries
  /\ stage' = [stage EXCEPT ![m] = "trying"]
  /\ tries' = [tries EXCEPT ![m] = @ + 1]
  /\ UNCHANGED copies

\* The mail server takes a copy: one for each try.
HandOver(m) ==
  /\ stage[m] = "trying"
  /\ copies[m] < tries[m]
  /\ copies' = [copies EXCEPT ![m] = @ + 1]
  /\ UNCHANGED <<stage, tries>>

Postpone(m) ==
  /\ stage[m] = "trying"
  /\ tries[m] < MaxTries
  /\ stage' = [stage EXCEPT ![m] = "waiting"]
  /\ UNCHANGED <<tries, copies>>

Leave(m) ==
  /\ stage[m] = "trying"
  /\ \/ copies[m] > 0 /\ stage' = [stage EXCEPT ![m] = "sent"]
     \/ tries[m] = MaxTries /\ stage' = [stage EXCEPT ![m] = "dead"]
  /\ tries' = [tries EXCEPT ![m] = 0]
  /\ UNCHANGED copies

Next ==
  \E m \in Mails : Post(m) \/ Try(m) \/ HandOver(m) \/ Postpone(m) \/ Leave(m)

Spec == Init /\ [][Next]_outbox

=============================================================================
