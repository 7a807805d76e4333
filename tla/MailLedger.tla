----------------------------- MODULE MailLedger -----------------------------
(***************************************************************************)
(* What a campaign promises about the mail of each recipient: it leaves    *)
(* only while the recipient's row says Sending, and a second time only     *)
(* when the first attempt ended without the worker knowing, or being able  *)
(* to note, that the mail was taken; a row says Sent only of mail that was *)
(* taken, and Failed of mail that was not, as far as the worker can tell;  *)
(* Sent and Unknown are final, and a retry takes up only the others.       *)
(***************************************************************************)
EXTENDS Naturals

CONSTANT Recipient

VARIABLES
  row,      \* row[r]: what the row says
  taken,    \* taken[r]: how often the SMTP server took the mail
  doubtful  \* recipients whose mail was taken without the worker knowing it

mvars == <<row, taken, doubtful>>

MInit ==
  /\ row = [r \in Recipient |-> "Pending"]
  /\ taken = [r \in Recipient |-> 0] /\ doubtful = {}

\* A waiting row is taken in hand, or skipped when the campaign is cancelled.
MTakeUp(r) ==
  /\ row[r] = "Pending"
  /\ \E s \in {"Sending", "Skipped"} : row' = [row EXCEPT ![r] = s]
  /\ UNCHANGED <<taken, doubtful>>

MSubmit(r) ==
  /\ row[r] = "Sending"
  /\ taken[r] = 0 \/ r \in doubtful
  /\ taken' = [taken EXCEPT ![r] = @ + 1]
  /\ UNCHANGED <<row, doubtful>>

\* Attempts are over, by an answer, a fault or a death of the worker.
MEnd(ended) ==
  /\ \A r \in ended : row[r] = "Sending"
  /\ \E outcome \in [ended -> {"Sent", "Failed", "Unknown"}] :
       /\ row' = [r \in Recipient |-> IF r \in ended THEN outcome[r] ELSE row[r]]
       /\ \A r \in ended : outcome[r] = "Sent" => taken[r] # 0
       /\ \A r \in ended : outcome[r] = "Failed" => taken[r] = 0 \/ r \in doubtful'
  /\ \E unsure \in SUBSET {r \in Recipient : row[r] = "Sending" /\ taken[r] # 0} :
       doubtful' = doubtful \cup unsure
  /\ UNCHANGED taken

MRetry ==
  /\ row' = [r \in Recipient |->
       IF row[r] \in {"Failed", "Skipped"} THEN "Pending" ELSE row[r]]
  /\ UNCHANGED <<taken, doubtful>>

MNext ==
  \/ \E r \in Recipient : MTakeUp(r) \/ MSubmit(r)
  \/ \E ended \in SUBSET Recipient : MEnd(ended)
  \/ MRetry

MSpec == MInit /\ [][MNext]_mvars
=============================================================================
