----------------------------- MODULE BulkUpload -----------------------------
(***************************************************************************)
(* An upload job of UsersService (startBulkUploadUsersJob and its twin for *)
(* managers): the rows of a batch run side by side, each looks for an      *)
(* existing user and creates one several awaits later; progress goes to    *)
(* the map of jobs and through BulkUploadGateway to who subscribed.        *)
(***************************************************************************)
EXTENDS UserAccounts

CONSTANTS Rows,        \* the number of rows of a file
          Files,       \* the files that are uploaded
          Concurrency  \* BULK_UPLOAD_CONCURRENCY, the size of a batch

Row == 1..Rows
UploadOps == {"bulkUploadUsers", "bulkUploadManagers"}

ASSUME UploadAssumption ==
  /\ Rows \in Nat /\ Concurrency \in Nat \ {0}
  /\ Files \subseteq [Row -> Forms]

VARIABLES
  job,       \* what bulkUploadJobs holds, NoJob when it has no entry
  row,       \* where each row is
  file,      \* what each row asks for
  kind,      \* users or managers
  good, bad, \* the local counters success and failed
  made,      \* history: the users the rows created
  snapshot,  \* latestSnapshots of the gateway
  seen       \* the last progress a subscribed client got, NoJob before

jobVars == <<job, row, file, kind, good, bad, made, snapshot, seen>>

Status == {"none", "queued", "running", "completed", "failed"}
Job == [status : Status, processed : Nat, success : Nat, failed : Nat]
NoJob == [status |-> "none", processed |-> 0, success |-> 0, failed |-> 0]
RowStage == {"waiting", "inserting", "mailing", "settled"}

\* recordBulkUploadProgress: the payload of one call.
Progress(s, g, b) ==
  [status |-> s, processed |-> g + b, success |-> g, failed |-> b]

\* It replaces the job's entry and the gateway's snapshot and reaches whoever
\* is in the job's room.
Report(p) ==
  /\ job' = p /\ snapshot' = p
  /\ seen' = IF seen = NoJob THEN NoJob ELSE p

-----------------------------------------------------------------------------
\* startBulkUpload...Job answers with the job's id before any row is looked at.
StartJob(o, f) ==
  /\ kind = "none"
  /\ load + Concurrency <= MaxLoad /\ load' = load + Concurrency
  /\ kind' = o /\ file' = f
  /\ Report(Progress("queued", 0, 0))
  /\ UNCHANGED <<users, reqs, row, good, bad, made>>

\* setImmediate: the job runs, reads the entities and reports.
RunJob ==
  /\ job.status = "queued"
  /\ Report(Progress("running", 0, 0))
  /\ UNCHANGED <<users, reqs, load, row, file, kind, good, bad, made>>

\* The read of the entities fails, or the file has no rows at all to slice.
JobFails ==
  /\ job.status = "running" /\ \A i \in Row : row[i] = "waiting"
  /\ Report([job EXCEPT !.status = "failed"])
  /\ UNCHANGED <<users, reqs, load, row, file, kind, good, bad, made>>

\* A row may run when its batch does: the rows of earlier batches are settled.
InBatch(i) ==
  /\ job.status = "running" /\ row[i] # "settled"
  /\ \A j \in Row : (j - 1) \div Concurrency < (i - 1) \div Concurrency
                      => row[j] = "settled"

\* The row throws: failed++ and a report.
RowFails(i) ==
  /\ row' = [row EXCEPT ![i] = "settled"]
  /\ bad' = bad + 1
  /\ Report(Progress("running", good, bad + 1))
  /\ UNCHANGED <<users, good, made>>

\* What a row of each kind refuses.  Users are looked for by phone alone,
\* managers by address in whatever role: less and more than the indexes forbid.
UserRowRefuses(f) == f.phone = NoPhone \/ PhoneInUse(f)
ManagerRowRefuses(f) ==
  \/ f.email = NoEmail
  \/ \E r \in Roles : EmailInUse(f, r)
RowRefuses(f) == IF kind = "bulkUploadUsers" THEN UserRowRefuses(f)
                                             ELSE ManagerRowRefuses(f)

\* What it creates.  A user keeps the address as it was typed and is invited.
UserOfRow(f)    == NewUser(f.email, f.phone, "User", "invited")
ManagerOfRow(f) == NewUser(Lower[f.email], NoPhone, "TenantAdmin", "registered")
DocumentOfRow(f) == IF kind = "bulkUploadUsers" THEN UserOfRow(f)
                                                ELSE ManagerOfRow(f)

\* Input, existing user, entity path.  (The path may lead nowhere.)
LookRow(i) ==
  /\ InBatch(i) /\ row[i] = "waiting"
  /\ \/ RowFails(i)
     \/ /\ ~RowRefuses(file[i])
        /\ row' = [row EXCEPT ![i] = "inserting"]
        /\ UNCHANGED <<users, good, bad, made, job, snapshot, seen>>
  /\ UNCHANGED <<reqs, load, file, kind>>

\* create(): refused, or the user is stored.
CreateRow(i, u) ==
  LET d == DocumentOfRow(file[i]) IN
  /\ InBatch(i) /\ row[i] = "inserting" /\ Fresh(u)
  /\ \/ SaveRefuses(u, d) /\ RowFails(i)
     \/ /\ ~SaveRefuses(u, d) /\ Inserts(u, d)
        /\ made' = made \cup {u}
        /\ row' = [row EXCEPT ![i] = "mailing"]
        /\ UNCHANGED <<good, bad, job, snapshot, seen>>
  /\ UNCHANGED <<reqs, load, file, kind>>

\* Mutant of MailRow: an invitation that cannot be queued fails the row.
MailRowOrFail(i) ==
  /\ InBatch(i) /\ row[i] = "mailing"
  /\ \/ RowFails(i)
     \/ /\ row' = [row EXCEPT ![i] = "settled"] /\ good' = good + 1
        /\ Report(Progress("running", good + 1, bad))
        /\ UNCHANGED <<users, bad, made>>
  /\ UNCHANGED <<reqs, load, file, kind>>

\* The invitation is queued, or cannot be: the row has succeeded all the same.
MailRow(i) ==
  /\ InBatch(i) /\ row[i] = "mailing"
  /\ row' = [row EXCEPT ![i] = "settled"]
  /\ good' = good + 1
  /\ Report(Progress("running", good + 1, bad))
  /\ UNCHANGED <<users, reqs, load, file, kind, bad, made>>

\* Every batch is through.
CompleteJob ==
  /\ job.status = "running" /\ \A i \in Row : row[i] = "settled"
  /\ Report(Progress("completed", good, bad))
  /\ UNCHANGED <<users, reqs, load, row, file, kind, good, bad, made>>

\* Half an hour after its end the job leaves the map; the snapshot stays.
ForgetJob ==
  /\ job.status \in {"completed", "failed"}
  /\ job' = NoJob
  /\ UNCHANGED <<users, reqs, load, row, file, kind, good, bad, made,
                 snapshot, seen>>

\* A client joins the room and is sent the snapshot, or leaves.
Subscribe ==
  /\ snapshot # NoJob /\ seen = NoJob
  /\ seen' = snapshot
  /\ UNCHANGED <<users, reqs, load, job, row, file, kind, good, bad, made,
                 snapshot>>
Unsubscribe ==
  /\ seen # NoJob
  /\ seen' = NoJob
  /\ UNCHANGED <<users, reqs, load, job, row, file, kind, good, bad, made,
                 snapshot>>

-----------------------------------------------------------------------------
UploadInit ==
  /\ job = NoJob /\ snapshot = NoJob /\ seen = NoJob
  /\ row = [i \in Row |-> "waiting"] /\ file = [i \in Row |-> NoForm]
  /\ kind = "none" /\ good = 0 /\ bad = 0 /\ made = {}

UploadNext ==
  \/ \E o \in UploadOps, f \in Files : StartJob(o, f)
  \/ RunJob \/ JobFails \/ CompleteJob \/ ForgetJob
  \/ \E i \in Row : LookRow(i) \/ MailRow(i)
  \/ \E i \in Row, u \in Users : CreateRow(i, u)
  \/ Subscribe \/ Unsubscribe

UploadTypeOK ==
  /\ {job, snapshot, seen} \subseteq Job
  /\ row \in [Row -> RowStage] /\ file \in [Row -> Form]
  /\ kind \in UploadOps \cup {"none"}
  /\ good \in Nat /\ bad \in Nat
  /\ made \subseteq Users

\* What a client reads about an upload is true while other requests create,
\* change and erase the same users: no report claims more users than the rows
\* have created so far, none counts more rows than have ended, and once the
\* job says completed every row is accounted for and exactly the successes
\* have a user (partial failures, two rows of a batch that look at the same
\* time and are told apart by the index, an invitation that cannot be queued).
ReportsTrue ==
  \A p \in {job, snapshot, seen} :
    /\ p.success <= Cardinality(made)
    /\ p.success + p.failed = p.processed
    /\ p.processed <= Cardinality({i \in Row : row[i] = "settled"})
    /\ p.status = "completed" =>
         p.processed = Rows /\ p.success = Cardinality(made)
=============================================================================
