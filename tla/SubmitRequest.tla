---------------------------- MODULE SubmitRequest ----------------------------
(***************************************************************************)
(* A submission that is judged within its request: SubmitSolutionHandler   *)
(* and updateSubmissionStatus (handlers/submission.go), on the pool of     *)
(* WorkerPool.                                                             *)
(*                                                                         *)
(* The handler checks the post, builds the program (CodeBuilder), stores a *)
(* pending row under the context of the request, calls ExecuteJob and      *)
(* updates the row under a context of its own, which ends ten seconds      *)
(* after it was made, however long the job takes.  The calls of ExecuteJob *)
(* in WorkerPool, the members of Jobs, are made by the handlers here.      *)
(* handler[j] names the step after the last one the handler of j has done. *)
(***************************************************************************)
EXTENDS WorkerPool

CONSTANTS
  Posts,       \* Posts[j]: what the client of j may post (offered: the problem has a
               \* driver for the language)
  Languages,   \* names in the table of languages
  Compiled,    \* those of them with a compile command
  Packages,    \* import paths a Go compiler knows
  MaxLapses    \* bound: failing statements, and clients that leave

Builder == INSTANCE CodeBuilder

(***************************************************************************)
(* What the compiler makes of a program: Go refuses an import it does not  *)
(* know, and one that is declared twice.                                   *)
(***************************************************************************)
Compiler(lang, text) ==
  IF lang \notin Compiled THEN "interpreted"
  ELSE IF /\ text.imports \cup text.generated \subseteq Packages
          /\ text.imports \cap text.generated = {} THEN "good" ELSE "broken"

Name(p)  == Builder!NormalizeLanguage(p.language)
Built(p) == Builder!Build(Name(p).name, p.driver, p.code)

\* The two reads a check hangs on: whether they return a row.
GetLanguageByName(p) == Name(p).name \in Languages
GetCodeProblemLanguageDetail(p) == p.offered

\* The first check a post does not pass.
Verified(p) ==
  IF ~p.wellFormed \/ ~Name(p).found THEN "400"
  ELSE IF ~GetLanguageByName(p) THEN "empty"
  ELSE IF ~GetCodeProblemLanguageDetail(p) THEN "400"
  ELSE CASE Built(p).err = "none"         -> "built"
         [] Built(p).err = "parsed"       -> "400"
         [] Built(p).err = "sanitization" -> "500"

ASSUME SubmitAssumption ==
  /\ \A j \in Jobs : \A p \in Posts[j] :
       Verified(p) = "built" => Compile[j] = Compiler(Name(p).name, Built(p).text)
  /\ MaxLapses \in Nat

VARIABLES
  post,      \* post[j]: what the client of j has posted
  handler,   \* handler[j]: the step of the handler of j
  row,       \* row[j]: submissions.status, or none
  stored,    \* stored[j]: the handler knows the id of the row
  answer,    \* answer[j]: what the client is told; empty is a reply without a body
  gone,      \* clients that have left while their handler runs
  lapsed,    \* history: posts whose insert or update has reported an error
  lapses     \* failures so far

requestVars == <<post, handler, row, stored, answer, gone, lapsed, lapses>>
submitVars  == <<vars, requestVars>>

SubmitInit ==
  /\ Init
  /\ post \in [Jobs -> UNION {Posts[j] : j \in Jobs}]
  /\ \A j \in Jobs : post[j] \in Posts[j]
  /\ handler = [j \in Jobs |-> "check"]
  /\ row = [j \in Jobs |-> "none"]
  /\ stored = [j \in Jobs |-> FALSE]
  /\ answer = [j \in Jobs |-> "none"]
  /\ gone = {}
  /\ lapsed = {}
  /\ lapses = 0

GoOn(j, from, to) == handler[j] = from /\ handler' = [handler EXCEPT ![j] = to]
Lapse == lapses < MaxLapses /\ lapses' = lapses + 1

Respond(j, from, code) ==
  /\ GoOn(j, from, "done")
  /\ answer' = [answer EXCEPT ![j] = code]

(***************************************************************************)
(* The checks, the reads and Build change nothing.                         *)
(***************************************************************************)
Prepare(j) ==
  /\ GoOn(j, "check", "insert")
  /\ Verified(post[j]) = "built"
  /\ UNCHANGED <<vars, post, row, stored, answer, gone, lapsed, lapses>>

TurnAway(j) ==
  /\ Verified(post[j]) # "built"
  /\ Respond(j, "check", Verified(post[j]))
  /\ UNCHANGED <<vars, post, row, stored, gone, lapsed, lapses>>

\* GetLanguageByName returns without a response; the other two with a bad request.
QueryFails(j) ==
  /\ post[j].wellFormed /\ Name(post[j]).found
  /\ Lapse
  /\ Respond(j, "check", "empty") \/ Respond(j, "check", "400")
  /\ UNCHANGED <<vars, post, row, stored, gone, lapsed>>

\* The client closes its connection, and the context of its request is done.
LeaveRequest(j) ==
  /\ handler[j] \in {"insert", "execute", "waiting", "update"}
  /\ j \notin gone
  /\ Lapse
  /\ gone' = gone \cup {j}
  /\ UNCHANGED <<vars, post, handler, row, stored, answer, lapsed>>

CreateSubmission(j) == row' = [row EXCEPT ![j] = "pending"]

Insert(j) ==
  /\ GoOn(j, "insert", "execute")
  /\ CreateSubmission(j)
  /\ stored' = [stored EXCEPT ![j] = TRUE]
  /\ UNCHANGED <<vars, post, answer, gone, lapsed, lapses>>

\* The error is not looked at, and the row may be there or not.
InsertFails(j) ==
  /\ GoOn(j, "insert", "execute")
  /\ \/ Lapse
     \/ j \in gone /\ UNCHANGED lapses
  /\ CreateSubmission(j) \/ UNCHANGED row
  /\ lapsed' = lapsed \cup {j}
  /\ UNCHANGED <<vars, post, stored, answer, gone>>

(***************************************************************************)
(* ExecuteJob.                                                             *)
(***************************************************************************)
Execute(j) ==
  /\ GoOn(j, "execute", "waiting")
  /\ Submit(j)
  /\ UNCHANGED <<post, row, stored, answer, gone, lapsed, lapses>>

ExecuteRefused(j) ==
  /\ GoOn(j, "execute", "update")
  /\ Refuse(j)
  /\ UNCHANGED <<post, row, stored, answer, gone, lapsed, lapses>>

Executed(j) ==
  /\ GoOn(j, "waiting", "update")
  /\ Return(j)
  /\ UNCHANGED <<post, row, stored, answer, gone, lapsed, lapses>>

(***************************************************************************)
(* updateSubmissionStatus.  The result of a job is None if it was refused. *)
(***************************************************************************)
\* Mutant: no default case, and the status starts as accepted.
StatusWithoutDefault(r) ==
  CASE r = "runtime" -> "runtime_error"
    [] r = "compile" -> "compilation_error"
    [] r = "failed"  -> "wrong_answer"
    [] OTHER         -> "accepted"

StatusOf(r) ==
  CASE r = "passed"  -> "accepted"
    [] r = "compile" -> "compilation_error"
    [] r = "failed"  -> "wrong_answer"
    [] OTHER         -> "runtime_error"

UpdateSubmissionStatus(j) == row' = [row EXCEPT ![j] = StatusOf(reply[j])]

Update(j) ==
  /\ stored[j]
  /\ UpdateSubmissionStatus(j)
  /\ Respond(j, "update", "result")
  /\ UNCHANGED <<vars, post, stored, gone, lapsed, lapses>>

\* Mutant: the update runs under the context of the request.
UpdateFailsWithRequest(j) ==
  /\ Respond(j, "update", "500")
  /\ \/ lapsed' = lapsed \cup {j} /\ UNCHANGED row
     \/ j \in gone /\ UNCHANGED <<lapsed, row>>
  /\ UNCHANGED <<vars, post, stored, gone, lapses>>

\* The ten seconds are over, there is no row with the id, or the statement fails, with
\* or without its effect.
UpdateFails(j) ==
  /\ Respond(j, "update", "500")
  /\ lapsed' = lapsed \cup {j}
  /\ \/ UNCHANGED row
     \/ stored[j] /\ UpdateSubmissionStatus(j)
  /\ UNCHANGED <<vars, post, stored, gone, lapses>>

----------------------------------------------------------------------------
Handle(j) ==
  \/ Prepare(j) \/ TurnAway(j) \/ QueryFails(j)
  \/ Insert(j) \/ InsertFails(j)
  \/ Execute(j) \/ ExecuteRefused(j) \/ Executed(j)
  \/ Update(j) \/ UpdateFails(j)

SubmitNext ==
  \/ \E j \in Jobs : Handle(j) \/ LeaveRequest(j)
  \/ \E w \in Workers : Work(w) /\ UNCHANGED requestVars

SubmitSpec == SubmitInit /\ [][SubmitNext]_submitVars

----------------------------------------------------------------------------
(* Properties. *)

Statuses == {"pending", "accepted", "wrong_answer", "runtime_error", "compilation_error"}

\* submission.go:152-167: a row that has left pending says what the program does on the
\* test cases; or it holds an error because Docker failed, or "a safe default for
\* unknown failures" because the pool refused the job.
StoredStatusIsVerdict ==
  \A j \in Jobs : row[j] \notin {"none", "pending"} =>
    \/ row[j] = StatusOf(Verdict(j))
    \/ faults > 0 /\ row[j] \in {"runtime_error", "compilation_error"}
    \/ call[j] = "refused" /\ row[j] = "runtime_error"

\* submission.go:67, 116 and 126: a handler that has ended leaves its row pending only
\* if the database, or the ten seconds, failed it, and then says so; a client that
\* leaves after its row was stored does not keep it from being judged.
PendingExplained ==
  \A j \in Jobs : handler[j] = "done" /\ row[j] = "pending" =>
    answer[j] = "500" /\ j \in lapsed
=============================================================================
