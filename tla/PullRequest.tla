---------------------------- MODULE PullRequest ----------------------------
(***************************************************************************)
(* pr-open, pr-wait and pr-merge of gitops.py, against a pull request on   *)
(* GitHub which people, CI and the commands themselves change meanwhile.   *)
(*                                                                         *)
(* Every request is tried with the gh program first and, when that fails,  *)
(* through the API; the two tries are one step here, but for the reading   *)
(* of the status, which takes the API two requests.  A try may have taken  *)
(* effect although its answer is a failure.                                *)
(***************************************************************************)
EXTENDS Integers, FiniteSets, Sequences, SequencesExt

CONSTANTS
  Runs,             \* check runs of CI
  Contexts,         \* commit statuses, the older kind of check
  MaxAttempts, FailureThreshold,
  CloseOnFailure, OpenIssueOnFailure,
  RequireGreen,     \* ~ --allow-ci-yellow
  DeleteBranch

ASSUME PullRequestAssumption ==
  /\ Runs \cap Contexts = {}
  /\ MaxAttempts \in Nat \ {0} /\ FailureThreshold \in Nat \ {0}
  /\ {CloseOnFailure, OpenIssueOnFailure, RequireGreen, DeleteBranch} \subseteq BOOLEAN

Checks == Runs \cup Contexts

VARIABLES
  pr,        \* the state of the pull request
  branch,    \* the head branch exists
  ci,        \* what CI has reported of each check of the head
  issues,    \* issues which are open
  health,    \* what the swarm-health file holds
  opener,    \* pr-open: at, ok
  waiter,    \* pr-wait: at, attempt, streak, why it ended
  merger,    \* pr-merge: at, why it ended, through what
  polls,     \* history: what each poll of the wait has seen, MaxAttempts and one of them
  moved,     \* history: what changed since the merger read it
  hidden,    \* history: the merger's read did not show some check which had not passed
  got        \* what the first of the two requests has told pr-wait and pr-merge

github == <<pr, branch, ci, issues>>
vars == <<pr, branch, ci, issues, health, opener, waiter, merger, polls, moved, hidden, got>>

\* pushed: the head it named has been pushed over since.
Nothing == [state |-> "", pushed |-> FALSE]
Idle == [at |-> "idle", attempt |-> 1, streak |-> 0, why |-> ""]

Init ==
  /\ pr = "NONE" /\ branch = TRUE /\ ci = [c \in Checks |-> "absent"] /\ issues = 0
  /\ health \in {"high", "low", "unusable"}
  /\ opener = [at |-> "open", ok |-> FALSE]
  /\ waiter = Idle
  /\ merger = [at |-> "idle", why |-> "", source |-> ""]
  /\ polls = <<>> /\ moved = {} /\ hidden = FALSE
  /\ got = [who \in {"wait", "merge"} |-> Nothing]

----------------------------------------------------------------------------
(* GitHub: pushes, CI, people.                                              *)

Unchanged == UNCHANGED <<issues, opener, waiter, merger, polls, hidden>>
Moves(what) == moved' = IF merger.at \in {"read", "merge"} THEN moved \cup {what} ELSE {}

\* A push gives the request a new head, of which no check is known yet.
Push ==
  /\ pr = "OPEN"
  /\ ci' = [c \in Checks |-> "absent"] /\ Moves("checks")
  /\ got' = [who \in {"wait", "merge"} |->
               IF got[who] = Nothing THEN Nothing ELSE [got[who] EXCEPT !.pushed = TRUE]]
  /\ UNCHANGED <<pr, branch, health>> /\ Unchanged

\* A check is queued or ends; "odd" is a conclusion the code has no name for, as
\* STARTUP_FAILURE.  A rerun queues it again.
Report(c, state) ==
  /\ pr = "OPEN"
  /\ ci[c] # state
  /\ ci[c] # "queued" => state = "queued"
  /\ state = "odd" => c \in Runs
  /\ ci' = [ci EXCEPT ![c] = state] /\ Moves("checks")
  /\ UNCHANGED <<pr, branch, health, got>> /\ Unchanged

\* Someone closes or merges the request; nobody opens it again.
Person(state) ==
  /\ pr = "OPEN"
  /\ pr' = state
  /\ UNCHANGED <<branch, ci, health, moved, got>> /\ Unchanged

WriteHealth(value) ==
  /\ health' = value
  /\ Moves("health")
  /\ UNCHANGED <<pr, branch, ci, got>> /\ Unchanged

----------------------------------------------------------------------------
(* Requests.  gh and api are each ok, lost (done, but reported as failed)   *)
(* or refused; the API is asked only when gh failed.                        *)

Answers == {"ok", "lost", "refused"}
Asked(gh, api) == IF gh = "ok" THEN <<gh>> ELSE <<gh, api>>
Done(gh, api) == \E i \in DOMAIN Asked(gh, api) : Asked(gh, api)[i] # "refused"
Times(gh, api) == Cardinality({i \in DOMAIN Asked(gh, api) : Asked(gh, api)[i] # "refused"})
\* Mutant: an API failure is not noticed.
Answered_Always(gh, api) == TRUE
Answered(gh, api) == gh = "ok" \/ api = "ok"

\* What once done cannot be done again: GitHub refuses the second try.
Once(allowed, gh, api) ==
  /\ ~allowed => gh = "refused" /\ api = "refused"
  /\ gh # "refused" => api = "refused"

\* get_pr_status.  gh is asked once.  The API is asked for the request, and then for the
\* commit statuses of the head it had; a push in between leaves those of the old head,
\* which may have become anything.
Ask(who) ==
  /\ IF who = "wait" THEN waiter.at \in {"poll", "late"} ELSE merger.at = "read"
  /\ got[who] = Nothing
  /\ got' = [got EXCEPT ![who] = [state |-> IF pr = "MERGED" THEN "CLOSED" ELSE pr, pushed |-> FALSE]]
  /\ UNCHANGED <<github, health, opener, waiter, merger, polls, moved, hidden>>

OfOldHead ==
  {[c \in Checks |-> IF c \in Contexts THEN old[c] ELSE "absent"] :
     old \in [Contexts -> {"absent", "queued", "passed", "failed"}]}
Shown(who) == IF got[who].pushed THEN OfOldHead ELSE {ci}

\* Where the answer comes from; "none" when neither answers, or not both times.
Sources(who) == IF got[who] = Nothing THEN {"gh", "none"} ELSE {"api", "none"}

\* _parse_rollup looks for the conclusion of each check, which commit statuses do not have:
\* they are pending.  A conclusion it does not know is neither failed nor pending.
Listed(source, shown) ==
  {c \in IF source = "gh" THEN Checks ELSE Contexts : shown[c] # "absent"}

Failed(source, shown) ==
  {c \in Listed(source, shown) : shown[c] = "failed" /\ (source = "gh" => c \in Runs)}

Pending(source, shown) ==
  {c \in Listed(source, shown) : shown[c] = "queued" \/ (source = "gh" /\ c \in Contexts)}

Status(who, source, shown) ==
  [state |-> IF source = "api" THEN got[who].state ELSE pr,
   failed |-> Failed(source, shown) # {},
   passed |-> Failed(source, shown) = {} /\ Pending(source, shown) = {}]

\* open_pr.  GitHub refuses a second request for the same branch.
OpenPr(gh, api) ==
  /\ opener.at = "open"
  /\ Once(pr = "NONE", gh, api)
  /\ pr' = IF Done(gh, api) THEN "OPEN" ELSE pr
  /\ opener' = [at |-> IF Answered(gh, api) THEN "end" ELSE "failed", ok |-> Answered(gh, api)]
  /\ UNCHANGED <<branch, ci, issues, health, waiter, merger, polls, moved, hidden, got>>

\* The operator runs pr-open again after it has failed.
OpenAgain ==
  /\ opener.at = "failed" /\ pr = "NONE"
  /\ opener' = [opener EXCEPT !.at = "open"]
  /\ UNCHANGED <<github, health, waiter, merger, polls, moved, hidden, got>>

----------------------------------------------------------------------------
(* pr-wait, which is run once, as pr-merge is.                              *)

StartWait ==
  /\ pr # "NONE" /\ waiter.at = "idle"
  /\ waiter' = [Idle EXCEPT !.at = "poll"]
  /\ UNCHANGED <<github, health, opener, merger, polls, moved, hidden, got>>

End(why) == [waiter EXCEPT !.at = "end", !.why = why]

\* _close_and_issue_if_configured, from the first thing it has to do.
AfterClose == IF OpenIssueOnFailure THEN "issue" ELSE "end"
Stop(why, streak) ==
  [waiter EXCEPT !.at = IF CloseOnFailure THEN "close" ELSE AfterClose, !.why = why, !.streak = streak]

\* Mutant: a poll without failures does not end the streak.
Streak_Kept(status) == IF status.failed THEN waiter.streak + 1 ELSE waiter.streak

Streak(status) == IF status.failed THEN waiter.streak + 1 ELSE 0

\* Mutant: one attempt too many.
Again_PastLast(streak) ==
  IF waiter.attempt <= MaxAttempts
  THEN [waiter EXCEPT !.attempt = @ + 1, !.streak = streak]
  ELSE [waiter EXCEPT !.at = "late", !.streak = streak]

\* The next attempt, or the last look after all of them.
Again(streak) ==
  IF waiter.attempt < MaxAttempts
  THEN [waiter EXCEPT !.attempt = @ + 1, !.streak = streak]
  ELSE [waiter EXCEPT !.at = "late", !.streak = streak]

AfterPoll(status) ==
  IF status.state # "OPEN" THEN End("state")
  ELSE IF status.passed THEN End("passed")
  ELSE IF Streak(status) >= FailureThreshold THEN Stop("repeated", Streak(status))
  ELSE Again(Streak(status))

\* One poll; when neither gh nor the API answers, the command ends in an error.
Poll(source, shown) ==
  /\ waiter.at = "poll"
  /\ LET status == Status("wait", source, shown)
     IN  /\ waiter' = IF source = "none" THEN End("error") ELSE AfterPoll(status)
         /\ polls' = IF source = "none" \/ Len(polls) > MaxAttempts THEN polls ELSE Append(polls, status)
  /\ got' = [got EXCEPT !["wait"] = Nothing]
  /\ UNCHANGED <<github, health, opener, merger, moved, hidden>>

\* After the last attempt the status is read once more, for the report only.
LastLook(source) ==
  /\ waiter.at = "late"
  /\ waiter' = IF source = "none" THEN End("error") ELSE Stop("timeout", waiter.streak)
  /\ got' = [got EXCEPT !["wait"] = Nothing]
  /\ UNCHANGED <<github, health, opener, merger, polls, moved, hidden>>

\* close_pr.  It closes an open request; on any other, GitHub may say yes or no.
ClosePr(gh, api) ==
  /\ waiter.at = "close"
  /\ pr' = IF pr = "OPEN" /\ Done(gh, api) THEN "CLOSED" ELSE pr
  /\ waiter' = IF Answered(gh, api) THEN [waiter EXCEPT !.at = AfterClose] ELSE End("error")
  /\ UNCHANGED <<branch, ci, issues, health, opener, merger, polls, moved, hidden, got>>

\* open_issue.  Every try which takes effect opens one.
OpenIssue(gh, api) ==
  /\ waiter.at = "issue"
  /\ issues' = issues + Times(gh, api)
  /\ waiter' = IF Answered(gh, api) THEN [waiter EXCEPT !.at = "end"] ELSE End("error")
  /\ UNCHANGED <<pr, branch, ci, health, opener, merger, polls, moved, hidden, got>>

----------------------------------------------------------------------------
(* pr-merge: the health file is read, then the status, then it merges.      *)

StartMerge ==
  /\ pr # "NONE" /\ merger.at = "idle"
  /\ merger' = [at |-> "score", why |-> "", source |-> ""]
  /\ UNCHANGED <<github, health, opener, waiter, polls, moved, hidden, got>>

Refused(why) == [merger EXCEPT !.at = "end", !.why = why]

\* read_swarm_health_score; a score which is too low is refused after the checks.
ReadScore ==
  /\ merger.at = "score"
  /\ merger' = IF health = "unusable" THEN Refused("health")
               ELSE [merger EXCEPT !.at = "read", !.why = health]
  /\ UNCHANGED <<github, health, opener, waiter, polls, moved, hidden, got>>

\* Mutant: pending checks do not hold the merge back.
Policy_FailedOnly(status) ==
  IF status.state # "OPEN" THEN Refused("state")
  ELSE IF RequireGreen /\ status.failed THEN Refused("checks")
  ELSE IF merger.why = "low" THEN Refused("score")
  ELSE [merger EXCEPT !.at = "merge"]

\* The policy, on the status as it has just been read.
Policy(status) ==
  IF status.state # "OPEN" THEN Refused("state")
  ELSE IF RequireGreen /\ ~status.passed THEN Refused("checks")
  ELSE IF merger.why = "low" THEN Refused("score")
  ELSE [merger EXCEPT !.at = "merge"]

ReadChecks(source, shown) ==
  /\ merger.at = "read"
  /\ merger' = IF source = "none" THEN Refused("error") ELSE Policy(Status("merge", source, shown))
  /\ moved' = IF merger'.at # "merge" THEN {}
              ELSE IF got["merge"].pushed THEN moved \cup {"checks"} ELSE moved \ {"checks"}
  /\ hidden' = (/\ merger'.at = "merge"
                /\ \E c \in Checks : shown[c] # "passed" /\ c \notin Failed(source, shown) \cup Pending(source, shown))
  /\ got' = [got EXCEPT !["merge"] = Nothing]
  /\ UNCHANGED <<github, health, opener, waiter, polls>>

\* The head is merged as it is by now.  gh deletes the branch too, the API does not.
MergePr(gh, api) ==
  /\ merger.at = "merge"
  /\ Once(pr = "OPEN", gh, api)
  /\ pr' = IF Done(gh, api) THEN "MERGED" ELSE pr
  /\ branch' = (branch /\ ~(DeleteBranch /\ gh = "ok"))
  /\ merger' = [at |-> "end", why |-> IF Answered(gh, api) THEN "merged" ELSE "error",
                source |-> IF gh = "ok" THEN "gh" ELSE "api"]
  /\ moved' = {} /\ hidden' = FALSE
  /\ UNCHANGED <<ci, issues, health, opener, waiter, polls, got>>

----------------------------------------------------------------------------
GitHub ==
  \/ Push
  \/ \E c \in Checks, state \in {"queued", "passed", "failed", "odd"} : Report(c, state)
  \/ \E state \in {"CLOSED", "MERGED"} : Person(state)
  \/ \E value \in {"high", "low", "unusable"} : WriteHealth(value)

Wait ==
  \/ Ask("wait")
  \/ \E source \in Sources("wait") :
       LastLook(source) \/ \E shown \in Shown("wait") : Poll(source, shown)
  \/ \E gh, api \in Answers : ClosePr(gh, api) \/ OpenIssue(gh, api)

Merge ==
  \/ ReadScore
  \/ Ask("merge")
  \/ \E source \in Sources("merge"), shown \in Shown("merge") : ReadChecks(source, shown)
  \/ \E gh, api \in Answers : MergePr(gh, api)

Opening == OpenAgain \/ \E gh, api \in Answers : OpenPr(gh, api)

Next == GitHub \/ Opening \/ StartWait \/ Wait \/ StartMerge \/ Merge

\* Nothing has to happen: the wait is bounded by its attempts.
Spec == Init /\ [][Next]_vars

----------------------------------------------------------------------------
(* Properties.                                                              *)

Merging == merger.at = "merge" /\ merger' # merger /\ pr' # pr
Stopped == waiter.at \in {"close", "issue"} \/ (waiter.at = "end" /\ waiter.why \in {"repeated", "timeout"})

\* Every variable keeps its type.
TypeOK ==
  /\ pr \in {"NONE", "OPEN", "CLOSED", "MERGED"} /\ branch \in BOOLEAN
  /\ ci \in [Checks -> {"absent", "queued", "passed", "failed", "odd"}] /\ issues \in Nat
  /\ health \in {"high", "low", "unusable"}
  /\ opener \in [at : {"open", "failed", "end"}, ok : BOOLEAN]
  /\ waiter \in [at : {"idle", "poll", "late", "close", "issue", "end"}, attempt : 1..MaxAttempts,
                 streak : 0..FailureThreshold,
                 why : {"", "state", "passed", "repeated", "timeout", "error"}]
  /\ merger \in [at : {"idle", "score", "read", "merge", "end"},
                 why : {"", "high", "low", "health", "state", "checks", "score", "merged", "error"},
                 source : {"", "gh", "api"}]
  /\ polls \in Seq([state : {"NONE", "OPEN", "CLOSED", "MERGED"}, failed : BOOLEAN, passed : BOOLEAN])
  /\ moved \subseteq {"checks", "health"} /\ hidden \in BOOLEAN
  /\ got \in [{"wait", "merge"} -> {Nothing} \cup [state : {"NONE", "OPEN", "CLOSED"}, pushed : BOOLEAN]]

StopJustified ==
  Stopped =>
    LET n == Len(polls)
        InARow(last) == last >= FailureThreshold
                        /\ \A i \in (last - FailureThreshold + 1)..last : polls[i].failed
    IN  /\ \A i \in 1..n : polls[i].state = "OPEN" /\ ~polls[i].passed
        /\ waiter.why = "repeated" => InARow(n)
        /\ waiter.why = "timeout" => n = MaxAttempts /\ ~\E last \in 1..n : InARow(last)

\* An issue is filed only about a request which is no longer open, if it was to be
\* closed: a close which failed ends the command first.
IssueAfterClose ==
  [][issues' > issues /\ CloseOnFailure => pr # "OPEN"]_vars

\* What pr-merge merges has a high score and is green, unless either changed after it
\* was read, or the read of the checks did not show one: not yet registered, of the
\* other kind through the API, of a head which was pushed over between the two requests
\* of the API, or with a conclusion the code has no name for.
MergedByPolicy ==
  [][Merging =>
       /\ health = "high" \/ "health" \in moved
       /\ RequireGreen => hidden \/ "checks" \in moved \/ \A c \in Checks : ci[c] = "passed"]_vars

\* The policy as README.md states it: a merge happens only when the checks are green.
MergedOnlyGreen ==
  [][Merging /\ RequireGreen =>
       \A c \in Checks : ci[c] \notin {"failed", "odd"}]_vars

ReportsTrue ==
  /\ opener.ok => pr # "NONE"
  /\ merger.at = "end" /\ merger.why = "merged" =>
       pr = "MERGED" /\ (merger.source = "gh" /\ DeleteBranch => ~branch)

\* The wait stops a request, and so closes it, only after polls none of which saw it
\* green or no longer open: for repeated failures after FailureThreshold polls in a row
\* with a failed check, otherwise after all the attempts and no such row of polls.  A
\* command which reports success tells the truth: the request exists, or it is merged
\* and, where gh did it, its branch is deleted.  And every variable keeps its type.
CommandsSound == TypeOK /\ StopJustified /\ ReportsTrue

=============================================================================
