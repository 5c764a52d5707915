------------------------------- MODULE Account -------------------------------
(***************************************************************************)
(* One user's account: the plan and the delivery settings in his row of    *)
(* user_states, and his row of users.                                      *)
(*                                                                         *)
(* Requests that change the account run on the database worker, one after  *)
(* the other but statement by statement; /me reads it on a thread of its   *)
(* own.  Any statement can fail, and the process can stop between two of   *)
(* them; at the next start the migrations revise accounts that look older  *)
(* than the plans.                                                         *)
(*                                                                         *)
(* Plans that are paid for cannot be reached (selectTier answers           *)
(* "coming_soon") and are left out.  What a plan allows is the business of *)
(* DeliveryQuota.                                                          *)
(***************************************************************************)
EXTENDS Naturals, Sequences

CONSTANTS
    TrialDays, LastDay,     \* kTrialDays; bound of the clock
    MaxCrashes,             \* bound
    NoDay, Default, Paused  \* delivery settings: as created, or paused by the user

VARIABLES
    day,
    plan,       \* user_states: onboarded, trial_started_at, tier, intro required
    login,      \* users: there is a row; last_login is set
    task,       \* the statements left of the worker's request
    prefs,      \* delivery settings: in the row, and in AlertManager
    torn,       \* history: what a failed or lost request left half done
    me,         \* a bootstrap request: its thread, its timer, the flag, the answers
    crashes

account == <<day, plan, login, task, prefs, torn, me, crashes>>

NoMe == [thread |-> "none", timer |-> "none", replied |-> FALSE, answers |-> 0]

AccountInit ==
    /\ day = 0
    /\ plan = [onboarded |-> FALSE, trial |-> NoDay, tier |-> "none", intro |-> FALSE]
    /\ login \in {[row |-> r, last |-> FALSE] : r \in BOOLEAN}
    /\ task = <<>> /\ prefs = [row |-> Default, cached |-> Default] /\ torn = {}
    /\ me = NoMe /\ crashes = 0

-----------------------------------------------------------------------------
(* Statements on the row *)

FirstDay(d) == IF d = NoDay THEN day ELSE d

\* autoDowngradeIfTrialExpired.
DowngradeOf(p) == IF p.tier = "trial" /\ p.trial # NoDay /\ p.trial + TrialDays <= day
                  THEN [p EXCEPT !.tier = "free"] ELSE p

\* completeUserOnboarding: two statements.
MarkOnboarded(p) == [p EXCEPT !.onboarded = TRUE]
StartTrial(p) == IF p.intro THEN p
                 ELSE [p EXCEPT !.trial = FirstDay(@), !.tier = IF @ = "none" THEN "trial" ELSE @]

\* completeTour: the second of its statements.
GrantTrialAgain(p) ==                                     \* mutant: every tour starts a trial
    [p EXCEPT !.trial = day, !.tier = "trial", !.intro = FALSE]
GrantTrial(p) ==
    IF ~p.intro THEN p ELSE [p EXCEPT !.trial = FirstDay(@), !.tier = "trial", !.intro = FALSE]

\* reconcileLegacyPricingUsers, at every start: for those who have no last login.
Revise(p, l) ==
    IF l.row /\ ~l.last /\ ~p.intro /\ p.onboarded /\ (p.trial # NoDay \/ p.tier # "none")
    THEN [p EXCEPT !.intro = TRUE, !.tier = "none", !.trial = NoDay] ELSE p

-----------------------------------------------------------------------------
(* Requests on the database worker *)

Onboarding == <<"markOnboarded", "startTrial", "downgrade">>
Tour       == <<"grantTrial", "downgrade">>
SelectFree == <<"setFree", "downgrade">>
Dismiss    == <<"downgrade">>
GetPrefs   == <<"readPrefs", "cachePrefs">>
PutUncached == <<"savePrefs", "readPrefs">>               \* mutant: the cache is not told
PutPrefs   == <<"savePrefs", "readPrefs", "cachePrefs">>

Request(op) == /\ task = <<>> /\ task' = op
               /\ UNCHANGED <<day, plan, login, prefs, torn, me, crashes>>

\* The next statement of the request.
OnPlan(st, p) == /\ Head(task) = st /\ plan' = p
                 /\ UNCHANGED <<prefs, torn>>
Statement ==
    /\ task # <<>> /\ task' = Tail(task)
    /\ \/ OnPlan("markOnboarded", MarkOnboarded(plan))
       \/ /\ Head(task) = "startTrial" /\ plan' = StartTrial(plan)
          /\ torn' = torn \ {"plan"} /\ UNCHANGED prefs
       \/ OnPlan("grantTrial", GrantTrial(plan))
       \/ OnPlan("setFree", [plan EXCEPT !.tier = "free"])
       \/ OnPlan("downgrade", DowngradeOf(plan))
       \/ OnPlan("readPrefs", plan)
       \/ /\ Head(task) = "savePrefs"
          /\ \E v \in {Default, Paused} : prefs' = [prefs EXCEPT !.row = v]
          /\ UNCHANGED <<plan, torn>>
       \/ /\ Head(task) = "cachePrefs"
          /\ prefs' = [prefs EXCEPT !.cached = prefs.row]
          /\ torn' = torn \ {"prefs"} /\ UNCHANGED plan
    /\ UNCHANGED <<day, login, me, crashes>>

\* What is half done when the rest of the request is not run.
LeftHalf == {x \in {"plan", "prefs"} :
                \/ x = "plan" /\ task # <<>> /\ Head(task) = "startTrial"
                \/ x = "prefs" /\ Len(task) \in {1, 2} /\ task[Len(task)] = "cachePrefs"}

\* It fails: the handler answers 503 and gives up.  A failed downgrade is only logged.
StatementFails ==
    /\ task # <<>> /\ Head(task) # "cachePrefs"
    /\ IF Head(task) = "downgrade" THEN task' = Tail(task) /\ UNCHANGED torn
                                   ELSE task' = <<>> /\ torn' = torn \cup LeftHalf
    /\ UNCHANGED <<day, plan, login, prefs, me, crashes>>

\* register, login, google-sync and the phone number: rows of users.
SetLogin(l) == /\ task = <<>> /\ login' = l
               /\ UNCHANGED <<day, plan, task, prefs, torn, me, crashes>>
Register == ~login.row /\ SetLogin([row |-> TRUE, last |-> FALSE])
LogIn == login.row /\ ~login.last /\ SetLogin([row |-> TRUE, last |-> TRUE])
SavePhone == ~login.row /\ SetLogin([row |-> TRUE, last |-> FALSE])

-----------------------------------------------------------------------------
(* /me: a thread and a timer, and whoever comes first answers *)

MeUnchanged == UNCHANGED <<day, login, task, prefs, torn, crashes>>

AskMe == /\ me = NoMe
         /\ me' = [me EXCEPT !.thread = "started", !.timer = "set"]
         /\ UNCHANGED plan /\ MeUnchanged
MeReads == /\ me.thread = "started" /\ me' = [me EXCEPT !.thread = "done"]
           /\ plan' = DowngradeOf(plan) /\ MeUnchanged

\* finish: the first to take the flag answers.
Finish(m) == IF m.replied THEN m ELSE [m EXCEPT !.replied = TRUE, !.answers = @ + 1]

MeAnswers == /\ me.thread = "done" /\ me' = Finish([me EXCEPT !.thread = "over"])
             /\ UNCHANGED plan /\ MeUnchanged
TimerFires == me.timer = "set" /\ me' = [me EXCEPT !.timer = IF me.replied THEN "over" ELSE "late"]
MeTimer == TimerFires /\ UNCHANGED plan /\ MeUnchanged
TimerReplies == me.timer = "late" /\ me' = Finish([me EXCEPT !.timer = "over"])
MeTimesOut == TimerReplies /\ UNCHANGED plan /\ MeUnchanged

-----------------------------------------------------------------------------
NextDay == /\ day < LastDay /\ day' = day + 1
           /\ UNCHANGED <<plan, login, task, prefs, torn, me, crashes>>

\* The process stops, and starts again: migrations, then loadAlerts.
Restart == /\ crashes < MaxCrashes /\ crashes' = crashes + 1
           /\ plan' = Revise(plan, login)
           /\ prefs' = [prefs EXCEPT !.cached = prefs.row]
           /\ torn' = (torn \cup LeftHalf) \ {"prefs"}
           /\ task' = <<>> /\ me' = NoMe
           /\ UNCHANGED <<day, login>>

Worker == Statement
MeThread == MeReads \/ MeAnswers

AccountNext ==
    \/ \E op \in {Onboarding, Tour, SelectFree, Dismiss, GetPrefs, PutPrefs} : Request(op)
    \/ Worker \/ StatementFails
    \/ Register \/ LogIn \/ SavePhone
    \/ AskMe \/ MeThread \/ MeTimer \/ MeTimesOut
    \/ NextDay \/ Restart

\* The main loop runs its timers.  The database may hang.
AccountFair == WF_me(TimerFires \/ TimerReplies)

AccountSpec == AccountInit /\ [][AccountNext]_account /\ AccountFair

-----------------------------------------------------------------------------
(* Properties *)

\* What the proofs assume of the constants.
AccountConstants == TrialDays \in Nat /\ LastDay \in Nat /\ MaxCrashes \in Nat

\* Every variable has its type.
AccountTypeOK ==
    /\ day \in 0..LastDay /\ crashes \in 0..MaxCrashes
    /\ plan \in [onboarded : BOOLEAN, trial : 0..LastDay \cup {NoDay},
                 tier : {"none", "trial", "free"}, intro : BOOLEAN]
    /\ login \in [row : BOOLEAN, last : BOOLEAN]
    /\ prefs \in [row : {Default, Paused}, cached : {Default, Paused}]
    /\ torn \subseteq {"plan", "prefs"}
    /\ me \in [thread : {"none", "started", "done", "over"}, timer : {"none", "set", "late", "over"},
               replied : BOOLEAN, answers : Nat]

\* Somebody who has logged in is given one trial, and its clock is never set back.
TrialOnce == [][login.last /\ plan.trial # NoDay => plan'.trial = plan.trial]_account

\* Who has been onboarded has a plan, or is asked for the tour that grants one, unless the
\* second statement of the onboarding was never run.
OnboardedHasPlan ==
    task = <<>> /\ plan.onboarded /\ "plan" \notin torn => plan.tier # "none" \/ plan.intro

\* Between requests the settings that are honoured are those that are stored, unless a
\* request to change them stopped half way.
PrefsMatch == task = <<>> /\ "prefs" \notin torn => prefs.cached = prefs.row

\* A bootstrap is answered once, and it is answered even if the database hangs.
MeOnce == me.answers <= 1 /\ (me.thread = "over" \/ me.timer = "over" => me.answers = 1)
MeAnswered == me.timer = "set" ~> me.answers = 1 \/ me = NoMe

\* An account is what the table, the cache and the answers say it is.
AccountKept == AccountTypeOK /\ OnboardedHasPlan /\ PrefsMatch /\ MeOnce
=============================================================================
