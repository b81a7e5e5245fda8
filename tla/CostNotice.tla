----------------------------- MODULE CostNotice -----------------------------
(***************************************************************************)
(* The cost of unlocking (app/state.rs, ui/app_shell.rs): before the       *)
(* unlock screen of a vault asks for a fingerprint, a background task      *)
(* reads from the file's header whether its Argon2 cost is one the user    *)
(* has to allow.  An open that fails on the cost says so too, and starting *)
(* an unlock under the notice allows it.  Files are rewritten by the cloud *)
(* meanwhile, and the user comes and goes.                                 *)
(***************************************************************************)
EXTENDS Integers

CONSTANTS Headers,       \* paths of vault files
          Costs,         \* Argon2 costs beyond what is allowed unasked
          MaxChecks      \* bound: visits and generations

NoHeader == "no path"
NoCost == 0

ASSUME CostNoticeConstants ==
  MaxChecks \in Nat /\ Costs \subseteq Nat \ {NoCost} /\ NoHeader \notin Headers

NoNotice == [path |-> NoHeader, cost |-> NoCost, visit |-> 0]

VARIABLES stands,      \* [at, path, visit]: "away", "awaiting" or "opening"; the visit is history
          startedFor,  \* kdf_check_started_for
          notice,      \* kdf_check: [path, cost], and the visit its answer is of
          generation,  \* kdf_check_generation
          checks,      \* header checks in flight: [generation, path, visit, cost], cost once read
          finger,      \* the Touch ID attempt in flight: its path, or NoHeader
          allowed,     \* confirmed_kdf_costs
          costOf       \* the cost in each header, or NoCost

costVars == <<stands, startedFor, notice, generation, checks, finger, allowed, costOf>>

Unread == -1

CostInit ==
  /\ stands = [at |-> "away", path |-> NoHeader, visit |-> 0]
  /\ startedFor = NoHeader /\ notice = NoNotice /\ generation = 0 /\ checks = {}
  /\ finger = NoHeader /\ allowed = {}
  /\ costOf = [h \in Headers |-> NoCost]    \* HeaderChanges has the rest

\* pending_kdf_confirmation: the cost in the header, unless it is allowed by now.
Asks(path) == IF costOf[path] \in allowed THEN NoCost ELSE costOf[path]

Answer(cost) == [path |-> stands.path, cost |-> cost, visit |-> stands.visit]

\* As a mistake: the answer of the visit before stays until the new one lands.
AnswerOfLastVisit(standing) == standing

Forgotten(standing) == NoNotice

\* sync_kdf_check and begin_kdf_check: the observer, after a change that leaves the user at
\* `now`, the answer `noted` and the generation g.
Observes(now, noted, g) ==
  /\ stands' = now
  /\ startedFor' = IF now.at = "awaiting" THEN now.path ELSE NoHeader
  /\ IF now.at = "awaiting" /\ startedFor # now.path
       THEN /\ g < MaxChecks
            /\ generation' = g + 1
            /\ notice' = Forgotten(noted)
            /\ checks' = checks \union {[generation |-> g + 1, path |-> now.path,
                                         visit |-> now.visit, cost |-> Unread]}
       ELSE generation' = g /\ notice' = noted /\ UNCHANGED checks

At(place, path) == [stands EXCEPT !.at = place, !.path = path]
Visits(path) == [at |-> "awaiting", path |-> path, visit |-> stands.visit + 1]

-----------------------------------------------------------------------------
(* The user.                                                               *)

\* request_password; an unlock that was started is abandoned.
AsksForPassword(path) ==
  /\ stands.visit < MaxChecks
  /\ stands # [at |-> "awaiting", path |-> path, visit |-> stands.visit]
  /\ finger' = NoHeader
  /\ Observes(Visits(path), notice, generation)
  /\ UNCHANGED <<allowed, costOf>>

\* Escape to a vault that is unlocked leaves the Touch ID attempt; a lock ends it.
Leaves ==
  /\ stands.at # "away"
  /\ finger' \in {finger, NoHeader}
  /\ Observes(At("away", NoHeader), notice, generation)
  /\ UNCHANGED <<allowed, costOf>>

NoticeShown == IF stands.at = "awaiting" /\ notice.path = stands.path THEN notice.cost ELSE NoCost

\* As a mistake: an answer that is more current leaves the checks in flight current.
SameGeneration == generation

\* note_kdf_check.
Superseded == generation + 1

\* confirm_pending_kdf_cost, then the place the unlock that was started leads to.
Confirms(place) ==
  IF NoticeShown # NoCost
    THEN /\ allowed' = allowed \union {NoticeShown}
         /\ generation < MaxChecks
         /\ Observes(place, Answer(NoCost), Superseded)
    ELSE UNCHANGED allowed /\ Observes(place, notice, generation)

\* submit_password, begin_open.
StartsOpen ==
  /\ stands.at = "awaiting"
  /\ Confirms(At("opening", stands.path))
  /\ UNCHANGED <<finger, costOf>>

\* submit_biometric_unlock; start_automatic_biometric_unlock.
TouchIdClicked ==
  /\ stands.at = "awaiting"
  /\ Confirms(stands)
  /\ finger' = stands.path
  /\ UNCHANGED costOf

TouchIdPrompts ==
  /\ stands.at = "awaiting" /\ finger = NoHeader
  /\ notice.path = stands.path /\ NoticeShown = NoCost
  /\ finger' = stands.path
  /\ UNCHANGED <<stands, startedFor, notice, generation, checks, allowed, costOf>>

\* remember_kdf_cost, for the remote of a vault that is open.
AllowsRemote(cost) ==
  /\ stands.at = "away"
  /\ allowed' = allowed \union {cost}
  /\ UNCHANGED <<stands, startedFor, notice, generation, checks, finger, costOf>>

-----------------------------------------------------------------------------
(* What comes back.                                                        *)

CheckReads(c) ==
  /\ c.cost = Unread
  /\ checks' = (checks \ {c}) \union {[c EXCEPT !.cost = Asks(c.path)]}
  /\ UNCHANGED <<stands, startedFor, notice, generation, finger, allowed, costOf>>

\* As a mistake: whatever lands is recorded.
AnyGeneration(g) == TRUE

CurrentCheck(g) == g = generation

\* finish_kdf_check.
CheckLands(c) ==
  /\ c.cost # Unread
  /\ checks' = checks \ {c}
  /\ notice' = IF CurrentCheck(c.generation)
                 THEN [path |-> c.path, cost |-> c.cost, visit |-> c.visit] ELSE notice
  /\ UNCHANGED <<stands, startedFor, generation, finger, allowed, costOf>>

\* finish_open_attempt of the open in progress: opened, or a wrong password, or the cost is
\* asked for, and the next look at the screen starts a check of its own.
OpenEnds ==
  /\ stands.at = "opening"
  /\ \/ Asks(stands.path) = NoCost
        /\ \E place \in {At("away", NoHeader), At("awaiting", stands.path)} :
             Observes(place, notice, generation)
     \/ Asks(stands.path) # NoCost
        /\ generation < MaxChecks
        /\ Observes(At("awaiting", stands.path), Answer(Asks(stands.path)), Superseded)
  /\ finger' = NoHeader
  /\ UNCHANGED <<allowed, costOf>>

\* The prompt is satisfied: the open begins and ends in one step, so the observer that started
\* a check of this screen starts no other.  From elsewhere the screen comes back.
TouchIdOpens ==
  /\ finger # NoHeader
  /\ finger' = NoHeader
  /\ LET unlocking == stands.at # "away" /\ stands.path = finger
         back == IF unlocking THEN At("awaiting", finger) ELSE Visits(finger) IN
     \/ Asks(finger) = NoCost
        /\ \E place \in {At("away", NoHeader), back} : Observes(place, notice, generation)
     \/ Asks(finger) # NoCost
        /\ stands.visit < MaxChecks /\ generation < MaxChecks
        /\ IF unlocking THEN Observes(back, Answer(Asks(finger)), Superseded)
                        ELSE Observes(back, notice, generation)
  /\ UNCHANGED <<allowed, costOf>>

TouchIdFails ==
  /\ finger # NoHeader
  /\ finger' = NoHeader
  /\ UNCHANGED <<stands, startedFor, notice, generation, checks, allowed, costOf>>

\* The cloud's next version of a file.
HeaderChanges(path) ==
  /\ \E cost \in (Costs \union {NoCost}) \ {costOf[path]} : costOf' = [costOf EXCEPT ![path] = cost]
  /\ UNCHANGED <<stands, startedFor, notice, generation, checks, finger, allowed>>

CostNext ==
  \/ \E v \in Headers : AsksForPassword(v) \/ HeaderChanges(v)
  \/ Leaves \/ StartsOpen \/ TouchIdClicked \/ TouchIdPrompts
  \/ \E c \in Costs : AllowsRemote(c)
  \/ \E c \in checks : CheckReads(c) \/ CheckLands(c)
  \/ OpenEnds \/ TouchIdOpens \/ TouchIdFails

CostSpec == CostInit /\ [][CostNext]_costVars

-----------------------------------------------------------------------------
\* Type invariant of the notice.
CostTypeOK ==
  /\ stands.at \in {"away", "awaiting", "opening"} /\ stands.visit \in 0..MaxChecks
  /\ startedFor \in Headers \union {NoHeader}
  /\ notice.path \in Headers \union {NoHeader} /\ notice.cost \in Costs \union {NoCost}
  /\ generation \in 0..MaxChecks
  /\ \A c \in checks : c.generation \in 1..generation
  /\ allowed \subseteq Costs

\* A cost the user has allowed is not asked about again: no answer read before comes late.
AskedOnlyOnce == NoticeShown \notin allowed

\* What the unlock screen shows was found out on this visit to it.
NoticeIsOfThisVisit ==
  stands.at = "awaiting" /\ notice.path = stands.path => notice.visit = stands.visit

\* The automatic prompt, which waits for the answer, does not wait for nothing.
AnswerIsComing ==
  stands.at = "awaiting" =>
    \/ notice.path = stands.path
    \/ \E c \in checks : c.generation = generation /\ c.path = stands.path

\* The notice is of what the user has yet to decide.
NoticesAreTrue == AskedOnlyOnce /\ NoticeIsOfThisVisit /\ AnswerIsComing
=============================================================================
