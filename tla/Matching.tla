------------------------------ MODULE Matching ------------------------------
(***************************************************************************)
(* ONE trainer and the score of the match with ONE job request: the rows   *)
(* the score is computed from, and what changes them.  The skills of a     *)
(* profile are replaced in two statements, which a score may be computed   *)
(* between.                                                                *)
(*                                                                         *)
(* Scores are in points, 0 .. 100, and their weighted sum in hundredths of *)
(* a point.  Ratios are rounded as Math.round does it, but exactly.  A job *)
(* asks for MinYears years of a skill or for none.                         *)
(***************************************************************************)
EXTENDS Integers, FiniteSets

CONSTANTS
  Skills,         \* the skills a job may list
  MinYears,       \* the years of experience a job may ask for, at least 1
  MaxMoney,       \* bound: rates and budgets
  MaxCount,       \* bound: languages, portfolio items, applications
  Weights,        \* the weights of placements, in 1 .. 50
  Updates,        \* slots: updates of the profile in flight
  MaxEdits        \* bound: the edits of a behaviour

VARIABLES
  job,      \* what the request lists, the same throughout
  skills,   \* TrainerSkill: for each skill, missing or its years
  trainer,  \* TrainerProfile, its portfolio and its applications
  weights,  \* weights of the trainer's ACTIVE placements
  update,   \* updates of the skills in flight
  edits     \* how many edits were made

vars == <<job, skills, trainer, weights, update, edits>>

(* A nullable column is a set of at most one value.                        *)
Nullable(S) == {{}} \cup {{n} : n \in S}

(* first ?? second ?? default.                                             *)
OrElse(first, second, default) ==
  CHOOSE n \in first \cup second \cup {default} :
    n \in IF first # {} THEN first ELSE IF second # {} THEN second ELSE {default}

(* Skills the trainer does not have, and the job does not list.            *)
Missing == {-1}
Unlisted == [required |-> FALSE, min |-> {-1}]

TrainerSkills == [Skills -> {Missing} \cup Nullable(0 .. MinYears)]
JobSkills == [Skills -> {Unlisted} \cup [required : BOOLEAN, min : Nullable({MinYears})]]
Ranges == [min : Nullable(0 .. MaxMoney), max : Nullable(0 .. MaxMoney)]
Trainers ==
  [rate : Ranges, languages : 0 .. MaxCount, verified : BOOLEAN,
   portfolio : 0 .. MaxCount, total : 0 .. MaxCount, accepted : 0 .. MaxCount]

Idle == [at |-> "idle"]
Slots == [at : {"delete", "create"}, skills : TrainerSkills]

NoSkills == [s \in Skills |-> Missing]
NoRange == [min |-> {}, max |-> {}]

(* The job is any that can be posted; a new profile is blank.              *)
Init ==
  /\ job \in [skills : JobSkills, languages : 0 .. MaxCount, budget : Ranges]
  /\ skills = NoSkills
  /\ trainer = [rate |-> NoRange, languages |-> 0, verified |-> FALSE,
                portfolio |-> 0, total |-> 0, accepted |-> 0]
  /\ weights = {}
  /\ update = [u \in Updates |-> Idle]
  /\ edits = 0

-----------------------------------------------------------------------------
(* The score of a match.                                                   *)

(* Math.round(100 * n / d).                                                *)
Percent(n, d) == (200 * n + d) \div (2 * d)

AtMost(limit, n) == IF n > limit THEN limit ELSE n
AtLeast(limit, n) == IF n < limit THEN limit ELSE n

Years(years) == OrElse(years, {}, 0)
Enough(years, wanted) == \A min \in wanted.min : Years(years) >= min

(* In fifths of MinYears: all of the weight of a skill or, with too few    *)
(* years, their share, but two fifths at least.                            *)
Credit(wanted, years) ==
  (IF wanted.required THEN 2 ELSE 1)
    * (IF Enough(years, wanted) THEN 5 * MinYears ELSE AtLeast(2 * MinYears, 5 * Years(years)))

(* The sum of f over its domain, as a count of units.                      *)
Sum(f) == Cardinality(UNION {{s} \X (1 .. f[s]) : s \in DOMAIN f})

SkillsScore(sk) ==
  LET listed  == {s \in Skills : job.skills[s] # Unlisted}
      present == {s \in listed : sk[s] # Missing}
      hit     == Sum([s \in present |-> Credit(job.skills[s], sk[s])])
      total   == Sum([s \in listed |-> Credit(job.skills[s], {MinYears})])
  IN  IF listed = {} THEN 60 ELSE Percent(hit, total)

(* A trainer's entries may repeat a language in other letters.             *)
LanguagesScore(tr) ==
  IF job.languages = 0 THEN 50 ELSE AtMost(100, Percent(tr.languages, job.languages))

RateScore(rate, budget) ==
  LET lo   == OrElse(rate.min, rate.max, 0)
      hi   == OrElse(rate.max, rate.min, lo)
      from == OrElse(budget.min, budget.max, 0)
      upto == OrElse(budget.max, budget.min, from)
      overlap == AtLeast(0, AtMost(upto, hi) - AtLeast(from, lo))
      span    == AtLeast(1, hi - lo)
  IN  IF rate = NoRange THEN 60
      ELSE IF budget = NoRange THEN 70
      ELSE IF hi <= upto /\ lo >= from THEN 100
      ELSE IF lo > upto THEN AtLeast(0, Percent(2 * upto - lo, AtLeast(1, upto)))
      ELSE IF hi < from THEN 70
      ELSE AtMost(95, Percent(2 * span + 3 * overlap, 5 * span))

TrustScore(tr) ==
  AtMost(100, 40 + (IF tr.verified THEN 40 ELSE 0) + AtMost(20, tr.portfolio * 5))

HistoryScore(tr) ==
  IF tr.total = 0 THEN 50
  ELSE AtMost(100, Percent((40 + AtMost(30, tr.total * 3)) * tr.total + 30 * tr.accepted,
                           100 * tr.total))

Parts(sk, tr) ==
  <<SkillsScore(sk), LanguagesScore(tr), RateScore(tr.rate, job.budget), TrustScore(tr),
    HistoryScore(tr)>>

(* MATCHING_WEIGHTS, in hundredths of a point.                             *)
Organic(sk, tr) ==
  LET p == Parts(sk, tr) IN 50 * p[1] + 15 * p[2] + 15 * p[3] + 10 * p[4] + 10 * p[5]

(* The weights of a subject's placements: their sum, but 50 at most.       *)
Boost(ws) == AtMost(50, Sum([w \in ws |-> w]))

Perfect == 100 * 100

(* A variant the checks refute: the boost is added and the sum clamped.    *)
CombineRaw(organic, boost) == (AtMost(Perfect, organic + 100 * boost) + 50) \div 100

(* The boost takes its share of what is missing to 100 points.             *)
Combine(organic, boost) ==
  LET total == 100 * organic + boost * AtLeast(0, Perfect - organic)
  IN  (AtLeast(0, AtMost(100 * Perfect, total)) + 50 * 100) \div Perfect

Score(sk, tr, ws) == Combine(Organic(sk, tr), Boost(ws))

-----------------------------------------------------------------------------
(* The profile.                                                            *)

Edit == edits < MaxEdits /\ edits' = edits + 1

(* updateMe: a range is checked as far as the request gives it.            *)
Given(given, was) == IF given # {} THEN given ELSE was

UpdateFields ==
  /\ Edit
  /\ \/ \E given \in Ranges :
          /\ \A lo \in given.min, hi \in given.max : lo <= hi
          /\ trainer' = [trainer EXCEPT !.rate.min = Given(given.min, @),
                                       !.rate.max = Given(given.max, @)]
     \/ \E n \in 0 .. MaxCount : trainer' = [trainer EXCEPT !.languages = n]
  /\ UNCHANGED <<job, skills, weights, update>>

(* updateMe with skills: the rows are deleted, then created, in statements *)
(* of their own; rows another update created meanwhile are kept.           *)
UpdateSkills(u) ==
  /\ update[u] = Idle
  /\ Edit
  /\ \E new \in TrainerSkills : update' = [update EXCEPT ![u] = [at |-> "delete", skills |-> new]]
  /\ UNCHANGED <<job, skills, trainer, weights>>

DeleteSkills(u) ==
  /\ update[u].at = "delete"
  /\ skills' = NoSkills
  /\ update' = [update EXCEPT ![u].at = "create"]
  /\ UNCHANGED <<job, trainer, weights, edits>>

CreateSkills(u) ==
  /\ update[u].at = "create"
  /\ skills' = [s \in Skills |-> IF skills[s] # Missing THEN skills[s] ELSE update[u].skills[s]]
  /\ update' = [update EXCEPT ![u] = Idle]
  /\ UNCHANGED <<job, trainer, weights, edits>>

(* The process stops half way.                                             *)
Stops(u) ==
  /\ update[u] # Idle
  /\ update' = [update EXCEPT ![u] = Idle]
  /\ UNCHANGED <<job, skills, trainer, weights, edits>>

-----------------------------------------------------------------------------
(* What the other components do to the rows.                               *)

SetTrainer(tr) == Edit /\ trainer' = tr /\ UNCHANGED <<job, skills, weights, update>>

Verified == \E v \in BOOLEAN : SetTrainer([trainer EXCEPT !.verified = v])

PortfolioChanges == \E n \in 0 .. MaxCount : SetTrainer([trainer EXCEPT !.portfolio = n])

(* Applications are decided; none is ever removed.                         *)
HistoryGrows ==
  \E total \in trainer.total .. MaxCount, accepted \in 0 .. MaxCount :
    accepted <= total /\ SetTrainer([trainer EXCEPT !.total = total, !.accepted = accepted])

PlacementsChange ==
  Edit /\ weights' \in SUBSET Weights /\ UNCHANGED <<job, skills, trainer, update>>

Next ==
  \/ UpdateFields
  \/ \E u \in Updates : UpdateSkills(u) \/ DeleteSkills(u) \/ CreateSkills(u) \/ Stops(u)
  \/ Verified
  \/ PortfolioChanges
  \/ HistoryGrows
  \/ PlacementsChange

Spec == Init /\ [][Next]_vars

-----------------------------------------------------------------------------
(* Properties.                                                             *)

(* Every variable keeps its type.                                          *)
TypeOK ==
  /\ job \in [skills : JobSkills, languages : 0 .. MaxCount, budget : Ranges]
  /\ skills \in TrainerSkills /\ trainer \in Trainers /\ weights \subseteq Weights
  /\ update \in [Updates -> Slots \cup {Idle}] /\ edits \in 0 .. MaxEdits

(* The schema of a match: every score, and their sum, is 0 .. 100, even of *)
(* half an update and of a range whose ends are swapped.                   *)
ScoresInRange ==
  /\ \A i \in 1 .. 5 : Parts(skills, trainer)[i] \in 0 .. 100
  /\ Score(skills, trainer, weights) \in 0 .. 100

(* What a trainer gains never costs a point: a skill, years, a language,   *)
(* the badge, a portfolio item, an accepted application, a placement.      *)
Gained(years, was) == was = Missing \/ (years # Missing /\ Years(years) >= Years(was))

BetterSkills ==
  {sk \in TrainerSkills : \A s \in Skills : Gained(sk[s], skills[s])}

BetterTrainers ==
  {[trainer EXCEPT !.languages = @ + 1], [trainer EXCEPT !.verified = TRUE],
   [trainer EXCEPT !.portfolio = @ + 1],
   [trainer EXCEPT !.accepted = AtMost(trainer.total, @ + 1)],
   [trainer EXCEPT !.total = @ + 1, !.accepted = @ + 1]}

GainsNeverCost ==
  LET now == Score(skills, trainer, weights) IN
  /\ \A sk \in BetterSkills : Score(sk, trainer, weights) >= now
  /\ \A tr \in BetterTrainers : Score(skills, tr, weights) >= now
  /\ \A w \in Weights : Score(skills, trainer, weights \cup {w}) >= now

(* "A low-quality match can't outrank a high-quality unsponsored one by    *)
(* more than half the scale": a boost only lifts, by 50 points at most,    *)
(* and a rival that is halfway from the trainer's own quality to 100 stays *)
(* ahead.                                                                  *)
BoostIsCapped ==
  LET organic == Organic(skills, trainer)
      boosted == Combine(organic, Boost(weights))
      rival   == (organic + Perfect + 201) \div 2
  IN  /\ boosted \in Combine(organic, 0) .. (Combine(organic, 0) + 50)
      /\ rival <= Perfect => boosted < Combine(rival, 0)

(* A rank is in range, rewards what is better, and is not for sale.        *)
RankingIsFair == TypeOK /\ ScoresInRange /\ GainsNeverCost /\ BoostIsCapped
=============================================================================
