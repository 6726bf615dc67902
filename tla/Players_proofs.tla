---------------------------- MODULE Players_proofs ----------------------------
(***************************************************************************)
(* For any paths, trajectories and bounds: the types of the players, and   *)
(* that what they play is played to its end and without a jump.            *)
(***************************************************************************)
EXTENDS MCPlayers, WellFoundedInduction, TLAPS

-----------------------------------------------------------------------------
(* Numbers                                                                 *)

LEMMA LeastOf ==
  ASSUME NEW T, T \subseteq Nat, T # {}
  PROVE  \E x \in T : \A y \in T : x <= y
<1> DEFINE R == OpToRel(<, Nat)
<1>1. IsWellFoundedOn(R, Nat)
  BY NatLessThanWellFounded
<1> HIDE DEF R
<1>2. PICK x \in T : \A y \in T : ~ (<<y, x>> \in R)
  BY <1>1, WFMin
<1>3. \A y \in T : y < x => <<y, x>> \in R
  BY DEF R, OpToRel
<1>4. ASSUME NEW y \in T PROVE x <= y
  <2>1. x \in Nat /\ y \in Nat /\ ~ (y < x)
    BY <1>2, <1>3
  <2> QED  BY <2>1
<1> QED  BY <1>4

LEMMA Rises ==
  ASSUME NEW n \in Nat, NEW f, \A i \in 0..n : f[i] \in Nat,
         \A i \in 1..n : f[i - 1] < f[i],
         NEW m \in 0..n, m # n
  PROVE  f[m] < f[n]
<1> DEFINE Bad == {k \in 1..n : ~ (f[n - k] < f[n])}
<1>1. Bad = {}
  <2> SUFFICES ASSUME Bad # {} PROVE FALSE
    OBVIOUS
  <2>1. PICK k \in Bad : \A j \in Bad : k <= j
    <3>1. Bad \subseteq Nat
      OBVIOUS
    <3> HIDE DEF Bad
    <3> QED  BY <3>1, LeastOf
  <2>2. k \in 1..n /\ ~ (f[n - k] < f[n])
    OBVIOUS
  <2>3. n - k + 1 \in 1..n /\ (n - k + 1) - 1 = n - k /\ n - k \in 0..n
    BY <2>2
  <2>4. f[n - k] < f[n - k + 1] /\ f[n - k] \in Nat /\ f[n - k + 1] \in Nat /\ f[n] \in Nat
    BY <2>3
  <2>5. k # 1 => f[n - k + 1] < f[n]
    <3> SUFFICES ASSUME k # 1 PROVE f[n - k + 1] < f[n]
      OBVIOUS
    <3>1. k - 1 \in 1..n /\ k - 1 \notin Bad /\ n - (k - 1) = n - k + 1
      BY <2>1, <2>2
    <3> QED  BY <3>1
  <2> QED  BY <2>2, <2>3, <2>4, <2>5
<1>2. n - m \in 1..n /\ n - (n - m) = m
  OBVIOUS
<1>3. n - m \notin Bad
  BY <1>1
<1> QED  BY <1>2, <1>3

(* The quotient as the code's integer arithmetic has it: rounded down.     *)
LEMMA Quotient ==
  ASSUME NEW a \in Int, NEW b \in Nat \ {0}
  PROVE  /\ a \div b \in Int /\ b * (a \div b) \in Int
         /\ b * (a \div b) <= a /\ a < b * (a \div b) + b
OBVIOUS

LEMMA QuotientUnique ==
  ASSUME NEW a \in Int, NEW b \in Nat \ {0}, NEW q \in Int, b * q <= a, a < b * q + b
  PROVE  a \div b = q
OBVIOUS

LEMMA QuotientWithin ==
  ASSUME NEW a \in Nat, NEW b \in Nat \ {0}, NEW c \in Nat, a <= b * c
  PROVE  a \div b \in 0..c
OBVIOUS

(* Numbers that are no further apart than the divisor have quotients that  *)
(* are no further apart than one.                                          *)
LEMMA QuotientsNear ==
  ASSUME NEW a \in Int, NEW b \in Int, NEW w \in Nat \ {0}, a <= b + w, b <= a + w
  PROVE  (a \div w) - (b \div w) \in -1..1
OBVIOUS

LEMMA HalfOf ==
  ASSUME NEW d \in Nat \ {0}, NEW t \in Nat
  PROVE  (d * t) \div (2 * d) = t \div 2
OBVIOUS

-----------------------------------------------------------------------------
(* The path of a motion generator                                          *)

LEMMA TimesOfSections ==
  ASSUME NEW path \in Seq(Poses), NEW from \in Poses, NEW i \in DOMAIN path
  PROVE  /\ Start(path, from, i) \in Poses /\ path[i] \in Poses
         /\ Poses \subseteq Int
         /\ getTime(path, from, i) \in Nat /\ getTime(path, from, i) >= 2
         /\ path[i] # Start(path, from, i) =>
              getTime(path, from, i) = 2 * Abs(path[i] - Start(path, from, i))
<1>1. path[i] \in Poses /\ i \in 1..Len(path) /\ (i # 1 => path[i - 1] \in Poses)
  OBVIOUS
<1>2. Start(path, from, i) \in Poses
  BY <1>1 DEF Start
<1>3. path[i] \in Int /\ Start(path, from, i) \in Int
  BY <1>1, <1>2, GeneratorAssumption
<1> QED  BY <1>1, <1>2, <1>3, GeneratorAssumption DEF getTime, Most, Abs

(* What the recursion of EndTimes defines: by contradiction, from the      *)
(* shortest beginning of the path for which there are no such times.       *)
EndsUpTo(end, path, from, m) ==
  /\ end \in [0..m -> Nat] /\ end[0] = 0
  /\ \A i \in 1..m : end[i] = end[i - 1] + getTime(path, from, i)

LEMMA EndTimesExist ==
  ASSUME NEW path \in Seq(Poses), NEW from \in Poses
  PROVE  \E end : EndsUpTo(end, path, from, Len(path))
<1> DEFINE Bad == {m \in 0..Len(path) : ~ \E end : EndsUpTo(end, path, from, m)}
<1> SUFFICES ASSUME Bad # {} PROVE FALSE
  <2>1. Len(path) \in 0..Len(path)
    OBVIOUS
  <2>2. Len(path) \notin Bad => \E end : EndsUpTo(end, path, from, Len(path))
    BY <2>1
  <2> HIDE DEF Bad
  <2> QED  BY <2>2
<1>1. PICK m \in Bad : \A k \in Bad : m <= k
  <2>1. Bad \subseteq Nat
    OBVIOUS
  <2> HIDE DEF Bad
  <2> QED  BY <2>1, LeastOf
<1>2. CASE m = 0
  <2>1. EndsUpTo([i \in 0..0 |-> 0], path, from, 0)
    BY DEF EndsUpTo
  <2> QED  BY <1>2, <2>1
<1>3. CASE m # 0
  <2>1. m \in Nat /\ m - 1 \in Nat /\ m - 1 \in 0..Len(path) /\ m \in DOMAIN path
    BY <1>3
  <2>2. m - 1 \notin Bad
    BY <1>1, <2>1
  <2>3. PICK end : EndsUpTo(end, path, from, m - 1)
    BY <2>1, <2>2
  <2> DEFINE new == [i \in 0..m |-> IF i = m THEN end[m - 1] + getTime(path, from, m)
                                           ELSE end[i]]
  <2>4. getTime(path, from, m) \in Nat
    BY <2>1, TimesOfSections
  <2>5. new \in [0..m -> Nat] /\ new[0] = 0
    BY <2>1, <2>3, <2>4 DEF EndsUpTo
  <2>6. ASSUME NEW i \in 1..m PROVE new[i] = new[i - 1] + getTime(path, from, i)
    <3>1. CASE i = m
      BY <2>1, <3>1
    <3>2. CASE i # m
      BY <2>1, <2>3, <3>2 DEF EndsUpTo
    <3> QED  BY <3>1, <3>2
  <2>7. EndsUpTo(new, path, from, m)
    BY <2>5, <2>6 DEF EndsUpTo
  <2> QED  BY <2>7
<1> QED  BY <1>2, <1>3

LEMMA EndTimesAre ==
  ASSUME NEW path \in Seq(Poses), NEW from \in Poses
  PROVE  EndsUpTo(EndTimes(path, from), path, from, Len(path))
<1> DEFINE n == Len(path)
           S == EndTimes(path, from)
<1>1. PICK end : EndsUpTo(end, path, from, n)
  BY EndTimesExist
<1>2. end = [i \in 0..n |-> IF i = 0 THEN 0 ELSE end[i - 1] + getTime(path, from, i)]
  BY <1>1 DEF EndsUpTo
<1>3. S = [i \in 0..n |-> IF i = 0 THEN 0 ELSE S[i - 1] + getTime(path, from, i)]
  BY <1>2 DEF EndTimes
<1> DEFINE Bad == {m \in 0..n : S[m] # end[m]}
<1>4. Bad = {}
  <2> SUFFICES ASSUME Bad # {} PROVE FALSE
    OBVIOUS
  <2>1. PICK m \in Bad : \A k \in Bad : m <= k
    <3>1. Bad \subseteq Nat
      OBVIOUS
    <3> HIDE DEF Bad
    <3> QED  BY <3>1, LeastOf
  <2> HIDE DEF S
  <2>2. m \in 0..n /\ S[m] # end[m] /\ m # 0
    BY <1>1, <1>3 DEF EndsUpTo
  <2>3. m - 1 \in 0..n /\ m - 1 \notin Bad
    BY <2>1, <2>2
  <2> QED  BY <1>1, <1>3, <2>2, <2>3 DEF EndsUpTo
<1>5. S = end
  <2>1. DOMAIN S = 0..n /\ S = [i \in 0..n |-> S[i]]
    BY <1>3
  <2> HIDE DEF S
  <2>2. \A i \in 0..n : S[i] = end[i]
    BY <1>4
  <2> QED  BY <1>1, <2>1, <2>2 DEF EndsUpTo
<1> QED  BY <1>1, <1>5

(* What a plan is: section after section, each of a time of its own; its   *)
(* curve fits that time if it is the only one or a Cartesian one.          *)
StartOf(i) == IF i = 1 THEN 0 ELSE trajectory[i - 1].end
Fits(i) ==
  LET s == trajectory[i] IN
  /\ s.over = s.end - StartOf(i)
  /\ s.to # s.from => s.over = 2 * Abs(s.to - s.from)

Planned(g) ==
  /\ Len(trajectory) = Len(Via[g]) /\ Via[g] # <<>>
  /\ trajectory[Len(trajectory)].to = Via[g][Len(Via[g])]
  /\ \A i \in DOMAIN trajectory :
       /\ StartOf(i) + 2 <= trajectory[i].end
       /\ i # Len(trajectory) => trajectory[i].end < trajectory[Len(trajectory)].end
       /\ i # 1 => trajectory[i].from = trajectory[i - 1].to
       /\ Fitting(g) => Fits(i)

Sound == trajectory \in Seq(Sections) /\ \A i \in DOMAIN trajectory : trajectory[i].over >= 2

LEMMA PathsArePlanned ==
  ASSUME NEW g \in Goals, robot \in Poses, kind \in {"joint", "cartesian"}, kind' = kind,
         trajectory' = generateTrajectoryImpl(Via[g], robot)
  PROVE  Sound' /\ Planned(g)' /\ trajectory' # <<>> /\ 1 \in DOMAIN trajectory'
<1> DEFINE path == Via[g]
           end == EndTimes(path, robot)
           time(i) == getTime(path, robot, i)
<1>1. path \in Seq(Poses) /\ path # <<>> /\ Len(path) \in Nat \ {0} /\ DOMAIN path = 1..Len(path)
  BY GeneratorAssumption
<1>2. /\ end \in [0..Len(path) -> Nat] /\ end[0] = 0
      /\ \A i \in 1..Len(path) : end[i] = end[i - 1] + time(i)
  BY <1>1, EndTimesAre DEF EndsUpTo
<1>3. ASSUME NEW i \in 1..Len(path)
      PROVE  /\ Start(path, robot, i) \in Poses /\ path[i] \in Poses /\ Poses \subseteq Int
             /\ time(i) \in Nat /\ time(i) >= 2
             /\ path[i] # Start(path, robot, i) =>
                  time(i) = 2 * Abs(path[i] - Start(path, robot, i))
  BY <1>1, TimesOfSections
<1> HIDE DEF end, time
<1>4. ASSUME NEW i \in 1..Len(path)
      PROVE  /\ end[i] \in Nat /\ end[i - 1] \in Nat /\ end[i] = end[i - 1] + time(i)
             /\ end[i] >= 2
  <2>1. i \in Nat \ {0} /\ i \in 0..Len(path) /\ i - 1 \in 0..Len(path)
    BY <1>1
  <2>2. end[i] \in Nat /\ end[i - 1] \in Nat /\ end[i] = end[i - 1] + time(i)
    BY <1>2, <2>1
  <2> QED  BY <1>3, <2>2
<1>5. ASSUME NEW i \in 1..Len(path)
      PROVE  /\ Over(path, robot, i) \in Nat /\ Over(path, robot, i) >= 2
             /\ kind = "cartesian" \/ Len(path) = 1 => Over(path, robot, i) = time(i)
  <2>1. Over(path, robot, i) = IF kind = "joint" THEN end[i] ELSE time(i)
    BY DEF Over, end, time
  <2>2. Len(path) = 1 => end[i] = time(i)
    BY <1>2, <1>3, <1>4
  <2> QED  BY <1>3, <1>4, <2>1, <2>2
<1>6. trajectory' = [i \in 1..Len(path) |->
                       [from |-> Start(path, robot, i), to |-> path[i],
                        over |-> Over(path, robot, i), end |-> end[i]]]
  BY <1>1 DEF generateTrajectoryImpl, end
<1>7. /\ trajectory' \in [1..Len(path) -> Sections] /\ DOMAIN trajectory' = 1..Len(path)
      /\ trajectory' \in Seq(Sections) /\ Len(trajectory') = Len(path)
      /\ trajectory' # <<>>
  <2>1. trajectory' \in [1..Len(path) -> Sections] /\ DOMAIN trajectory' = 1..Len(path)
    BY <1>3, <1>4, <1>5, <1>6 DEF Sections
  <2> HIDE DEF path
  <2>2. trajectory' \in Seq(Sections) /\ Len(trajectory') = Len(path)
    BY <1>1, <2>1
  <2> QED  BY <1>1, <2>1, <2>2
<1>8. Sound'
  <2>1. ASSUME NEW i \in 1..Len(path) PROVE trajectory'[i].over = Over(path, robot, i)
    BY <1>6
  <2> QED  BY <1>5, <1>7, <2>1 DEF Sound
<1>9. ASSUME NEW i \in DOMAIN trajectory'
      PROVE  /\ StartOf(i)' = end[i - 1]
             /\ StartOf(i)' + 2 <= trajectory'[i].end
             /\ i # Len(path) => trajectory'[i].end < trajectory'[Len(path)].end
             /\ i # 1 => trajectory'[i].from = trajectory'[i - 1].to
             /\ Fitting(g)' => Fits(i)'
  <2>1. i \in 1..Len(path) /\ (i # 1 => i - 1 \in 1..Len(path))
    BY <1>1, <1>7
  <2>2. /\ trajectory'[i].from = Start(path, robot, i) /\ trajectory'[i].to = path[i]
        /\ trajectory'[i].over = Over(path, robot, i) /\ trajectory'[i].end = end[i]
        /\ i # 1 => trajectory'[i - 1].end = end[i - 1] /\ trajectory'[i - 1].to = path[i - 1]
    BY <1>6, <2>1
  <2>3. StartOf(i)' = end[i - 1]
    BY <1>2, <2>1, <2>2 DEF StartOf
  <2>4. i # 1 => trajectory'[i].from = trajectory'[i - 1].to
    BY <2>1, <2>2 DEF Start
  <2>5. Fitting(g)' => Fits(i)'
    BY <1>3, <1>4, <1>5, <2>1, <2>2, <2>3 DEF Fits, Fitting
  <2>6. i # Len(path) => end[i] < end[Len(path)]
    <3>1. \A k \in 0..Len(path) : end[k] \in Nat
      BY <1>1, <1>2
    <3>2. \A k \in 1..Len(path) : end[k - 1] < end[k]
      BY <1>3, <1>4
    <3>3. i \in 0..Len(path)
      BY <1>1, <2>1
    <3> QED  BY <1>1, <3>1, <3>2, <3>3, Rises
  <2>7. trajectory'[i].end = end[i] /\ trajectory'[Len(path)].end = end[Len(path)]
    BY <1>1, <1>6, <2>1
  <2> QED  BY <1>3, <1>4, <2>1, <2>2, <2>3, <2>4, <2>5, <2>6, <2>7
<1>10. trajectory'[Len(trajectory')].to = Via[g][Len(Via[g])]
  BY <1>1, <1>6, <1>7
<1> QED  BY <1>1, <1>7, <1>8, <1>9, <1>10 DEF Planned

(* A command lies on its section.                                          *)
LEMMA CommandsOnPath ==
  ASSUME Sound, NEW i \in DOMAIN trajectory, NEW t \in Nat
  PROVE  /\ stepImpl(i, t) \in Poses
         /\ t >= trajectory[i].over => stepImpl(i, t) = trajectory[i].to
<1> DEFINE s == trajectory[i]
           d == Abs(s.to - s.from)
           way == (d * Least(t, s.over)) \div s.over
<1>1. /\ s.from \in Poses /\ s.to \in Poses /\ s.over \in Nat \ {0} /\ Poses \subseteq Int
      /\ \A p, q \in Poses : p..q \subseteq Poses
  <2>1. s \in Sections /\ s.over >= 2
    BY DEF Sound
  <2> QED  BY <2>1, GeneratorAssumption DEF Sections
<1>2. s.from \in Int /\ s.to \in Int /\ d \in Nat
  <2>1. s.from \in Int /\ s.to \in Int
    BY <1>1
  <2> QED  BY <2>1 DEF Abs
<1>3. Least(t, s.over) \in 0..s.over /\ (t >= s.over => Least(t, s.over) = s.over)
  BY <1>1 DEF Least
<1>4. stepImpl(i, t) = IF s.to >= s.from THEN s.from + way ELSE s.from - way
  BY DEF stepImpl
<1> HIDE DEF s
<1>5. way \in 0..d
  <2> DEFINE m == Least(t, s.over)
  <2>1. m \in Nat /\ m <= s.over
    BY <1>1, <1>3
  <2> HIDE DEF m, d
  <2>2. d * m \in Nat /\ d * m <= s.over * d
    BY <1>1, <1>2, <2>1
  <2> QED  BY <1>1, <1>2, <2>2, QuotientWithin DEF m
<1>6. t >= s.over => way = d
  <2> HIDE DEF d
  <2> SUFFICES ASSUME t >= s.over PROVE (d * s.over) \div s.over = d
    BY <1>3
  <2>1. d * s.over = s.over * d /\ d * s.over \in Int
    BY <1>1, <1>2
  <2> QED  BY <1>1, <1>2, <2>1, QuotientUnique
<1> HIDE DEF way
<1>7. CASE s.to >= s.from
  <2>1. d = s.to - s.from /\ s.from + way \in s.from..s.to
    BY <1>2, <1>5, <1>7 DEF Abs
  <2> QED  BY <1>1, <1>2, <1>4, <1>6, <1>7, <2>1 DEF s
<1>8. CASE ~ (s.to >= s.from)
  <2>1. d = s.from - s.to /\ s.from - way \in s.to..s.from
    BY <1>2, <1>5, <1>8 DEF Abs
  <2> QED  BY <1>1, <1>2, <1>4, <1>6, <1>8, <2>1 DEF s
<1> QED  BY <1>7, <1>8

-----------------------------------------------------------------------------
(* The types of a motion generator: a thread finds a plan.                 *)
Playing == {"start", "prepare", "update", "reset", "step"}
Stepping == TypeOK /\ Sound /\ \A g \in Goals : thread[g] \in Playing => trajectory # <<>>

LEMMA InitStepping == Init => Stepping
<1> SUFFICES ASSUME Init PROVE Stepping
  OBVIOUS
<1>1. <<>> \in Seq(Sections) /\ DOMAIN <<>> = {}
  OBVIOUS
<1>2. robot \in Poses /\ control_goal_ \in Poses /\ NoGoal \in Goals \cup {NoGoal}
  BY GeneratorAssumption DEF Init
<1>3. goal \in [Goals -> Status] /\ kind \in {"joint", "cartesian"} /\ alone \in BOOLEAN
  BY DEF Init, Status
<1>4. /\ thread \in [Goals -> {"none", "start", "prepare", "update", "reset", "step", "gone"}]
      /\ state_ \in {"IDLE", "MOVING"} /\ progress_ \in BOOLEAN
      /\ controlling \in BOOLEAN /\ terminated \in BOOLEAN
  BY DEF Init
<1>5. /\ t_ \in Nat /\ t_start_ \in Nat /\ t_start_ <= t_
      /\ scaling_ \in Nat /\ scaling_goal_ \in Nat /\ last_scaling_ \in Nat
      /\ ramp \in Nat /\ time_scaling_ \in Nat /\ steps_ \in Nat
  BY DEF Init
<1>6. TypeOK
  BY <1>1, <1>2, <1>3, <1>4, <1>5 DEF Init, TypeOK
<1> QED  BY <1>1, <1>6 DEF Init, Stepping, Sound, Playing

LEMMA AcceptStepping ==
  ASSUME Stepping, NEW g \in Goals, Accept(g)
  PROVE  Stepping'
<1>1. robot \in Poses /\ kind \in {"joint", "cartesian"} /\ kind' = kind
      /\ trajectory' = generateTrajectoryImpl(Via[g], robot)
  BY DEF Stepping, TypeOK, Accept, node
<1>2. Sound' /\ trajectory' # <<>> /\ 1 \in DOMAIN trajectory'
  BY <1>1, PathsArePlanned
<1>3. TypeOK'
  <2>1. /\ goal' \in [Goals -> Status]
        /\ thread' \in [Goals ->
             {"none", "start", "prepare", "update", "reset", "step", "gone"}]
        /\ pending' \in Goals \cup {NoGoal} /\ terminated' \in BOOLEAN
    BY DEF Stepping, TypeOK, Accept, Status, Active
  <2>2. /\ trajectory' \in Seq(Sections) /\ current_section_' = 1 /\ t_' = 0 /\ t_start_' = 0
        /\ UNCHANGED <<node, state_, progress_, scales, request, world>>
    BY <1>2 DEF Accept, Sound
  <2> QED  BY <1>2, <2>1, <2>2 DEF Stepping, TypeOK, node, scales, request, world
<1> QED  BY <1>2, <1>3 DEF Stepping

LEMMA ExecutorStepping ==
  ASSUME Stepping,
         \/ \E g \in Goals : handle_goal(g) \/ PoseTimeout(g) \/ handle_cancel(g)
         \/ setTimeScalingCallback \/ UNCHANGED vars
  PROVE  Stepping'
<1>1. UNCHANGED <<node, thread, progress_, plan, scales, world, terminated>>
  BY DEF handle_goal, PoseTimeout, handle_cancel, setTimeScalingCallback, vars
<1>2. /\ goal' \in [Goals -> Status] /\ pending' \in Goals \cup {NoGoal}
      /\ state_' \in {"IDLE", "MOVING"} /\ time_scaling_' \in Nat /\ steps_' \in Nat
  BY GeneratorAssumption
  DEF Stepping, TypeOK, handle_goal, PoseTimeout, handle_cancel, setTimeScalingCallback, vars,
      request, Canceling, Status, Active
<1> QED  BY <1>1, <1>2 DEF Stepping, TypeOK, Sound, node, plan, scales, world

LEMMA Later ==
  ASSUME NEW t \in Nat, NEW n \in Nat, NEW start \in Nat, start <= t, NEW end \in Nat
  PROVE  /\ t + n \in Nat /\ start <= t + n /\ (t + n) - start \in Nat
         /\ t + n > end => end <= t + n /\ (t + n) - end \in Nat
OBVIOUS

(* One step along the plan, and one of the ramp.                           *)
LEMMA StepAlong ==
  ASSUME Stepping, trajectory # <<>>, scaling_' \in Nat, step(Publish), UNCHANGED trajectory
  PROVE  /\ current_section_' \in DOMAIN trajectory /\ t_' \in Nat /\ t_start_' \in Nat
         /\ t_start_' <= t_' /\ t_' = t_ + scaling_' /\ t_' - t_start_' \in Nat
         /\ control_goal_' \in Poses /\ robot' \in Poses /\ progress_' \in BOOLEAN
<1> DEFINE s == trajectory[current_section_]
           next == t_ + scaling_' > s.end /\ current_section_ < Len(trajectory)
<1>1. /\ current_section_ \in 1..Len(trajectory) /\ Len(trajectory) \in Nat
      /\ DOMAIN trajectory = 1..Len(trajectory) /\ s \in Sections
  BY DEF Stepping, TypeOK, Sound
<1>2. t_ \in Nat /\ t_start_ \in Nat /\ t_start_ <= t_ /\ robot \in Poses /\ s.end \in Nat
  BY <1>1 DEF Stepping, TypeOK, Sections
<1>3. /\ t_' = t_ + scaling_'
      /\ next => current_section_' = current_section_ + 1 /\ t_start_' = s.end
      /\ ~ next => current_section_' = current_section_ /\ t_start_' = t_start_
      /\ progress_' \in BOOLEAN /\ Publish
  BY <1>1, <1>2 DEF step
<1> HIDE DEF s
<1>4. current_section_' \in DOMAIN trajectory
  BY <1>1, <1>3
<1>5. /\ t_' \in Nat /\ t_start_ <= t_' /\ t_' - t_start_ \in Nat
      /\ next => s.end <= t_' /\ t_' - s.end \in Nat
  BY <1>2, <1>3, Later
<1>6. t_start_' \in Nat /\ t_start_' <= t_' /\ t_' - t_start_' \in Nat
  BY <1>2, <1>3, <1>5
<1>7. control_goal_' \in Poses
  BY <1>3, <1>4, <1>6, CommandsOnPath DEF Publish, Stepping
<1> QED  BY <1>2, <1>3, <1>4, <1>5, <1>6, <1>7 DEF Publish

LEMMA RampTypes ==
  ASSUME scaling_ \in Nat, scaling_goal_ \in Nat, last_scaling_ \in Nat, ramp \in Nat, Ramp,
         NEW limit \in Nat, scaling_ <= limit, scaling_goal_ <= limit, last_scaling_ <= limit
  PROVE  scaling_' \in Nat /\ scaling_' <= limit /\ ramp' \in Nat
BY DEF Ramp, Between, Least, Most

LEMMA ThreadStepping ==
  ASSUME Stepping, NEW g \in Goals, Thread(g)
  PROVE  Stepping'
<1> DEFINE Threads == {"none", "start", "prepare", "update", "reset", "step", "gone"}
           Kept == UNCHANGED <<node, trajectory, pending, terminated>>
<1>1. thread[g] \in Playing /\ trajectory # <<>>
  BY DEF Thread, executeGoal, prepareMotion, Cancel, Rescale, updateState, executeTrajectory,
     At, Playing, Stepping
<1>2. thread' \in [Goals -> Threads]
  BY DEF Thread, executeGoal, prepareMotion, Cancel, Rescale, updateState, executeTrajectory,
     At, Goto, End, Switch, Stepping, TypeOK
<1>3. goal' \in [Goals -> Status] /\ state_' \in {"IDLE", "MOVING"}
  BY DEF Thread, executeGoal, prepareMotion, Cancel, Rescale, updateState, executeTrajectory,
     End, Switch, Stepping, TypeOK, Status, Ended
<1>4. ASSUME NEW h \in Goals, thread'[h] \in Playing PROVE thread[h] \in Playing
  BY <1>1, <1>4
  DEF Thread, executeGoal, prepareMotion, Cancel, Rescale, updateState, executeTrajectory,
      Goto, End, Switch, Stepping, TypeOK
<1>5. UNCHANGED <<node, trajectory, pending, terminated>>
  BY DEF Thread, executeGoal, prepareMotion, Cancel, Rescale, updateState, executeTrajectory,
     plan
<1>6. /\ scaling_' \in Nat /\ scaling_goal_' \in Nat /\ last_scaling_' \in Nat
      /\ ramp' \in Nat /\ time_scaling_' \in Nat /\ steps_' \in Nat
  <2>1. CASE executeTrajectory(g)
    <3>1. /\ scaling_ \in Nat /\ scaling_goal_ \in Nat /\ last_scaling_ \in Nat /\ ramp \in Nat
          /\ time_scaling_ \in Nat /\ steps_ \in Nat
      BY DEF Stepping, TypeOK
    <3>2. Most(scaling_, Most(scaling_goal_, last_scaling_)) \in Nat
          /\ \A n \in {scaling_, scaling_goal_, last_scaling_} :
               n <= Most(scaling_, Most(scaling_goal_, last_scaling_))
      BY <3>1 DEF Most
    <3>3. Ramp => scaling_' \in Nat /\ ramp' \in Nat
      BY <3>1, <3>2, RampTypes
    <3> QED  BY <2>1, <3>1, <3>3 DEF executeTrajectory, request
  <2>2. CASE ~ executeTrajectory(g)
    <3>1. CASE prepareMotion(g)
      BY <3>1 DEF prepareMotion, Stepping, TypeOK
    <3>2. CASE Rescale(g)
      BY <3>2 DEF Rescale, setTimeScaling, request, Stepping, TypeOK
    <3>3. CASE executeGoal(g) \/ Cancel(g) \/ updateState(g)
      BY <3>3 DEF executeGoal, Cancel, updateState, scales, request, Stepping, TypeOK
    <3> QED  BY <2>2, <3>1, <3>2, <3>3 DEF Thread
  <2> QED  BY <2>1, <2>2
<1>7. /\ current_section_' \in DOMAIN trajectory /\ t_' \in Nat /\ t_start_' \in Nat
      /\ t_start_' <= t_' /\ control_goal_' \in Poses /\ robot' \in Poses
      /\ progress_' \in BOOLEAN /\ controlling' \in BOOLEAN
  <2>1. CASE executeTrajectory(g) /\ step(Publish)
    BY <1>1, <1>5, <1>6, <2>1, StepAlong DEF executeTrajectory, Stepping, TypeOK
  <2>2. CASE ~ (executeTrajectory(g) /\ step(Publish))
    BY <1>1, <2>2 DEF Thread, executeGoal, prepareMotion, Cancel, Rescale, updateState,
       executeTrajectory, plan, world, Stepping, TypeOK
  <2> QED  BY <2>1, <2>2
<1> QED
  BY <1>1, <1>2, <1>3, <1>4, <1>5, <1>6, <1>7 DEF Stepping, TypeOK, Sound, node

LEMMA GeneratorStepping == Stepping /\ [Next]_vars => Stepping'
BY AcceptStepping, ExecutorStepping, ThreadStepping DEF Next

-----------------------------------------------------------------------------
(* Paths that are played alone                                             *)

(* No scaling skips a section: the shortest takes two periods.             *)
Slow == Scalings \subseteq 0..2
Scaled == scaling_ <= 2 /\ scaling_goal_ <= 2 /\ last_scaling_ <= 2 /\ time_scaling_ <= 2

(* Where the plan of a goal is: its time lies in its section, unless that  *)
(* is the last one, and its last command is what the section has there.    *)
OnTheWay(g) ==
  /\ Planned(g)
  /\ thread[g] \in {"start", "prepare"} => t_ = 0
  /\ thread[g] # "start" /\ progress_ => t_ >= trajectory[Len(trajectory)].end
  /\ t_start_ = StartOf(current_section_)
  /\ current_section_ < Len(trajectory) => t_ <= trajectory[current_section_].end
  /\ t_ > 0 => control_goal_ = stepImpl(current_section_, t_ - t_start_)

InTurn ==
  /\ Scaled
  /\ \A g \in Goals : thread[g] \in Playing <=> goal[g] \in Active
  /\ alone => /\ \A g, h \in Goals : goal[g] \in Active /\ goal[h] \in Active => g = h
              /\ pending # NoGoal => Idle
              /\ \A g \in Goals : goal[g] \in Active => OnTheWay(g)

LEMMA InitInTurn == Init => InTurn
BY DEF Init, InTurn, Scaled, Playing, Active

LEMMA PlanKept ==
  ASSUME NEW g \in Goals, OnTheWay(g), UNCHANGED <<node, plan, control_goal_>>,
         thread'[g] \in {"start", "prepare"} => t_ = 0,
         thread'[g] # "start" /\ progress_' => t_ >= trajectory[Len(trajectory)].end
  PROVE  OnTheWay(g)'
BY DEF OnTheWay, Planned, Fitting, Fits, StartOf, stepImpl, node, plan

LEMMA ExecutorInTurn ==
  ASSUME Slow, Stepping, InTurn,
         \/ \E g \in Goals : handle_goal(g) \/ PoseTimeout(g) \/ handle_cancel(g)
         \/ setTimeScalingCallback \/ UNCHANGED vars
  PROVE  InTurn'
<1>1. UNCHANGED <<node, thread, progress_, plan, scales, control_goal_>>
  BY DEF handle_goal, PoseTimeout, handle_cancel, setTimeScalingCallback, vars, world
<1>2. Scaled'
  <2>1. time_scaling_' = time_scaling_ \/ time_scaling_' \in Scalings
    BY DEF handle_goal, PoseTimeout, handle_cancel, setTimeScalingCallback, vars, request
  <2>2. \A n \in Scalings : n <= 2
    BY DEF Slow
  <2> QED  BY <1>1, <2>1, <2>2 DEF InTurn, Scaled, scales
<1>3. ASSUME NEW g \in Goals PROVE goal'[g] \in Active <=> goal[g] \in Active
  BY DEF handle_goal, PoseTimeout, handle_cancel, setTimeScalingCallback, vars, Canceling,
     Active, Stepping, TypeOK
<1>4. ASSUME alone, pending' # NoGoal PROVE Idle
  BY <1>4 DEF handle_goal, PoseTimeout, handle_cancel, setTimeScalingCallback, vars, InTurn
<1>5. ASSUME NEW g \in Goals, OnTheWay(g) PROVE OnTheWay(g)'
  BY <1>1, <1>5, PlanKept DEF OnTheWay
<1> QED  BY <1>1, <1>2, <1>3, <1>4, <1>5 DEF InTurn, Idle, node

LEMMA AcceptInTurn ==
  ASSUME Stepping, InTurn, NEW g \in Goals, Accept(g)
  PROVE  InTurn'
<1>1. Sound' /\ Planned(g)' /\ 1 \in DOMAIN trajectory'
  BY PathsArePlanned DEF Accept, Stepping, TypeOK, node
<1>2. Scaled'
  BY DEF Accept, scales, request, InTurn, Scaled
<1>3. ASSUME NEW h \in Goals PROVE thread'[h] \in Playing <=> goal'[h] \in Active
  BY DEF Accept, InTurn, Stepping, TypeOK, Playing, Active
<1>4. pending # NoGoal /\ pending' = NoGoal
  BY GeneratorAssumption DEF Accept
<1>5. ASSUME alone, NEW h \in Goals PROVE goal'[h] \in Active <=> h = g
  BY <1>4, <1>5 DEF Accept, InTurn, Idle, Stepping, TypeOK, Active
<1>6. OnTheWay(g)'
  <2>1. /\ thread'[g] = "start" /\ current_section_' = 1 /\ t_' = 0 /\ t_start_' = 0
        /\ trajectory' \in Seq(Sections)
    BY <1>1 DEF Accept, Stepping, TypeOK, Sound
  <2>2. trajectory'[1] \in Sections
    BY <1>1, <2>1
  <2>3. StartOf(1)' = 0 /\ t_' <= trajectory'[1].end
    BY <2>1, <2>2 DEF StartOf, Sections
  <2> QED  BY <1>1, <2>1, <2>3 DEF OnTheWay, StartOf
<1> QED  BY <1>2, <1>3, <1>4, <1>5, <1>6 DEF InTurn, Accept, node

(* In numbers: of a section that lasts until end, in whose time t is, and  *)
(* the next one, which ends two periods later or after that.               *)
LEMMA NextInTime ==
  ASSUME NEW t \in Nat, NEW n \in 0..2, NEW end \in Nat, NEW after \in Nat,
         t <= end, end + 2 <= after
  PROVE  t + n <= after
OBVIOUS

LEMMA StepOnTheWay ==
  ASSUME Stepping, NEW g \in Goals, OnTheWay(g), trajectory # <<>>, thread'[g] = "update",
         scaling_' \in 0..2, step(Publish), UNCHANGED <<node, trajectory>>
  PROVE  OnTheWay(g)'
<1> DEFINE s == trajectory[current_section_]
           n == Len(trajectory)
           next == t_ + scaling_' > s.end /\ current_section_ < n
<1>1. /\ trajectory \in Seq(Sections) /\ n \in Nat /\ DOMAIN trajectory = 1..n
      /\ current_section_ \in 1..n /\ t_ \in Nat
  BY DEF Stepping, TypeOK, Sound
<1>2. \A i \in 1..n : trajectory[i] \in Sections /\ trajectory[i].end \in Nat
  <2>1. \A i \in 1..n : trajectory[i] \in Sections
    BY <1>1
  <2> QED  BY <2>1 DEF Sections
<1>3. /\ t_' = t_ + scaling_'
      /\ next => current_section_' = current_section_ + 1 /\ t_start_' = s.end
      /\ ~ next => current_section_' = current_section_ /\ t_start_' = t_start_
      /\ control_goal_' = stepImpl(current_section_', t_' - t_start_')
  BY <1>1, <1>2 DEF step, Publish
<1>t. progress_' => t_' >= trajectory[n].end
  <2>1. progress_' = (t_' >= trajectory[n].end)
    BY DEF step
  <2> QED  BY <2>1
<1>4. Planned(g)'
  BY DEF OnTheWay, Planned, Fitting, Fits, StartOf, node
<1>5. t_start_' = StartOf(current_section_')
  <2>1. next => current_section_' # 1 /\ current_section_' - 1 = current_section_
    BY <1>1, <1>3
  <2> QED  BY <1>3, <2>1 DEF OnTheWay, StartOf
<1>6. current_section_' < n => t_' <= trajectory[current_section_'].end
  <2>1. CASE next /\ current_section_ + 1 < n
    <3>1. current_section_ + 1 \in 1..n
      BY <1>1, <2>1
    <3>2. StartOf(current_section_ + 1) = s.end
      BY <1>1 DEF StartOf
    <3>3. s.end + 2 <= trajectory[current_section_ + 1].end
      BY <1>1, <3>1, <3>2 DEF OnTheWay, Planned
    <3>4. t_ <= s.end
      BY <2>1 DEF OnTheWay
    <3> QED  BY <1>1, <1>2, <1>3, <2>1, <3>1, <3>3, <3>4, NextInTime
  <2>2. CASE ~ next
    <3>1. s.end \in Nat /\ t_ + scaling_' \in Nat
      <4>1. scaling_' \in Nat
        OBVIOUS
      <4>2. \A a, b \in Nat : a + b \in Nat
        OBVIOUS
      <4> QED  BY <1>1, <1>2, <4>1, <4>2
    <3>2. current_section_ < n => t_ + scaling_' <= s.end
      <4>1. \A a, b \in Nat : ~ (a > b) => a <= b
        OBVIOUS
      <4> QED  BY <2>2, <3>1, <4>1
    <3> QED  BY <1>3, <2>2, <3>2
  <2> QED  BY <1>1, <1>3, <2>1, <2>2
<1>7. stepImpl(current_section_, t_ - t_start_)' = stepImpl(current_section_', t_' - t_start_')
  BY DEF stepImpl
<1>8. StartOf(current_section_)' = StartOf(current_section_')
  BY DEF StartOf
<1> QED  BY <1>3, <1>t, <1>4, <1>5, <1>6, <1>7, <1>8 DEF OnTheWay

LEMMA ThreadInTurn ==
  ASSUME Stepping, InTurn, NEW g \in Goals, Thread(g)
  PROVE  InTurn'
<1>1. thread[g] \in Playing /\ goal[g] \in Active /\ trajectory # <<>>
  BY DEF Thread, executeGoal, prepareMotion, Cancel, Rescale, updateState, executeTrajectory,
     At, Playing, Stepping, InTurn
<1>2. Scaled' /\ (executeTrajectory(g) => scaling_' \in 0..2 \/ scaling_' = scaling_)
  <2>1. CASE executeTrajectory(g)
    <3>1. Ramp => scaling_' \in Nat /\ scaling_' <= 2
      BY RampTypes DEF Stepping, TypeOK, InTurn, Scaled
    <3>2. UNCHANGED <<scaling_goal_, last_scaling_, time_scaling_>>
      BY <2>1 DEF executeTrajectory, request
    <3>3. \A k \in Nat : k <= 2 => k \in 0..2
      OBVIOUS
    <3> QED  BY <2>1, <3>1, <3>2, <3>3 DEF executeTrajectory, InTurn, Scaled
  <2>2. CASE ~ executeTrajectory(g)
    BY <2>2 DEF Thread, executeGoal, prepareMotion, Cancel, Rescale, updateState,
       setTimeScaling, scales, request, InTurn, Scaled
  <2> QED  BY <2>1, <2>2
<1>3. ASSUME NEW h \in Goals
      PROVE  /\ thread'[h] \in Playing <=> goal'[h] \in Active
             /\ goal'[h] \in Active => goal[h] \in Active
  <2>1. CASE \E pc \in Playing : Goto(g, pc) /\ UNCHANGED goal
    BY <1>1, <2>1 DEF Goto, InTurn, Stepping, TypeOK, Playing
  <2>2. CASE \E how \in Ended : End(g, how)
    BY <1>1, <2>2 DEF End, Goto, InTurn, Stepping, TypeOK, Playing, Ended, Active
  <2> QED
    BY <2>1, <2>2 DEF Thread, executeGoal, prepareMotion, Cancel, Rescale, updateState,
       executeTrajectory, Switch, Playing, Ended
<1>4. UNCHANGED <<node, pending>>
  BY DEF Thread, executeGoal, prepareMotion, Cancel, Rescale, updateState, executeTrajectory
<1>5. ASSUME alone, OnTheWay(g), goal'[g] \in Active PROVE OnTheWay(g)'
  <2>1. CASE executeGoal(g)
    <3>1. ~ progress_' /\ UNCHANGED <<node, plan, control_goal_>> /\ t_ = 0
      BY <1>5, <2>1 DEF executeGoal, OnTheWay, world, At
    <3> QED  BY <1>5, <3>1, PlanKept
  <2>2. CASE prepareMotion(g) \/ Cancel(g) \/ Rescale(g) \/ updateState(g)
    <3>1. /\ UNCHANGED <<node, plan, progress_, control_goal_>> /\ thread[g] # "start"
          /\ thread'[g] \notin {"start", "prepare"}
      BY <2>2 DEF prepareMotion, Cancel, Rescale, updateState, Switch, Goto, End, world, At,
         Stepping, TypeOK
    <3> QED  BY <1>5, <3>1, PlanKept DEF OnTheWay
  <2>3. CASE executeTrajectory(g)
    <3>1. thread[g] = "step" /\ thread'[g] = "update" /\ UNCHANGED <<node, trajectory>>
      BY <2>3 DEF executeTrajectory, At, Goto, Stepping, TypeOK
    <3>2. CASE step(Publish)
      <4>1. scaling_' \in 0..2
        <5>1. \A k \in Nat : k <= 2 => k \in 0..2
          OBVIOUS
        <5> QED  BY <1>2, <2>3, <5>1 DEF InTurn, Scaled, Stepping, TypeOK
      <4> QED  BY <1>1, <1>5, <3>1, <3>2, <4>1, StepOnTheWay
    <3>3. CASE ~ step(Publish)
      <4>1. UNCHANGED <<plan, progress_, control_goal_>>
        BY <2>3, <3>3 DEF executeTrajectory, plan
      <4> QED  BY <1>5, <3>1, <4>1, PlanKept DEF OnTheWay
    <3> QED  BY <3>2, <3>3
  <2> QED  BY <2>1, <2>2, <2>3 DEF Thread
<1>6. ASSUME alone, NEW h \in Goals, goal'[h] \in Active PROVE OnTheWay(h)'
  <2>1. h = g /\ OnTheWay(g)
    BY <1>1, <1>3, <1>6 DEF InTurn
  <2> QED  BY <1>5, <1>6, <2>1
<1> QED  BY <1>2, <1>3, <1>4, <1>6 DEF InTurn, Idle, node

LEMMA GeneratorInTurn == Slow /\ Stepping /\ InTurn /\ [Next]_vars => InTurn'
BY ExecutorInTurn, AcceptInTurn, ThreadInTurn DEF Next

-----------------------------------------------------------------------------
(* Fitting paths are completed                                             *)

LEMMA GeneratorCompletes ==
  ASSUME Stepping, InTurn, [Next]_vars
  PROVE  CompletesFitting
<1> SUFFICES ASSUME NEW g \in Goals, alone, Succeeds(g), Fitting(g) PROVE Reached(g)
  BY DEF CompletesFitting
<1> DEFINE n == Len(trajectory)
           s == trajectory[n]
<1>1. updateState(g) /\ progress_
  <2>1. ASSUME NEW h \in Goals, Thread(h) PROVE updateState(g) /\ progress_
    BY <2>1 DEF Succeeds, Thread, executeGoal, prepareMotion, Cancel, Rescale, updateState,
       executeTrajectory, Switch, End, Stepping, TypeOK
  <2>2. ASSUME NEW h \in Goals, Accept(h) \/ handle_cancel(h) \/ handle_goal(h) \/ PoseTimeout(h)
        PROVE  FALSE
    BY <2>2 DEF Succeeds, Accept, handle_cancel, handle_goal, PoseTimeout, Canceling,
       Stepping, TypeOK
  <2>3. ~ setTimeScalingCallback /\ ~ UNCHANGED vars
    BY DEF Succeeds, setTimeScalingCallback, vars
  <2> QED  BY <2>1, <2>2, <2>3 DEF Next
<1>2. thread[g] \in {"update", "reset"}
  BY <1>1 DEF updateState, At
<1>3. OnTheWay(g)
  BY <1>2 DEF InTurn, Playing
<1>4. /\ trajectory \in Seq(Sections) /\ n \in Nat /\ DOMAIN trajectory = 1..n
      /\ current_section_ \in 1..n /\ t_ \in Nat /\ t_start_ \in Nat /\ t_start_ <= t_
  BY <1>2 DEF Stepping, TypeOK, Sound, Playing
<1>5. \A i \in 1..n : trajectory[i] \in Sections
  BY <1>4
<1>6. current_section_ = n
  <2>a. ~ (current_section_ < n) => current_section_ = n
    <3> HIDE DEF n
    <3> QED  BY <1>4
  <2> SUFFICES ASSUME current_section_ < n PROVE FALSE
    BY <2>a
  <2>1. t_ <= trajectory[current_section_].end /\ t_ >= s.end
    BY <1>1, <1>2, <1>3 DEF OnTheWay
  <2>2. trajectory[current_section_].end < s.end
    BY <1>3, <1>4 DEF OnTheWay, Planned
  <2>3. trajectory[current_section_].end \in Nat /\ s.end \in Nat
    BY <1>4, <1>5 DEF Sections
  <2> QED  BY <1>4, <2>1, <2>2, <2>3
<1>7. /\ s.over = s.end - t_start_ /\ t_ >= s.end /\ StartOf(n) + 2 <= s.end
      /\ t_start_ = StartOf(n) /\ s.to = Via[g][Len(Via[g])]
  BY <1>1, <1>2, <1>3, <1>4, <1>6 DEF OnTheWay, Planned, Fits
<1>8. t_ > 0 /\ t_ - t_start_ \in Nat /\ t_ - t_start_ >= s.over
  <2>1. s.end \in Nat
    BY <1>4, <1>5, <1>6 DEF Sections
  <2> HIDE DEF s
  <2> QED  BY <1>4, <1>7, <2>1
<1>9. control_goal_ = stepImpl(n, t_ - t_start_)
  BY <1>3, <1>6, <1>8 DEF OnTheWay
<1> QED  BY <1>4, <1>6, <1>7, <1>8, <1>9, CommandsOnPath DEF Reached, Stepping

-----------------------------------------------------------------------------
(* Commands of fitting paths are smooth                                    *)

Line(from, to, over, t) ==
  IF to = from THEN from
  ELSE IF to > from THEN from + (Least(t, over) \div 2)
  ELSE from - (Least(t, over) \div 2)

(* A curve that fits its time goes one pose in two periods.                *)
LEMMA HalfSpeed ==
  ASSUME Sound, NEW i \in DOMAIN trajectory, Fits(i), NEW t \in Nat
  PROVE  stepImpl(i, t) = Line(trajectory[i].from, trajectory[i].to, trajectory[i].over, t)
<1> DEFINE s == trajectory[i]
           d == Abs(s.to - s.from)
           m == Least(t, s.over)
<1>1. /\ s.from \in Poses /\ s.to \in Poses /\ s.over \in Nat /\ Poses \subseteq Int /\ s.over >= 2
  <2>1. s \in Sections /\ s.over >= 2
    BY DEF Sound
  <2> QED  BY <2>1, GeneratorAssumption DEF Sections
<1>2. stepImpl(i, t) = IF s.to >= s.from THEN s.from + ((d * m) \div s.over)
                                         ELSE s.from - ((d * m) \div s.over)
  BY DEF stepImpl
<1>3. s.to # s.from => s.over = 2 * d
  BY DEF Fits
<1>4. Line(s.from, s.to, s.over, t) =
        IF s.to = s.from THEN s.from
        ELSE IF s.to > s.from THEN s.from + (m \div 2) ELSE s.from - (m \div 2)
  BY DEF Line
<1> HIDE DEF s
<1>5. m \in Nat /\ s.from \in Int /\ s.to \in Int
  BY <1>1 DEF Least
<1> HIDE DEF m
<1>6. CASE s.to = s.from
  <2>1. d = 0 /\ (d * m) \div s.over = 0
    <3>1. d = 0
      BY <1>5, <1>6 DEF Abs
    <3>2. 0 * m = 0 /\ 0 \in Nat /\ s.over * 0 = 0
      BY <1>1, <1>5
    <3>3. 0 \div s.over = 0
      BY <1>1, <3>2, QuotientUnique
    <3> QED  BY <3>1, <3>2, <3>3
  <2>2. stepImpl(i, t) = s.from
    BY <1>2, <1>5, <1>6, <2>1
  <2>3. Line(s.from, s.to, s.over, t) = s.from
    BY <1>6 DEF Line
  <2> QED  BY <2>2, <2>3 DEF s
<1>7. CASE s.to # s.from
  <2>1. d \in Nat \ {0}
    BY <1>5, <1>7 DEF Abs
  <2>2. (d * m) \div s.over = m \div 2
    BY <1>3, <1>5, <1>7, <2>1, HalfOf
  <2> QED  BY <1>2, <1>4, <1>5, <1>7, <2>2 DEF s
<1> QED  BY <1>6, <1>7

(* In numbers: two periods later in a section, and in the next one.        *)
LEMMA NearInSection ==
  ASSUME NEW from \in Int, NEW to \in Int, NEW over \in Nat, NEW a \in Nat, NEW b \in Nat,
         b <= a + 2, a <= b
  PROVE  Abs(Line(from, to, over, b) - Line(from, to, over, a)) <= 1
<1>1. (Least(b, over) \div 2) - (Least(a, over) \div 2) \in -1..1
  <2>1. /\ Least(a, over) \in Int /\ Least(b, over) \in Int
        /\ Least(a, over) <= Least(b, over) + 2 /\ Least(b, over) <= Least(a, over) + 2
    BY DEF Least
  <2> QED  BY <2>1, QuotientsNear
<1>2. Least(a, over) \div 2 \in Int /\ Least(b, over) \div 2 \in Int
  BY DEF Least
<1> QED  BY <1>1, <1>2 DEF Abs, Line

LEMMA NearAtBorder ==
  ASSUME NEW from \in Int, NEW to \in Int, NEW over \in Nat, NEW a \in 0..over,
         to # from => over = 2 * Abs(to - from),
         NEW next \in Int, NEW after \in Nat, NEW b \in Nat, b > 0, over + b <= a + 2
  PROVE  Abs(Line(to, next, after, b) - Line(from, to, over, a)) <= 1
<1>1. Least(a, over) = a /\ b \in {1, 2} /\ a \in {over, over - 1} /\ (b = 2 => a = over)
  BY DEF Least
<1>2. Least(b, after) \div 2 \in {0, 1} /\ (b = 1 => Least(b, after) \div 2 = 0)
  BY <1>1 DEF Least
<1>3. CASE to = from
  BY <1>2, <1>3 DEF Abs, Line
<1>4. CASE to # from
  <2> DEFINE d == Abs(to - from)
  <2>1. d \in Nat \ {0} /\ over = 2 * d /\ to = IF to > from THEN from + d ELSE from - d
    BY <1>4 DEF Abs
  <2> HIDE DEF d
  <2>2. (2 * d) \div 2 = d /\ (2 * d - 1) \div 2 = d - 1
    BY <2>1
  <2>3. a \div 2 \in {d, d - 1} /\ (a = over => a \div 2 = d)
    BY <1>1, <2>1, <2>2
  <2> QED  BY <1>1, <1>2, <1>4, <2>1, <2>3 DEF Abs, Line
<1> QED  BY <1>3, <1>4

LEMMA StepIsSmooth ==
  ASSUME Stepping, NEW g \in Goals, OnTheWay(g), Fitting(g), trajectory # <<>>,
         scaling_' \in 0..2, step(Publish), UNCHANGED trajectory, t_ > 0
  PROVE  Abs(control_goal_' - control_goal_) <= MaxStep
<1> DEFINE s == trajectory[current_section_]
           r == trajectory[current_section_ + 1]
           n == Len(trajectory)
           next == t_ + scaling_' > s.end /\ current_section_ < n
<1>1. /\ trajectory \in Seq(Sections) /\ n \in Nat /\ DOMAIN trajectory = 1..n
      /\ current_section_ \in 1..n /\ t_ \in Nat /\ t_start_ \in Nat /\ t_start_ <= t_
      /\ Sound
  BY DEF Stepping, TypeOK, Sound
<1>2. \A i \in 1..n : /\ trajectory[i].from \in Int /\ trajectory[i].to \in Int
                      /\ trajectory[i].over \in Nat /\ trajectory[i].end \in Nat
  <2>1. \A i \in 1..n : trajectory[i] \in Sections
    BY <1>1
  <2> QED  BY <2>1, GeneratorAssumption DEF Sections
<1>3. /\ t_' = t_ + scaling_'
      /\ next => current_section_' = current_section_ + 1 /\ t_start_' = s.end
      /\ ~ next => current_section_' = current_section_ /\ t_start_' = t_start_
      /\ control_goal_' = stepImpl(current_section_', t_' - t_start_')
  BY <1>1, <1>2 DEF step, Publish
<1>4. /\ control_goal_ = stepImpl(current_section_, t_ - t_start_)
      /\ t_start_ = StartOf(current_section_) /\ Fits(current_section_)
      /\ s.over = s.end - t_start_ /\ (s.to # s.from => s.over = 2 * Abs(s.to - s.from))
      /\ StartOf(current_section_) + 2 <= s.end
  BY <1>1 DEF OnTheWay, Planned, Fits
<1> DEFINE before == t_ - t_start_
<1>5. before \in Nat
  BY <1>1
<1>6. CASE ~ next
  <2> DEFINE now == (t_ + scaling_') - t_start_
  <2>1. now \in Nat /\ now <= before + 2 /\ before <= now
    <3>1. \A a, b \in Nat, k \in 0..2 : b <= a => /\ (a + k) - b \in Nat
                                                /\ (a + k) - b <= (a - b) + 2
                                                /\ a - b <= (a + k) - b
      OBVIOUS
    <3> QED  BY <1>1, <3>1
  <2>2. control_goal_' = stepImpl(current_section_, now)
    BY <1>3, <1>6
  <2>3. control_goal_' = Line(s.from, s.to, s.over, now)
    BY <1>1, <1>4, <2>1, <2>2, HalfSpeed
  <2>4. control_goal_ = Line(s.from, s.to, s.over, before)
    BY <1>1, <1>4, <1>5, HalfSpeed
  <2>5. s.from \in Int /\ s.to \in Int /\ s.over \in Nat
    BY <1>1, <1>2
  <2> HIDE DEF now, before, s
  <2> QED  BY <1>5, <2>1, <2>3, <2>4, <2>5, NearInSection DEF MaxStep
<1>7. CASE next
  <2> DEFINE now == (t_ + scaling_') - s.end
  <2>1. current_section_ + 1 \in 1..n /\ current_section_ < n
    BY <1>1, <1>7
  <2>2. /\ r.from = s.to /\ Fits(current_section_ + 1) /\ t_ <= s.end
        /\ r.from \in Int /\ r.to \in Int /\ r.over \in Nat
        /\ s.from \in Int /\ s.to \in Int /\ s.over \in Nat /\ s.end \in Nat
    <3>1. current_section_ + 1 # 1 /\ (current_section_ + 1) - 1 = current_section_
      BY <1>1
    <3>2. r.from = s.to /\ Fits(current_section_ + 1)
      BY <1>1, <2>1, <3>1 DEF OnTheWay, Planned
    <3>3. t_ <= s.end
      BY <2>1, <1>1 DEF OnTheWay
    <3> QED  BY <1>1, <1>2, <2>1, <3>2, <3>3
  <2>3. now \in Nat /\ now > 0 /\ before \in 0..s.over /\ s.over + now <= before + 2
    <3>1. \A a, b, e \in Nat, k \in 0..2 : a + k > e /\ a <= e /\ b <= a =>
            /\ (a + k) - e \in Nat /\ (a + k) - e > 0
            /\ a - b \in 0..(e - b) /\ (e - b) + ((a + k) - e) <= (a - b) + 2
      OBVIOUS
    <3> QED  BY <1>1, <1>4, <1>7, <2>2, <3>1
  <2>4. control_goal_' = stepImpl(current_section_ + 1, now)
    BY <1>3, <1>7
  <2>5. control_goal_' = Line(s.to, r.to, r.over, now)
    BY <1>1, <2>1, <2>2, <2>3, <2>4, HalfSpeed
  <2>6. control_goal_ = Line(s.from, s.to, s.over, before)
    BY <1>1, <1>4, <1>5, HalfSpeed
  <2>7. s.to # s.from => s.over = 2 * Abs(s.to - s.from)
    BY <1>4
  <2> HIDE DEF now, before, s, r
  <2> QED  BY <2>2, <2>3, <2>5, <2>6, <2>7, NearAtBorder DEF MaxStep
<1> QED  BY <1>6, <1>7

LEMMA GeneratorKeepsSpeed ==
  ASSUME Slow, Stepping, InTurn, [Next]_vars
  PROVE  KeepsSpeed
<1> SUFFICES ASSUME NEW g \in Goals, alone, Fitting(g), goal[g] \in Active, t_' # t_, t_ > 0
             PROVE  Abs(control_goal_' - control_goal_) <= MaxStep
  BY DEF KeepsSpeed
<1>1. /\ OnTheWay(g) /\ trajectory # <<>> /\ pending = NoGoal
      /\ \A h \in Goals : goal[h] \in Active => g = h
  BY DEF InTurn, Stepping, Idle
<1>2. ASSUME NEW h \in Goals, executeTrajectory(h)
      PROVE  Abs(control_goal_' - control_goal_) <= MaxStep
  <2>1. Ramp /\ step(Publish) /\ UNCHANGED trajectory
    BY <1>2 DEF executeTrajectory
  <2>2. scaling_' \in 0..2
    <3>1. /\ scaling_ \in Nat /\ scaling_goal_ \in Nat /\ last_scaling_ \in Nat
          /\ ramp \in Nat /\ scaling_ <= 2 /\ scaling_goal_ <= 2 /\ last_scaling_ <= 2
      BY DEF InTurn, Scaled, Stepping, TypeOK
    <3>2. scaling_' \in Nat /\ scaling_' <= 2
      <4>1. 2 \in Nat
        OBVIOUS
      <4> QED  BY <2>1, <3>1, <4>1, RampTypes
    <3> QED  BY <3>2
  <2> QED  BY <1>1, <2>1, <2>2, StepIsSmooth
<1>3. ASSUME NEW h \in Goals, Accept(h) PROVE FALSE
  BY <1>1, <1>3, GeneratorAssumption DEF Accept
<1> QED
  BY <1>2, <1>3 DEF Next, Thread, vars, plan, handle_goal, PoseTimeout, handle_cancel,
     setTimeScalingCallback, executeGoal, prepareMotion, Cancel, Rescale, updateState

-----------------------------------------------------------------------------
(* The trajectories of the bridge                                          *)

Last(g) == Len(Points[g])
Time(g, i) == Points[g][i].time
Pose(g, i) == Points[g][i].pose

LEMMA PointsRise ==
  ASSUME NEW g \in Goals
  PROVE  /\ Points[g] \in Seq([pose : Int, time : Nat]) /\ Last(g) \in Nat
         /\ Points[g] # <<>> => Last(g) >= 1
         /\ \A i \in 1..Last(g) : Time(g, i) \in Nat /\ Pose(g, i) \in Int
         /\ \A i, j \in 1..Last(g) : i < j => Time(g, i) < Time(g, j)
<1>1. Points[g] \in Seq([pose : Int, time : Nat]) /\ bridge!Rising(Points[g])
  BY PlayersAssumption DEF bridge!BridgeAssumption
<1>2. DOMAIN Points[g] = 1..Last(g) /\ Last(g) \in Nat /\ (Points[g] # <<>> => Last(g) >= 1)
  BY <1>1 DEF Last
<1>3. \A i \in 1..Last(g) : Points[g][i] \in [pose : Int, time : Nat]
  <2> DEFINE R == [pose : Int, time : Nat]
  <2>1. Points[g] \in Seq(R)
    BY <1>1
  <2> HIDE DEF R
  <2>2. \A i \in 1..Last(g) : Points[g][i] \in R
    BY <2>1 DEF Last
  <2> QED  BY <2>2 DEF R
<1>4. \A i \in 1..Last(g) : Time(g, i) \in Nat /\ Pose(g, i) \in Int
  BY <1>3 DEF Time, Pose
<1>5. \A i, j \in 1..Last(g) : i < j => Time(g, i) < Time(g, j)
  BY <1>1, <1>2 DEF bridge!Rising, Time
<1> QED  BY <1>1, <1>2, <1>4, <1>5

(* The section in which a time lies: it ends at the first later point.     *)
LEMMA SectionAt ==
  ASSUME NEW g \in Goals, Points[g] # <<>>, NEW t \in Nat,
         Time(g, 1) <= t, t < Time(g, Last(g))
  PROVE  \E i \in 1..(Last(g) - 1) : Time(g, i) <= t /\ t < Time(g, i + 1)
<1> DEFINE After(k) == k \in 1..Last(g) /\ t < Time(g, k)
           S == {k \in Nat : After(k)}
<1>1. /\ Last(g) \in Nat /\ Last(g) >= 1
      /\ \A i \in 1..Last(g) : Time(g, i) \in Nat
  BY PointsRise
<1>2. Last(g) \in S
  BY <1>1
<1>3. PICK k \in S : \A j \in S : k <= j
  <2>1. S \subseteq Nat /\ S # {}
    BY <1>2
  <2> HIDE DEF S
  <2> QED  BY <2>1, LeastOf
<1>4. k \in 1..Last(g) /\ t < Time(g, k) /\ k # 1
  BY <1>1
<1>5. k - 1 \in 1..(Last(g) - 1) /\ k - 1 \in 1..Last(g) /\ (k - 1) + 1 = k /\ ~ (k <= k - 1)
  BY <1>1, <1>4
<1>6. Time(g, k - 1) <= t
  <2>1. k - 1 \notin S
    BY <1>3, <1>5
  <2>2. ~ (t < Time(g, k - 1)) /\ Time(g, k - 1) \in Nat
    BY <1>1, <1>5, <2>1
  <2> QED  BY <2>2
<1> QED  BY <1>4, <1>5, <1>6

(* The pose that interpolation has in a section.                           *)
Along(p, q, from, to, t) == p + ((q - p) * (t - from)) \div (to - from)
On(g, i, t) == Along(Pose(g, i), Pose(g, i + 1), Time(g, i), Time(g, i + 1), t)
Poses_at(g, t) == bridge!interpolate_at(g, g, t)

LEMMA AlongIsNumber ==
  ASSUME NEW p \in Int, NEW q \in Int, NEW from \in Nat, NEW to \in Nat, from < to,
         NEW t \in Nat
  PROVE  Along(p, q, from, to, t) \in Int
<1>1. (q - p) * (t - from) \in Int /\ to - from \in Nat \ {0}
  OBVIOUS
<1>2. ((q - p) * (t - from)) \div (to - from) \in Int
  BY <1>1, Quotient
<1> QED  BY <1>2 DEF Along

LEMMA SectionEnds ==
  ASSUME NEW p \in Int, NEW q \in Int, NEW from \in Nat, NEW to \in Nat, from < to
  PROVE  Along(p, q, from, to, from) = p /\ Along(p, q, from, to, to) = q
<1> DEFINE d == q - p
           w == to - from
<1>1. d \in Int /\ w \in Nat \ {0} /\ from - from = 0
  OBVIOUS
<1>2. /\ Along(p, q, from, to, from) = p + (d * 0) \div w
      /\ Along(p, q, from, to, to) = p + (d * w) \div w
  BY <1>1 DEF Along
<1>3. p + d = q
  OBVIOUS
<1> HIDE DEF d, w
<1>4. d * 0 = 0 /\ w * 0 = 0 /\ d * w = w * d /\ d * w \in Int
  BY <1>1
<1>5. (d * 0) \div w = 0 /\ (d * w) \div w = d
  BY <1>1, <1>4, QuotientUnique
<1> QED  BY <1>2, <1>3, <1>5

(* A period takes the pose no further than one, if the points do not.      *)
LEMMA AlongIsGentle ==
  ASSUME NEW p \in Int, NEW q \in Int, NEW from \in Nat, NEW to \in Nat, from < to,
         NEW t \in Nat, bridge!Distance(p, q) <= to - from
  PROVE  bridge!Distance(Along(p, q, from, to, t), Along(p, q, from, to, t + 1)) <= 1
<1> DEFINE d == q - p
           w == to - from
           a == d * (t - from)
           b == d * ((t + 1) - from)
<1>1. d \in Int /\ w \in Nat \ {0} /\ d <= w /\ - d <= w
  BY DEF bridge!Distance
<1>2. a \in Int /\ b \in Int /\ b = a + d
  <2>1. (t + 1) - from = (t - from) + 1 /\ t - from \in Int
    OBVIOUS
  <2> HIDE DEF d
  <2> QED  BY <1>1, <2>1
<1>3. Along(p, q, from, to, t) = p + a \div w /\ Along(p, q, from, to, t + 1) = p + b \div w
  BY DEF Along
<1> HIDE DEF a, b, w, d
<1>4. a <= b + w /\ b <= a + w
  BY <1>1, <1>2
<1>5. (a \div w) - (b \div w) \in -1..1 /\ a \div w \in Int /\ b \div w \in Int
  BY <1>1, <1>2, <1>4, QuotientsNear, Quotient
<1> QED  BY <1>3, <1>5 DEF bridge!Distance

LEMMA PosesAt ==
  ASSUME NEW g \in Goals, Points[g] # <<>>, NEW t \in Nat
  PROVE  /\ t <= Time(g, 1) => Poses_at(g, t) = {Pose(g, 1)}
         /\ t >= Time(g, Last(g)) => Poses_at(g, t) = {Pose(g, Last(g))}
         /\ \A i \in 1..(Last(g) - 1) :
              Time(g, i) <= t /\ t <= Time(g, i + 1) => Poses_at(g, t) = {On(g, i, t)}
<1> DEFINE n == Last(g)
           T == bridge!PointsOf(g)
           chosen == CHOOSE i \in 1..(Len(T) - 1) : T[i].time <= t /\ t < T[i + 1].time
           between == Time(g, 1) < t /\ t < Time(g, n)
<1>1. /\ n \in Nat /\ n >= 1
      /\ \A i \in 1..n : Time(g, i) \in Nat /\ Pose(g, i) \in Int
      /\ \A i, j \in 1..n : i < j => Time(g, i) < Time(g, j)
  BY PointsRise
<1>2. T = Points[g] /\ T # <<>> /\ Len(T) = n
  BY PlayersAssumption DEF bridge!PointsOf, bridge!BridgeAssumption, Last
<1>3. \A i : T[i].time = Time(g, i) /\ T[i].pose = Pose(g, i)
  BY <1>2 DEF Time, Pose
<1> DEFINE idx == IF T = <<>> \/ t <= T[1].time THEN 1
                  ELSE IF t >= T[Len(T)].time THEN Len(T) ELSE chosen
           inside == T # <<>> /\ T[1].time < t /\ t < T[Len(T)].time
           pose == T[idx].pose + ((T[idx + 1].pose - T[idx].pose) * (t - T[idx].time))
                                    \div (T[idx + 1].time - T[idx].time)
<1>4. Poses_at(g, t) =
        IF T = <<>> \/ T = <<>> \/ idx + (IF inside THEN 1 ELSE 0) > Len(T) THEN {}
        ELSE IF ~ inside THEN {T[idx].pose} ELSE {pose}
  BY DEF Poses_at, bridge!interpolate_at
<1>5. between => /\ chosen \in 1..(n - 1)
                 /\ Time(g, chosen) <= t /\ t < Time(g, chosen + 1)
  <2> SUFFICES ASSUME between
               PROVE  \E i \in 1..(Len(T) - 1) : T[i].time <= t /\ t < T[i + 1].time
    BY <1>2, <1>3
  <2> HIDE DEF T
  <2>1. Time(g, 1) <= t /\ t < Time(g, n)
    BY <1>1
  <2>2. \E i \in 1..(n - 1) : Time(g, i) <= t /\ t < Time(g, i + 1)
    BY <2>1, SectionAt
  <2> QED  BY <1>2, <1>3, <2>2
<1> HIDE DEF chosen, T
<1>6. ASSUME between PROVE Poses_at(g, t) = {On(g, chosen, t)}
  <2>1. inside /\ idx = chosen /\ chosen \in 1..(n - 1)
    <3>1. /\ Time(g, 1) \in Nat /\ Time(g, n) \in Nat /\ T # <<>>
          /\ T[1].time = Time(g, 1) /\ T[Len(T)].time = Time(g, n)
      BY <1>1, <1>2, <1>3
    <3>2. Time(g, 1) < t /\ t < Time(g, n) /\ ~ (t <= Time(g, 1)) /\ ~ (t >= Time(g, n))
      BY <1>6, <3>1
    <3>3. chosen \in 1..(n - 1)
      BY <1>5, <1>6
    <3> QED  BY <3>1, <3>2, <3>3
  <2>2. pose = On(g, chosen, t)
    BY <1>3, <2>1 DEF On, Along
  <2>3. ~ (idx + (IF inside THEN 1 ELSE 0) > Len(T))
    BY <1>1, <1>2, <2>1
  <2> HIDE DEF idx, inside, pose
  <2> QED  BY <1>2, <1>4, <2>1, <2>2, <2>3
<1>7. ASSUME t <= Time(g, 1) PROVE Poses_at(g, t) = {Pose(g, 1)}
  <2>1. ~ inside /\ idx = 1
    BY <1>1, <1>2, <1>3, <1>7
  <2>2. ~ (idx + (IF inside THEN 1 ELSE 0) > Len(T))
    BY <1>1, <1>2, <2>1
  <2> HIDE DEF idx, inside, pose
  <2> QED  BY <1>2, <1>3, <1>4, <2>1, <2>2
<1>8. ASSUME t >= Time(g, n) PROVE Poses_at(g, t) = {Pose(g, n)}
  <2>1. CASE t <= Time(g, 1)
    <3>1. n = 1
      BY <1>1, <1>8, <2>1
    <3> QED  BY <1>7, <2>1, <3>1
  <2>2. CASE ~ (t <= Time(g, 1))
    <3>1. ~ inside /\ idx = n
      BY <1>1, <1>2, <1>3, <1>8, <2>2
    <3>2. ~ (idx + (IF inside THEN 1 ELSE 0) > Len(T))
      BY <1>1, <1>2, <3>1
    <3> HIDE DEF idx, inside, pose
    <3> QED  BY <1>2, <1>3, <1>4, <3>1, <3>2
  <2> QED  BY <2>1, <2>2
<1> HIDE DEF n
<1>9. ASSUME NEW i \in 1..(n - 1), Time(g, i) <= t, t <= Time(g, i + 1)
      PROVE  Poses_at(g, t) = {On(g, i, t)}
  <2>1. /\ i \in 1..n /\ i + 1 \in 1..n /\ Time(g, i) < Time(g, i + 1)
        /\ Time(g, i) \in Nat /\ Time(g, i + 1) \in Nat
        /\ Pose(g, i) \in Int /\ Pose(g, i + 1) \in Int
    BY <1>1
  <2>2. /\ t = Time(g, i) => On(g, i, t) = Pose(g, i)
        /\ t = Time(g, i + 1) => On(g, i, t) = Pose(g, i + 1)
    BY <2>1, SectionEnds DEF On
  <2>3. CASE t <= Time(g, 1)
    <3>1. i = 1 /\ t = Time(g, i)
      BY <1>1, <1>9, <2>1, <2>3
    <3> QED  BY <1>7, <2>2, <2>3, <3>1
  <2>4. CASE t >= Time(g, n)
    <3>1. i + 1 = n /\ t = Time(g, i + 1)
      BY <1>1, <1>9, <2>1, <2>4
    <3> QED  BY <1>8, <2>2, <2>4, <3>1
  <2>5. CASE between
    <3>2. /\ chosen \in 1..n /\ chosen + 1 \in 1..n /\ chosen + 1 <= n
          /\ Time(g, chosen) <= t /\ t < Time(g, chosen + 1)
      BY <1>1, <1>5, <2>5
    <3>3. Poses_at(g, t) = {On(g, chosen, t)}
      BY <1>6, <2>5
    <3>4. CASE t < Time(g, i + 1)
      <4>1. ~ (i < chosen) 
        <5> SUFFICES ASSUME i < chosen PROVE FALSE
          OBVIOUS
        <5>1. i + 1 = chosen \/ i + 1 < chosen
          BY <3>2
        <5>2. Time(g, i + 1) <= Time(g, chosen) /\ Time(g, chosen) \in Nat
          BY <1>1, <2>1, <3>2, <5>1
        <5> QED  BY <2>1, <3>2, <3>4, <5>2
      <4>2. ~ (chosen < i)
        <5> SUFFICES ASSUME chosen < i PROVE FALSE
          OBVIOUS
        <5>1. chosen + 1 = i \/ chosen + 1 < i
          BY <3>2
        <5>2. Time(g, chosen + 1) <= Time(g, i) /\ Time(g, chosen + 1) \in Nat
          BY <1>1, <2>1, <3>2, <5>1
        <5> QED  BY <1>9, <2>1, <3>2, <5>2
      <4>3. chosen = i
        BY <3>2, <4>1, <4>2
      <4> QED  BY <3>3, <4>3
    <3>5. CASE t = Time(g, i + 1)
      <4>1. ~ (chosen < i + 1)
        <5> SUFFICES ASSUME chosen < i + 1 PROVE FALSE
          OBVIOUS
        <5>1. chosen + 1 = i + 1 \/ chosen + 1 < i + 1
          BY <3>2
        <5>2. Time(g, chosen + 1) <= Time(g, i + 1) /\ Time(g, chosen + 1) \in Nat
          BY <1>1, <2>1, <3>2, <5>1
        <5> QED  BY <2>1, <3>2, <3>5, <5>2
      <4>2. ~ (i + 1 < chosen)
        <5> SUFFICES ASSUME i + 1 < chosen PROVE FALSE
          OBVIOUS
        <5>1. Time(g, i + 1) < Time(g, chosen) /\ Time(g, chosen) \in Nat
          BY <1>1, <2>1, <3>2
        <5> QED  BY <2>1, <3>2, <3>5, <5>1
      <4>3. chosen = i + 1
        BY <3>2, <4>1, <4>2
      <4>4. On(g, chosen, t) = Pose(g, chosen)
        <5>1. /\ t = Time(g, chosen) /\ Time(g, chosen) < Time(g, chosen + 1)
              /\ Time(g, chosen) \in Nat /\ Time(g, chosen + 1) \in Nat
              /\ Pose(g, chosen) \in Int /\ Pose(g, chosen + 1) \in Int
          BY <1>1, <3>2, <3>5, <4>3
        <5> QED  BY <5>1, SectionEnds DEF On
      <4> QED  BY <2>2, <3>3, <3>5, <4>3, <4>4
    <3> QED  BY <1>9, <2>1, <3>4, <3>5
  <2> QED  BY <1>1, <2>1, <2>3, <2>4, <2>5
<1> QED  BY <1>7, <1>8, <1>9 DEF n

LEMMA PoseAt ==
  ASSUME NEW g \in Goals, Points[g] # <<>>, NEW t \in Nat
  PROVE  \E p \in Int : Poses_at(g, t) = {p}
<1>1. /\ Last(g) \in Nat /\ Last(g) >= 1
      /\ \A i \in 1..Last(g) : Time(g, i) \in Nat /\ Pose(g, i) \in Int
      /\ \A i, j \in 1..Last(g) : i < j => Time(g, i) < Time(g, j)
  BY PointsRise
<1>2. 1 \in 1..Last(g) /\ Last(g) \in 1..Last(g)
  BY <1>1
<1>3. CASE t <= Time(g, 1)
  BY <1>1, <1>2, <1>3, PosesAt
<1>4. CASE t >= Time(g, Last(g))
  BY <1>1, <1>2, <1>4, PosesAt
<1>5. CASE Time(g, 1) <= t /\ t < Time(g, Last(g))
  <2>1. PICK i \in 1..(Last(g) - 1) : Time(g, i) <= t /\ t < Time(g, i + 1)
    BY <1>5, SectionAt
  <2>2. i \in 1..Last(g) /\ i + 1 \in 1..Last(g) /\ i < i + 1
    BY <1>1
  <2>3. On(g, i, t) \in Int
    BY <1>1, <2>2, AlongIsNumber DEF On
  <2>4. Time(g, i + 1) \in Nat /\ t <= Time(g, i + 1)
    BY <1>1, <2>1, <2>2
  <2> QED  BY <2>1, <2>3, <2>4, PosesAt
<1> QED  BY <1>1, <1>2, <1>3, <1>4, <1>5

(* Points that are no further apart than the time between them.            *)
Gentle ==
  \A g \in Goals : \A i \in 1..(Last(g) - 1) :
    bridge!Distance(Pose(g, i), Pose(g, i + 1)) <= Time(g, i + 1) - Time(g, i)

LEMMA PosesNear ==
  ASSUME Gentle, NEW g \in Goals, Points[g] # <<>>, NEW t \in Nat,
         NEW p \in Poses_at(g, t), NEW q \in Poses_at(g, t + 1)
  PROVE  bridge!Distance(p, q) <= 1
<1>1. /\ Last(g) \in Nat /\ Last(g) >= 1
      /\ \A i \in 1..Last(g) : Time(g, i) \in Nat /\ Pose(g, i) \in Int
      /\ \A i, j \in 1..Last(g) : i < j => Time(g, i) < Time(g, j)
  BY PointsRise
<1>2. 1 \in 1..Last(g) /\ Last(g) \in 1..Last(g) /\ t + 1 \in Nat
  BY <1>1
<1>3. ASSUME NEW r \in Int PROVE bridge!Distance(r, r) <= 1
  BY DEF bridge!Distance
<1>4. CASE t + 1 <= Time(g, 1)
  <2>1. t <= Time(g, 1)
    BY <1>1, <1>2, <1>4
  <2>2. p = Pose(g, 1) /\ q = Pose(g, 1)
    BY <1>2, <1>4, <2>1, PosesAt
  <2> QED  BY <1>1, <1>2, <1>3, <2>2
<1>5. CASE t >= Time(g, Last(g))
  <2>1. t + 1 >= Time(g, Last(g))
    BY <1>1, <1>2, <1>5
  <2>2. p = Pose(g, Last(g)) /\ q = Pose(g, Last(g))
    BY <1>2, <1>5, <2>1, PosesAt
  <2> QED  BY <1>1, <1>2, <1>3, <2>2
<1>6. CASE Time(g, 1) <= t /\ t < Time(g, Last(g))
  <2>1. PICK i \in 1..(Last(g) - 1) : Time(g, i) <= t /\ t < Time(g, i + 1)
    BY <1>6, SectionAt
  <2>2. i \in 1..Last(g) /\ i + 1 \in 1..Last(g) /\ i < i + 1
    BY <1>1
  <2>3. /\ Time(g, i) < Time(g, i + 1) /\ Time(g, i) \in Nat /\ Time(g, i + 1) \in Nat
        /\ Pose(g, i) \in Int /\ Pose(g, i + 1) \in Int
    BY <1>1, <2>2
  <2>4. t <= Time(g, i + 1) /\ Time(g, i) <= t + 1 /\ t + 1 <= Time(g, i + 1)
    BY <2>1, <2>3
  <2>5. p = On(g, i, t) /\ q = On(g, i, t + 1)
    BY <1>2, <2>1, <2>4, PosesAt
  <2>6. bridge!Distance(Pose(g, i), Pose(g, i + 1)) <= Time(g, i + 1) - Time(g, i)
    BY DEF Gentle
  <2> QED  BY <2>3, <2>5, <2>6, AlongIsGentle DEF On
<1> QED  BY <1>1, <1>2, <1>4, <1>5, <1>6

(* Also of the times and the points of two trajectories.                   *)
LEMMA PosesAreNumbers ==
  ASSUME NEW of \in bridge!Trajectories, NEW points \in bridge!Trajectories, NEW t \in Nat
  PROVE  bridge!interpolate_at(of, points, t) \subseteq Int
<1> DEFINE T == bridge!PointsOf(of)
           P == bridge!PointsOf(points)
           chosen == CHOOSE i \in 1..(Len(T) - 1) : T[i].time <= t /\ t < T[i + 1].time
           idx == IF T = <<>> \/ t <= T[1].time THEN 1
                  ELSE IF t >= T[Len(T)].time THEN Len(P) ELSE chosen
           inside == T # <<>> /\ T[1].time < t /\ t < T[Len(T)].time
           out == idx + (IF inside THEN 1 ELSE 0) > Len(P)
           pose == P[idx].pose + ((P[idx + 1].pose - P[idx].pose) * (t - T[idx].time))
                                    \div (T[idx + 1].time - T[idx].time)
<1>1. bridge!interpolate_at(of, points, t) =
        IF T = <<>> \/ P = <<>> \/ out THEN {}
        ELSE IF ~ inside THEN {P[idx].pose} ELSE {pose}
  BY DEF bridge!interpolate_at
<1> SUFFICES ASSUME T # <<>>, P # <<>>, ~ out
             PROVE  (IF ~ inside THEN P[idx].pose ELSE pose) \in Int
  <2> HIDE DEF T, P, out, pose, idx, inside
  <2> QED  BY <1>1
<1>2. of \in Goals /\ T = Points[of] /\ points \in Goals /\ P = Points[points]
  BY DEF bridge!PointsOf, bridge!Trajectories
<1>3. /\ Len(T) = Last(of) /\ Last(of) \in Nat /\ Last(of) >= 1
      /\ \A i \in 1..Last(of) : Time(of, i) \in Nat
      /\ \A i, j \in 1..Last(of) : i < j => Time(of, i) < Time(of, j)
      /\ \A i : T[i].time = Time(of, i)
  BY <1>2, PointsRise DEF Last, Time
<1>4. /\ Len(P) = Last(points) /\ Last(points) \in Nat /\ Last(points) >= 1
      /\ \A i \in 1..Last(points) : P[i].pose \in Int
  BY <1>2, PointsRise DEF Last, Pose
<1>5. CASE inside
  <2>1. Time(of, 1) <= t /\ t < Time(of, Last(of))
    BY <1>3, <1>5
  <2>2. \E i \in 1..(Last(of) - 1) : Time(of, i) <= t /\ t < Time(of, i + 1)
    BY <1>2, <2>1, SectionAt
  <2>3. /\ chosen \in 1..(Last(of) - 1)
        /\ Time(of, chosen) <= t /\ t < Time(of, chosen + 1)
    <3>1. \E i \in 1..(Len(T) - 1) : T[i].time <= t /\ t < T[i + 1].time
      <4> HIDE DEF T
      <4> QED  BY <1>3, <2>2
    <3> QED  BY <1>3, <3>1
  <2> HIDE DEF chosen
  <2>4. idx = chosen
    <3> HIDE DEF T, P
    <3>1. /\ Time(of, 1) \in Nat /\ Time(of, Last(of)) \in Nat
          /\ Time(of, 1) < t /\ t < Time(of, Last(of))
      BY <1>3, <1>5
    <3>2. ~ (t <= Time(of, 1)) /\ ~ (t >= Time(of, Last(of)))
      BY <3>1
    <3> QED  BY <1>3, <3>2
  <2> HIDE DEF T, P
  <2>5. chosen + 1 <= Last(points) /\ chosen \in Nat /\ chosen >= 1
    BY <1>3, <1>4, <1>5, <2>3, <2>4
  <2>6. /\ P[chosen].pose \in Int /\ P[chosen + 1].pose \in Int
        /\ Time(of, chosen) \in Nat /\ Time(of, chosen + 1) \in Nat
        /\ Time(of, chosen) < Time(of, chosen + 1)
    BY <1>3, <1>4, <2>3, <2>5
  <2> HIDE DEF idx
  <2>7. pose = Along(P[chosen].pose, P[chosen + 1].pose, Time(of, chosen), Time(of, chosen + 1), t)
    BY <1>3, <2>4 DEF Along
  <2> HIDE DEF pose
  <2> QED  BY <1>5, <2>6, <2>7, AlongIsNumber
<1>6. CASE ~ inside
  <2> HIDE DEF T, P, chosen
  <2>1. idx \in 1..Last(points)
    <3>1. /\ Time(of, 1) \in Nat /\ Time(of, Last(of)) \in Nat /\ T[1].time = Time(of, 1)
          /\ T[Len(T)].time = Time(of, Last(of))
      BY <1>3
    <3>2. t <= T[1].time \/ t >= T[Len(T)].time
      BY <1>6, <3>1
    <3>3. CASE t <= T[1].time
      BY <1>4, <3>3
    <3>4. CASE ~ (t <= T[1].time)
      BY <1>4, <3>2, <3>4
    <3> QED  BY <3>3, <3>4
  <2> HIDE DEF idx
  <2> QED  BY <1>4, <1>6, <2>1
<1> QED  BY <1>5, <1>6

-----------------------------------------------------------------------------
(* The types of the bridge, and what its goals and their threads have in   *)
(* common in any environment.                                              *)
Taken == bridge!TypeOK /\ \A g \in Goals : goal[g] \in Active <=> thread[g] \notin {"none", "gone"}

Works == {"idle", "read", "publish", "add", "store", "compare", "deactivate"}
Ticked == [at : Works, t : Nat, times : bridge!Trajectories]

LEMMA SameStatus == bridge!Status = Status /\ bridge!Active = Active
BY DEF Status, Active, Ended, bridge!Status, bridge!Active, bridge!Ended

LEMMA InitTaken == bridge!Init => Taken
<1> SUFFICES ASSUME bridge!Init PROVE Taken
  OBVIOUS
<1>1. bridge!IdleTick \in Ticked
  BY DEF bridge!IdleTick, Ticked, Works, bridge!Trajectories
<1>2. tick \in [Ticks -> Ticked]
  BY <1>1 DEF bridge!Init
<1>3. /\ setpoint.names \in bridge!Trajectories /\ setpoint.points \in bridge!Trajectories
      /\ setpoint.pose \in Int
  BY DEF bridge!Init, bridge!NoSetpoint, bridge!Trajectories
<1>4. /\ goal \in [Goals -> Status]
      /\ thread \in [Goals -> {"none", "queued", "wait", "gone"} \cup bridge!Loading]
      /\ races \in Environments /\ elapsed \in Nat /\ active \in BOOLEAN
      /\ terminated \in BOOLEAN /\ traj_joint_names \in bridge!Trajectories
      /\ traj_points \in bridge!Trajectories /\ times \in bridge!Trajectories
  BY DEF bridge!Init, Status, bridge!Trajectories
<1>5. bridge!TypeOK
  BY <1>2, <1>3, <1>4, SameStatus DEF bridge!TypeOK, Ticked, Works
<1> QED  BY <1>5 DEF Taken, bridge!Init, Active

LEMMA GoalTaken ==
  ASSUME Taken, NEW g \in Goals,
         bridge!Accept(g) \/ bridge!Begin(g) \/ bridge!Callback(g)
  PROVE  Taken'
<1>1. UNCHANGED <<races, tick, setpoint, terminated>>
  BY DEF bridge!Accept, bridge!Begin, bridge!Callback, bridge!load_trajectory, bridge!Activate,
     bridge!Finish, bridge!From
<1> DEFINE Threads == {"none", "queued", "wait", "gone"} \cup bridge!Loading
<1>2. /\ goal \in [Goals -> Status] /\ thread \in [Goals -> Threads]
      /\ traj_joint_names \in bridge!Trajectories /\ traj_points \in bridge!Trajectories
      /\ times \in bridge!Trajectories /\ elapsed \in Nat /\ active \in BOOLEAN
      /\ races \in Environments /\ terminated \in BOOLEAN
      /\ \A h \in Goals : goal[h] \in Active <=> thread[h] \notin {"none", "gone"}
  BY SameStatus DEF Taken, bridge!TypeOK
<1>3. /\ traj_joint_names' \in {traj_joint_names, g} /\ traj_points' \in {traj_points, g}
      /\ times' \in {times, g} /\ elapsed' \in {elapsed, 0} /\ active' \in {active, TRUE}
  BY DEF bridge!Accept, bridge!Begin, bridge!Callback, bridge!load_trajectory,
     bridge!Activate, bridge!Finish, bridge!From, bridge!trajectory
<1>4. \E status \in Status, there \in Threads :
        /\ goal' = [goal EXCEPT ![g] = status] /\ thread' = [thread EXCEPT ![g] = there]
        /\ status \in Active <=> there \notin {"none", "gone"}
  <2>1. CASE bridge!Accept(g)
    <3>1. /\ "executing" \in Status /\ "executing" \in Active /\ "queued" \in Threads
          /\ "queued" \notin {"none", "gone"}
      BY DEF Status, Active
    <3>2. /\ goal' = [goal EXCEPT ![g] = "executing"]
          /\ thread' = [thread EXCEPT ![g] = "queued"]
      BY <2>1 DEF bridge!Accept
    <3> HIDE DEF Threads
    <3> QED  BY <3>1, <3>2
  <2>2. CASE bridge!Finish(g)
    <3>1. /\ "succeeded" \in Status /\ "succeeded" \notin Active /\ "gone" \in Threads
          /\ "gone" \in {"none", "gone"}
      BY DEF Status, Active, Ended
    <3>2. /\ goal' = [goal EXCEPT ![g] = "succeeded"]
          /\ thread' = [thread EXCEPT ![g] = "gone"]
      BY <2>2 DEF bridge!Finish, bridge!From
    <3> HIDE DEF Threads
    <3> QED  BY <3>1, <3>2
  <2>3. ASSUME bridge!Begin(g) \/ bridge!load_trajectory(g) \/ bridge!Activate(g)
        PROVE  \E there \in Threads :
                 /\ thread' = [thread EXCEPT ![g] = there] /\ goal' = goal
                 /\ there \notin {"none", "gone"} /\ thread[g] \notin {"none", "gone"}
    BY <2>3 DEF bridge!Begin, bridge!load_trajectory, bridge!Activate, bridge!From,
       bridge!Loading
  <2>4. goal = [goal EXCEPT ![g] = goal[g]] /\ goal[g] \in Status
    BY <1>2
  <2> QED  BY <1>2, <2>1, <2>2, <2>3, <2>4 DEF bridge!Callback
<1>5. /\ goal' \in [Goals -> Status] /\ thread' \in [Goals -> Threads]
      /\ \A h \in Goals : goal'[h] \in Active <=> thread'[h] \notin {"none", "gone"}
  BY <1>2, <1>4
<1>6. g \in bridge!Trajectories /\ TRUE \in BOOLEAN /\ 0 \in Nat
  BY DEF bridge!Trajectories
<1>7. /\ traj_joint_names' \in bridge!Trajectories /\ traj_points' \in bridge!Trajectories
      /\ times' \in bridge!Trajectories /\ elapsed' \in Nat /\ active' \in BOOLEAN
      /\ races' \in Environments /\ terminated' \in BOOLEAN
  BY <1>1, <1>2, <1>3, <1>6
<1>8. bridge!TypeOK'
  BY <1>1, <1>5, <1>7, SameStatus DEF Taken, bridge!TypeOK
<1> QED  BY <1>5, <1>8 DEF Taken

LEMMA TickTaken ==
  ASSUME Taken, NEW i \in Ticks, bridge!Fire(i) \/ bridge!Tick(i)
  PROVE  Taken'
<1>1. UNCHANGED <<races, goal, thread, traj_joint_names, traj_points, times>>
  BY DEF bridge!Fire, bridge!Tick, bridge!Read, bridge!Publish, bridge!Add, bridge!Compare,
     bridge!Deactivate, bridge!Step, bridge!trajectory
<1>2. tick \in [Ticks -> Ticked] /\ elapsed \in Nat /\ times \in bridge!Trajectories
  BY DEF Taken, bridge!TypeOK, Ticked, Works
<1>3. tick[i].at \in Works /\ tick[i].t \in Nat /\ tick[i].times \in bridge!Trajectories
  BY <1>2 DEF Ticked
<1>4. tick' \in [Ticks -> Ticked]
  <2>1. \A e \in Nat : e + 1 \in Nat
    OBVIOUS
  <2>2. \E new \in Ticked : tick' = [tick EXCEPT ![i] = new]
    BY <1>2, <1>3, <2>1
    DEF bridge!Fire, bridge!Tick, bridge!Read, bridge!Publish, bridge!Add, bridge!Compare,
     bridge!Deactivate, bridge!Step, bridge!Goto, bridge!IdleTick, Ticked, Works,
     bridge!Trajectories
  <2> QED  BY <1>2, <2>2
<1>5. elapsed' \in Nat /\ active' \in BOOLEAN /\ terminated' \in BOOLEAN
  BY <1>3 DEF bridge!Fire, bridge!Tick, bridge!Read, bridge!Publish, bridge!Add,
     bridge!Compare, bridge!Deactivate, bridge!Step, Taken, bridge!TypeOK
<1>6. /\ setpoint'.names \in bridge!Trajectories /\ setpoint'.points \in bridge!Trajectories
      /\ setpoint'.pose \in Int
  <2>1. CASE bridge!Publish(i)
    <3> DEFINE positions == bridge!interpolate_at(tick[i].times, traj_points, tick[i].t)
    <3>1. positions \subseteq Int
      BY <1>3, PosesAreNumbers DEF Taken, bridge!TypeOK
    <3>2. setpoint' \in IF positions = {} THEN {setpoint}
                        ELSE [names : {traj_joint_names}, points : {traj_points}, pose : positions]
      BY <2>1 DEF bridge!Publish
    <3> HIDE DEF positions
    <3> QED  BY <3>1, <3>2 DEF Taken, bridge!TypeOK
  <2>2. CASE ~ bridge!Publish(i)
    BY <2>2 DEF bridge!Fire, bridge!Tick, bridge!Read, bridge!Add, bridge!Compare,
       bridge!Deactivate, Taken, bridge!TypeOK
  <2> QED  BY <2>1, <2>2
<1> QED  BY <1>1, <1>4, <1>5, <1>6 DEF Taken, bridge!TypeOK, Ticked, Works

LEMMA BridgeTaken == Taken /\ [bridge!Next]_(bridge!vars) => Taken'
<1> SUFFICES ASSUME Taken, [bridge!Next]_(bridge!vars) PROVE Taken'
  OBVIOUS
<1>1. CASE UNCHANGED bridge!vars
  BY <1>1 DEF bridge!vars, bridge!trajectory, Taken, bridge!TypeOK
<1> QED  BY <1>1, GoalTaken, TickTaken DEF bridge!Next

-----------------------------------------------------------------------------
(* The bridge in an environment without races: one goal after the other,   *)
(* one tick at a time, and the set point where elapsed says.               *)
Loads == {"queued"} \cup bridge!Loading
Rests == {"idle", "read", "publish"}
Loaded(g) == traj_joint_names = g /\ traj_points = g /\ times = g
Shown(g, t) == setpoint.points = g /\ setpoint.pose \in Poses_at(g, t)
AtLast(g) == setpoint.points = g /\ setpoint.pose = Pose(g, Last(g))
UpTo(g) == IF elapsed = 0 THEN setpoint.points # g ELSE Shown(g, elapsed - 1)

OneByOne ==
  /\ \A g, h \in Goals : goal[g] \in Active /\ goal[h] \in Active => g = h
  /\ \A g \in Goals : goal[g] \in Active => Points[g] # <<>>
  /\ active => \E g \in Goals : thread[g] = "wait"
  /\ \A i, j \in Ticks : tick[i].at # "idle" /\ tick[j].at # "idle" => i = j
  /\ \A i \in Ticks : tick[i].at # "idle" => active

Named ==
  /\ setpoint.names = setpoint.points
  /\ \A g \in Goals : setpoint.points = g => thread[g] \in {"wait", "gone"} /\ goal[g] # "none"

Ready(g) ==
  /\ thread[g] \in {"points", "times", "elapsed", "active"} => traj_joint_names = g
  /\ thread[g] \in {"times", "elapsed", "active"} => traj_points = g
  /\ thread[g] \in {"elapsed", "active"} => times = g
  /\ thread[g] = "active" => elapsed = 0
  /\ thread[g] = "wait" => Loaded(g)

Tracks(g, i) ==
  /\ tick[i].at = "publish" => tick[i].t = elapsed /\ tick[i].times = g
  /\ tick[i].at \in {"add", "store"} => Shown(g, elapsed)
  /\ tick[i].at = "store" => tick[i].t = elapsed + 1
  /\ tick[i].at \in {"compare", "deactivate"} => elapsed > 0 /\ Shown(g, elapsed - 1)
  /\ tick[i].at = "deactivate" => elapsed > Time(g, Last(g)) + 1

Follows(g) ==
  thread[g] = "wait" =>
    /\ ~ active => AtLast(g)
    /\ active /\ (\A i \in Ticks : tick[i].at \in Rests) => UpTo(g)
    /\ active => \A i \in Ticks : Tracks(g, i)

CalmTurn == OneByOne /\ Named /\ \A g \in Goals : Ready(g) /\ Follows(g)
Orderly == Taken /\ (bridge!Calm => CalmTurn)

LEMMA InitOrderly == bridge!Init => Orderly
<1> SUFFICES ASSUME bridge!Init PROVE Orderly
  OBVIOUS
<1>1. Taken
  BY InitTaken
<1>2. OneByOne
  BY DEF bridge!Init, OneByOne, bridge!IdleTick, Active
<1>3. Named
  BY PlayersAssumption DEF bridge!Init, Named, bridge!NoSetpoint, bridge!BridgeAssumption
<1>4. \A g \in Goals : Ready(g) /\ Follows(g)
  BY DEF bridge!Init, Ready, Follows
<1> QED  BY <1>1, <1>2, <1>3, <1>4 DEF Orderly, CalmTurn

(* While a trajectory is active its goal is the one that waits.            *)
LEMMA ActiveGoal ==
  ASSUME Taken, CalmTurn, active
  PROVE  \E g \in Goals : /\ thread[g] = "wait" /\ goal[g] \in Active /\ Loaded(g)
                          /\ Points[g] # <<>>
                          /\ \A h \in Goals : h # g => thread[h] \in {"none", "gone"}
<1>1. PICK g \in Goals : thread[g] = "wait"
  BY DEF CalmTurn, OneByOne
<1>2. goal[g] \in Active
  BY <1>1 DEF Taken
<1>3. Points[g] # <<>> /\ \A h \in Goals : h # g => thread[h] \in {"none", "gone"}
  BY <1>2 DEF CalmTurn, OneByOne, Taken
<1>4. Loaded(g)
  BY <1>1 DEF CalmTurn, Ready
<1> QED  BY <1>1, <1>2, <1>3, <1>4

LEMMA GoalOrderly ==
  ASSUME Taken, bridge!Calm, CalmTurn, NEW g \in Goals,
         bridge!Accept(g) \/ bridge!Begin(g) \/ bridge!Callback(g)
  PROVE  CalmTurn'
<1>1. /\ goal \in [Goals -> Status] /\ DOMAIN thread = Goals
      /\ \A h \in Goals : goal[h] \in Active <=> thread[h] \notin {"none", "gone"}
      /\ UNCHANGED <<tick, setpoint>>
  BY SameStatus
  DEF Taken, bridge!TypeOK, bridge!Accept, bridge!Begin, bridge!Callback,
      bridge!load_trajectory, bridge!Activate, bridge!Finish, bridge!From
<1>2. /\ ~ active /\ (\A h \in Goals : thread[h] # "wait" \/ h = g)
      /\ \A h \in Goals : h # g => thread[h] \in {"none", "gone"}
      /\ bridge!Accept(g) => goal[g] = "none" /\ Points[g] # <<>>
      /\ ~ bridge!Accept(g) => goal[g] \in Active
  <2>1. CASE bridge!Accept(g)
    <3>1. \A h \in Goals : goal[h] \notin Active
      BY <2>1, SameStatus DEF bridge!Accept, bridge!Calm
    <3>2. goal[g] = "none" /\ Points[g] # <<>>
      BY <2>1 DEF bridge!Accept, bridge!Calm
    <3>3. \A h \in Goals : thread[h] \in {"none", "gone"}
      BY <1>1, <3>1
    <3>4. ~ active
      BY <3>3 DEF CalmTurn, OneByOne
    <3> QED  BY <2>1, <3>2, <3>3, <3>4
  <2>2. CASE bridge!Begin(g) \/ bridge!Callback(g)
    <3>1. thread[g] \notin {"none", "gone"} /\ (thread[g] = "wait" => bridge!Finish(g))
      BY <2>2 DEF bridge!Begin, bridge!Callback, bridge!load_trajectory, bridge!Activate,
         bridge!Finish, bridge!From
    <3>2. goal[g] \in Active /\ Points[g] # <<>>
      BY <1>1, <3>1 DEF CalmTurn, OneByOne
    <3>3. \A h \in Goals : h # g => thread[h] \in {"none", "gone"}
      BY <1>1, <3>2 DEF CalmTurn, OneByOne
    <3>4. ~ active
      <4>1. CASE thread[g] = "wait"
        BY <3>1, <3>2, <4>1 DEF bridge!Finish, bridge!DeadlinePasses, bridge!Calm
      <4>2. CASE thread[g] # "wait"
        BY <3>3, <4>2 DEF CalmTurn, OneByOne
      <4> QED  BY <4>1, <4>2
    <3>5. ~ bridge!Accept(g)
      BY <3>2 DEF bridge!Accept, Active
    <3> QED  BY <3>2, <3>3, <3>4, <3>5
  <2> QED  BY <2>1, <2>2
<1>3. \A i \in Ticks : tick[i].at = "idle"
  BY <1>2 DEF CalmTurn, OneByOne
<1>4. /\ \A h \in Goals : h # g => thread'[h] = thread[h] /\ goal'[h] = goal[h]
      /\ goal'[g] # "none"
  BY <1>1
  DEF bridge!Accept, bridge!Begin, bridge!Callback,
      bridge!load_trajectory, bridge!Activate, bridge!Finish, bridge!From, Active
<1>5. \A h \in Goals : h # g => Ready(h)' /\ Follows(h)' /\ goal'[h] \notin Active
  <2> SUFFICES ASSUME NEW h \in Goals, h # g PROVE Ready(h)' /\ Follows(h)' /\ goal'[h] \notin Active
    OBVIOUS
  <2>1. thread'[h] \in {"none", "gone"} /\ goal'[h] \notin Active
    BY <1>1, <1>2, <1>4
  <2> QED  BY <2>1 DEF Ready, Follows
<1>6. Points[g] # <<>>
  BY <1>2 DEF CalmTurn, OneByOne
<1>7. OneByOne' /\ Ready(g)' /\ Follows(g)'
  <2>1. active' => thread'[g] = "wait" /\ bridge!Activate(g)
    BY <1>1, <1>2
    DEF bridge!Accept, bridge!Begin, bridge!Callback, bridge!load_trajectory,
        bridge!Activate, bridge!Finish, bridge!From
  <2>2. OneByOne'
    BY <1>1, <1>3, <1>5, <1>6, <2>1 DEF OneByOne
  <2>3. Ready(g)'
    BY <1>1 DEF CalmTurn, Ready, Loaded, bridge!Accept, bridge!Begin, bridge!Callback,
        bridge!load_trajectory, bridge!Activate, bridge!Finish, bridge!From, bridge!trajectory
  <2>4. Follows(g)'
    <3> SUFFICES ASSUME thread'[g] = "wait"
                 PROVE  /\ active' /\ UpTo(g)' /\ \A i \in Ticks : Tracks(g, i)'
      BY DEF Follows
    <3>1. thread[g] = "active" /\ active' /\ elapsed' = elapsed
      BY <1>1 DEF bridge!Accept, bridge!Begin, bridge!Callback, bridge!load_trajectory,
        bridge!Activate, bridge!Finish, bridge!From
    <3>2. elapsed = 0 /\ setpoint.points # g
      BY <3>1 DEF CalmTurn, Ready, Named
    <3> QED  BY <1>1, <1>3, <3>1, <3>2 DEF UpTo, Tracks
  <2> QED  BY <2>2, <2>3, <2>4
<1>8. Named'
  <2>1. setpoint.points = g => thread'[g] \in {"wait", "gone"}
    <3> SUFFICES ASSUME setpoint.points = g PROVE thread'[g] \in {"wait", "gone"}
      OBVIOUS
    <3>1. thread[g] \in {"wait", "gone"} /\ goal[g] # "none"
      BY DEF CalmTurn, Named
    <3>2. bridge!Finish(g)
      BY <3>1 DEF bridge!Accept, bridge!Begin, bridge!Callback, bridge!load_trajectory,
        bridge!Activate, bridge!Finish, bridge!From
    <3> QED  BY <1>1, <3>2 DEF bridge!Finish, bridge!From
  <2> QED  BY <1>1, <1>4, <2>1 DEF CalmTurn, Named
<1> QED  BY <1>5, <1>7, <1>8 DEF CalmTurn

LEMMA TickOrderly ==
  ASSUME Taken, bridge!Calm, CalmTurn, NEW i \in Ticks, bridge!Fire(i) \/ bridge!Tick(i)
  PROVE  CalmTurn'
<1>1. UNCHANGED <<races, goal, thread, traj_joint_names, traj_points, times>>
  BY DEF bridge!Fire, bridge!Tick, bridge!Read, bridge!Publish, bridge!Add, bridge!Compare,
     bridge!Deactivate, bridge!Step, bridge!trajectory
<1>2. tick \in [Ticks -> Ticked] /\ elapsed \in Nat /\ active \in BOOLEAN
  BY DEF Taken, bridge!TypeOK, Ticked, Works
<1>3. active /\ \A j \in Ticks : j # i => tick[j].at = "idle"
  <2>1. CASE bridge!Fire(i)
    BY <2>1 DEF bridge!Fire, bridge!Calm, bridge!Step
  <2>2. CASE bridge!Tick(i)
    <3>1. tick[i].at # "idle"
      BY <2>2 DEF bridge!Tick, bridge!Read, bridge!Publish, bridge!Add, bridge!Compare,
         bridge!Deactivate, bridge!Step
    <3> QED  BY <3>1 DEF CalmTurn, OneByOne
  <2> QED  BY <2>1, <2>2
<1>4. PICK g \in Goals : /\ thread[g] = "wait" /\ goal[g] \in Active /\ Loaded(g)
                         /\ Points[g] # <<>>
                         /\ \A h \in Goals : h # g => thread[h] \in {"none", "gone"}
  BY <1>3, ActiveGoal
<1>5. bridge!PointsOf(g) = Points[g] /\ bridge!LastTime(g) = Time(g, Last(g))
  BY PlayersAssumption DEF bridge!PointsOf, bridge!BridgeAssumption, bridge!LastTime, Last, Time
<1>6. /\ Last(g) \in Nat /\ Time(g, Last(g)) \in Nat
      /\ \A t \in Nat : \E p \in Int : Poses_at(g, t) = {p}
  <2>1. Last(g) \in 1..Last(g) /\ Last(g) \in Nat
    BY <1>4, PointsRise
  <2> QED  BY <1>4, <2>1, PointsRise, PoseAt
<1>7. /\ tick[i].at \in Rests => UpTo(g)
      /\ Tracks(g, i)
  BY <1>3, <1>4 DEF CalmTurn, Follows, Rests
<1>8. \E new : tick' = [tick EXCEPT ![i] = new]
  BY DEF bridge!Fire, bridge!Tick, bridge!Read, bridge!Publish, bridge!Add, bridge!Compare,
     bridge!Deactivate, bridge!Step, bridge!Goto
<1>9. /\ \A j \in Ticks : j # i => tick'[j].at = "idle"
      /\ ~ active' => tick'[i].at = "idle"
  <2>1. \A j \in Ticks : j # i => tick'[j] = tick[j]
    BY <1>2, <1>8
  <2>2. ~ active' => bridge!Deactivate(i)
    BY <1>3 DEF bridge!Fire, bridge!Tick, bridge!Read, bridge!Publish, bridge!Add,
       bridge!Compare
  <2>3. bridge!Deactivate(i) => tick'[i].at = "idle"
    BY <1>2 DEF bridge!Deactivate, bridge!Step, bridge!IdleTick
  <2> QED  BY <1>3, <2>1, <2>2, <2>3
<1>10. OneByOne'
  BY <1>1, <1>3, <1>9 DEF CalmTurn, OneByOne
<1>11. \A h \in Goals : Ready(h)'
  BY <1>1, <1>4 DEF Ready, Loaded
<1>12. /\ ~ active' => AtLast(g)'
       /\ active' /\ tick'[i].at \in Rests => UpTo(g)'
       /\ active' => Tracks(g, i)'
  <2>1. CASE bridge!Fire(i)
    <3>1. tick'[i].at = "read" /\ tick[i].at = "idle" /\ UNCHANGED <<elapsed, active, setpoint>>
      BY <1>2, <2>1 DEF bridge!Fire, bridge!Step, bridge!Goto
    <3>2. UpTo(g)
      BY <1>7, <3>1 DEF Rests
    <3> QED  BY <1>3, <3>1, <3>2 DEF UpTo, Shown, Tracks
  <2>2. CASE bridge!Read(i)
    <3>1. /\ tick'[i].at = "publish" /\ tick'[i].t = elapsed /\ tick'[i].times = times
          /\ tick[i].at = "read" /\ UNCHANGED <<elapsed, active, setpoint>>
      BY <1>2, <2>2 DEF bridge!Read, bridge!Step
    <3>2. UpTo(g) /\ times = g
      BY <1>4, <1>7, <3>1 DEF Rests, Loaded
    <3> QED  BY <1>3, <3>1, <3>2 DEF UpTo, Shown, Tracks
  <2>3. CASE bridge!Publish(i)
    <3>1. tick'[i].at = "add" /\ tick[i].at = "publish" /\ UNCHANGED <<elapsed, active>>
      BY <1>2, <2>3 DEF bridge!Publish, bridge!Step, bridge!Goto
    <3>2. tick[i].t = elapsed /\ tick[i].times = g /\ traj_points = g
      BY <1>4, <1>7, <3>1 DEF Tracks, Loaded
    <3> DEFINE positions == Poses_at(g, elapsed)
    <3>3. setpoint' \in IF positions = {} THEN {setpoint}
                       ELSE [names : {traj_joint_names}, points : {traj_points}, pose : positions]
      BY <2>3, <3>2 DEF bridge!Publish, Poses_at
    <3>4. positions # {}
      BY <1>2, <1>6
    <3> HIDE DEF positions
    <3>5. setpoint'.points = g /\ setpoint'.pose \in positions
      BY <3>2, <3>3, <3>4
    <3> QED  BY <1>3, <3>1, <3>5 DEF Tracks, Shown, Rests, positions
  <2>4. CASE bridge!Add(i) /\ tick[i].at = "add"
    <3>1. /\ tick'[i].at = "store" /\ tick'[i].t = elapsed + 1
          /\ UNCHANGED <<elapsed, active, setpoint>>
      BY <1>2, <2>4 DEF bridge!Add, bridge!Step
    <3>2. Shown(g, elapsed)
      BY <1>7, <2>4 DEF Tracks
    <3> QED  BY <1>3, <3>1, <3>2 DEF Tracks, Shown, Rests
  <2>5. CASE bridge!Add(i) /\ tick[i].at # "add"
    <3>1. /\ tick[i].at = "store" /\ tick'[i].at = "compare" /\ elapsed' = tick[i].t
          /\ UNCHANGED <<active, setpoint>>
      BY <1>2, <2>5 DEF bridge!Add, bridge!Step, bridge!Goto
    <3>2. tick[i].t = elapsed + 1 /\ Shown(g, elapsed)
      BY <1>7, <3>1 DEF Tracks
    <3>3. \A e \in Nat : e + 1 > 0 /\ (e + 1) - 1 = e
      OBVIOUS
    <3>4. elapsed' = elapsed + 1 /\ elapsed' > 0 /\ elapsed' - 1 = elapsed
      BY <1>2, <3>1, <3>2, <3>3
    <3> QED  BY <1>3, <3>1, <3>2, <3>4 DEF Tracks, Shown, Rests
  <2>6. CASE bridge!Compare(i)
    <3>1. tick[i].at = "compare" /\ UNCHANGED <<elapsed, active, setpoint>>
      BY <2>6 DEF bridge!Compare, bridge!Step
    <3>2. elapsed > 0 /\ Shown(g, elapsed - 1)
      BY <1>7, <3>1 DEF Tracks
    <3>3. UpTo(g)'
      BY <1>2, <3>1, <3>2 DEF UpTo, Shown
    <3>4. times = g /\ bridge!PointsOf(times) # <<>>
      BY <1>4, <1>5 DEF Loaded
    <3>5. CASE bridge!PlayedOut(elapsed)
      <4>1. tick'[i].at = "deactivate"
        BY <1>2, <2>6, <3>4, <3>5 DEF bridge!Compare, bridge!Step, bridge!Goto
      <4>2. elapsed > Time(g, Last(g)) + 1
        BY <1>5, <3>4, <3>5 DEF bridge!PlayedOut
      <4> QED  BY <1>3, <3>1, <3>2, <4>1, <4>2 DEF Tracks, Shown, Rests
    <3>6. CASE ~ bridge!PlayedOut(elapsed)
      <4>1. tick'[i].at = "idle"
        BY <1>2, <2>6, <3>4, <3>6 DEF bridge!Compare, bridge!Step, bridge!IdleTick
      <4> QED  BY <1>3, <3>1, <3>3, <4>1 DEF Tracks
    <3> QED  BY <3>5, <3>6
  <2>7. CASE bridge!Deactivate(i)
    <3>1. tick[i].at = "deactivate" /\ active' = FALSE /\ UNCHANGED setpoint
      BY <2>7 DEF bridge!Deactivate, bridge!Step
    <3>2. elapsed > Time(g, Last(g)) + 1 /\ elapsed > 0 /\ Shown(g, elapsed - 1)
      BY <1>7, <3>1 DEF Tracks
    <3>3. elapsed - 1 \in Nat /\ elapsed - 1 >= Time(g, Last(g))
      BY <1>2, <1>6, <3>2
    <3>4. AtLast(g)
      BY <1>4, <3>2, <3>3, PosesAt DEF AtLast, Shown
    <3> QED  BY <3>1, <3>4 DEF AtLast
  <2> QED  BY <2>1, <2>2, <2>3, <2>4, <2>5, <2>6, <2>7 DEF bridge!Tick
<1>13. \A h \in Goals : Follows(h)'
  <2>1. \A h \in Goals : h # g => Follows(h)'
    BY <1>1, <1>4 DEF Follows
  <2>2. \A j \in Ticks : j # i => Tracks(g, j)'
    BY <1>9 DEF Tracks
  <2>3. Follows(g)'
    BY <1>12, <2>2 DEF Follows
  <2> QED  BY <2>1, <2>3
<1>14. Named'
  <2>1. CASE bridge!Publish(i)
    <3>1. tick[i].at = "publish" /\ tick[i].t = elapsed /\ tick[i].times = g
      BY <1>7, <2>1 DEF Tracks, bridge!Publish, bridge!Step
    <3>2. traj_points = g /\ traj_joint_names = g
      BY <1>4 DEF Loaded
    <3> DEFINE positions == bridge!interpolate_at(tick[i].times, traj_points, tick[i].t)
    <3>3. setpoint' \in IF positions = {} THEN {setpoint}
                       ELSE [names : {traj_joint_names}, points : {traj_points}, pose : positions]
      BY <2>1 DEF bridge!Publish
    <3> HIDE DEF positions
    <3>4. setpoint' = setpoint \/ (setpoint'.points = g /\ setpoint'.names = g)
      BY <3>2, <3>3
    <3>5. goal[g] # "none"
      BY <1>4 DEF Active
    <3> QED  BY <1>1, <1>4, <3>4, <3>5 DEF CalmTurn, Named
  <2>2. CASE ~ bridge!Publish(i)
    <3>1. UNCHANGED setpoint
      BY <2>2 DEF bridge!Fire, bridge!Tick, bridge!Read, bridge!Add, bridge!Compare,
         bridge!Deactivate
    <3> QED  BY <1>1, <3>1 DEF CalmTurn, Named
  <2> QED  BY <2>1, <2>2
<1> QED  BY <1>10, <1>11, <1>13, <1>14 DEF CalmTurn

LEMMA BridgeOrderly == Orderly /\ [bridge!Next]_(bridge!vars) => Orderly'
<1> SUFFICES ASSUME Orderly, [bridge!Next]_(bridge!vars) PROVE Orderly'
  OBVIOUS
<1>1. Taken'
  BY BridgeTaken DEF Orderly
<1>2. races' = races
  BY DEF bridge!Next, bridge!vars, bridge!Accept, bridge!Begin, bridge!Callback,
     bridge!load_trajectory, bridge!Activate, bridge!Finish, bridge!From, bridge!Fire,
     bridge!Tick, bridge!Read, bridge!Publish, bridge!Add, bridge!Compare,
     bridge!Deactivate, bridge!Step
<1>3. ASSUME bridge!Calm PROVE CalmTurn'
  <2>1. CASE UNCHANGED bridge!vars
    BY <1>3, <2>1 DEF bridge!vars, bridge!trajectory, Orderly, CalmTurn, OneByOne, Named,
       Ready, Loaded, Follows, AtLast, UpTo, Shown, Tracks
  <2> QED  BY <1>3, <2>1, GoalOrderly, TickOrderly DEF Orderly, bridge!Next
<1> QED  BY <1>1, <1>2, <1>3 DEF Orderly, bridge!Calm

(* What the bridge promises of its steps.                                  *)
LEMMA BridgePlaysToTheEnd ==
  ASSUME Orderly, [bridge!Next]_(bridge!vars)
  PROVE  bridge!PlaysToTheEnd
<1> SUFFICES ASSUME NEW g \in Goals, bridge!Calm, goal[g] # "succeeded", goal'[g] = "succeeded"
             PROVE  setpoint.points = g /\ setpoint.pose = Points[g][Len(Points[g])].pose
  BY DEF bridge!PlaysToTheEnd
<1>1. goal \in [Goals -> Status]
  BY SameStatus DEF Orderly, Taken, bridge!TypeOK
<1>2. bridge!Finish(g)
  <2>1. ASSUME NEW h \in Goals, bridge!Finish(h) PROVE h = g
    BY <1>1, <2>1 DEF bridge!Finish
  <2>2. ASSUME NEW h \in Goals, bridge!Accept(h) PROVE FALSE
    BY <1>1, <2>2 DEF bridge!Accept
  <2> QED  BY <2>1, <2>2 DEF bridge!Next, bridge!vars, bridge!Begin, bridge!Callback,
     bridge!load_trajectory, bridge!Activate, bridge!Fire, bridge!Tick, bridge!Read,
     bridge!Publish, bridge!Add, bridge!Compare, bridge!Deactivate, bridge!Step
<1>3. thread[g] = "wait" /\ (~ active \/ Points[g] = <<>>)
  BY <1>2 DEF bridge!Finish, bridge!From, bridge!DeadlinePasses, bridge!Calm
<1>4. Points[g] # <<>>
  BY <1>3 DEF Orderly, Taken, CalmTurn, OneByOne
<1> QED  BY <1>3, <1>4 DEF Orderly, CalmTurn, Follows, AtLast, Pose, Last

LEMMA BridgeSmallSteps ==
  ASSUME Gentle, Orderly, [bridge!Next]_(bridge!vars)
  PROVE  bridge!SmallSteps
<1> SUFFICES ASSUME bridge!Calm, setpoint' # setpoint
             PROVE  /\ setpoint'.names = setpoint'.points
                    /\ IF setpoint'.points = setpoint.points
                       THEN bridge!Distance(setpoint.pose, setpoint'.pose) <= bridge!MaxStep
                       ELSE setpoint'.pose = Points[setpoint'.points][1].pose
  BY DEF bridge!SmallSteps
<1>1. PICK i \in Ticks : bridge!Publish(i)
  BY DEF bridge!Next, bridge!vars, bridge!Accept, bridge!Begin, bridge!Callback,
     bridge!load_trajectory, bridge!Activate, bridge!Finish, bridge!From, bridge!Fire,
     bridge!Tick, bridge!Read, bridge!Add, bridge!Compare, bridge!Deactivate, bridge!Step
<1>2. Taken /\ CalmTurn /\ elapsed \in Nat
  BY DEF Orderly, Taken, bridge!TypeOK
<1>3. tick[i].at = "publish" /\ active
  BY <1>1, <1>2 DEF bridge!Publish, bridge!Step, CalmTurn, OneByOne
<1>4. PICK g \in Goals : thread[g] = "wait" /\ Loaded(g) /\ Points[g] # <<>>
  BY <1>2, <1>3, ActiveGoal
<1>5. tick[i].t = elapsed /\ tick[i].times = g /\ traj_points = g /\ traj_joint_names = g
  BY <1>2, <1>3, <1>4 DEF CalmTurn, Follows, Tracks, Loaded
<1>6. UpTo(g)
  <2>1. \A j \in Ticks : tick[j].at \in Rests
    BY <1>2, <1>3 DEF CalmTurn, OneByOne, Rests
  <2> QED  BY <1>2, <1>3, <1>4, <2>1 DEF CalmTurn, Follows
<1>7. /\ setpoint'.points = g /\ setpoint'.names = g
      /\ setpoint'.pose \in Poses_at(g, elapsed)
  <2> DEFINE positions == Poses_at(g, elapsed)
  <2>1. setpoint' \in IF positions = {} THEN {setpoint}
                     ELSE [names : {traj_joint_names}, points : {traj_points}, pose : positions]
    BY <1>1, <1>5 DEF bridge!Publish, Poses_at
  <2> HIDE DEF positions
  <2> QED  BY <1>5, <2>1 DEF positions
<1>8. CASE elapsed = 0
  <2>1. setpoint.points # g
    BY <1>6, <1>8 DEF UpTo
  <2>2. Last(g) >= 1 /\ Last(g) \in Nat /\ 1 \in 1..Last(g) /\ Time(g, 1) \in Nat
    BY <1>4, PointsRise
  <2>3. elapsed <= Time(g, 1)
    BY <1>8, <2>2
  <2>4. setpoint'.pose = Pose(g, 1)
    BY <1>2, <1>4, <1>7, <2>3, PosesAt
  <2> QED  BY <1>7, <2>1, <2>4 DEF Pose
<1>9. CASE elapsed # 0
  <2>1. elapsed - 1 \in Nat /\ (elapsed - 1) + 1 = elapsed
    BY <1>2, <1>9
  <2>2. Shown(g, elapsed - 1)
    BY <1>6, <1>9 DEF UpTo
  <2>3. bridge!Distance(setpoint.pose, setpoint'.pose) <= 1
    BY <1>4, <1>7, <2>1, <2>2, PosesNear DEF Shown
  <2> QED  BY <1>7, <2>2, <2>3 DEF Shown, bridge!MaxStep
<1> QED  BY <1>8, <1>9

-----------------------------------------------------------------------------
(* The players                                                             *)
Plays ==
  /\ player = "generator" => Stepping /\ (Slow => InTurn)
  /\ player # "generator" => Orderly

LEMMA InitPlays == PlayerInit => Plays
BY InitStepping, InitInTurn, InitOrderly DEF PlayerInit, Plays

(* A step of the players is one of the node that is looked at.             *)
LEMMA PlayerStep ==
  ASSUME [PlayerNext]_playerVars
  PROVE  /\ player' = player
         /\ player = "generator" => [Next]_vars
         /\ player # "generator" => [bridge!Next]_(bridge!vars)
<1>1. CASE Generates(Next)
  BY <1>1 DEF Generates
<1>2. CASE Bridges(bridge!Next)
  BY <1>2 DEF Bridges
<1>3. CASE UNCHANGED playerVars
  BY <1>3 DEF playerVars, vars, ofBridge, bridge!vars, bridge!trajectory
<1> QED  BY <1>1, <1>2, <1>3 DEF PlayerNext

LEMMA NextPlays == Plays /\ [PlayerNext]_playerVars => Plays'
<1> SUFFICES ASSUME Plays, [PlayerNext]_playerVars PROVE Plays'
  OBVIOUS
<1>1. player' = player
  BY PlayerStep
<1>2. CASE player = "generator"
  <2>1. Stepping /\ (Slow => InTurn) /\ [Next]_vars
    BY <1>2, PlayerStep DEF Plays
  <2>2. Stepping'
    BY <2>1, GeneratorStepping
  <2>3. Slow => InTurn'
    BY <2>1, GeneratorInTurn
  <2> QED  BY <1>1, <1>2, <2>2, <2>3 DEF Plays, Slow
<1>3. CASE player # "generator"
  <2>1. Orderly'
    BY <1>3, PlayerStep, BridgeOrderly DEF Plays
  <2> QED  BY <1>1, <1>3, <2>1 DEF Plays
<1> QED  BY <1>2, <1>3

LEMMA AlwaysPlays == PlayerSpec => []Plays
BY InitPlays, NextPlays, PTL DEF PlayerSpec

(* The types of both nodes, whatever their goals, threads and bounds.      *)
THEOREM TypeCorrect == PlayerSpec => []PlayerTypeOK
<1>1. Plays => PlayerTypeOK
  BY DEF Plays, PlayerTypeOK, Stepping, Orderly, Taken
<1> QED  BY <1>1, AlwaysPlays, PTL

(* A goal that succeeds has been played to its end: by a generator that    *)
(* plays one goal at a time and no more than twice as fast as planned (so  *)
(* that no period takes it past two borders), for a path whose curves fit  *)
(* their times; by the bridge where goals and ticks do not overlap.        *)
THEOREM PathsCompleted ==
  ASSUME Slow
  PROVE  PlayerSpec => PathsAreCompleted
<1>1. ASSUME Plays, [PlayerNext]_playerVars
      PROVE  /\ player = "generator" => CompletesFitting
             /\ player = "bridge" => bridge!PlaysToTheEnd
  BY <1>1, PlayerStep, GeneratorCompletes, BridgePlaysToTheEnd DEF Plays
<1> QED  BY <1>1, AlwaysPlays, PTL DEF PlayerSpec, PathsAreCompleted

(* Nor do their commands jump, if the points of a trajectory do not.       *)
THEOREM MotionsSmooth ==
  ASSUME Slow, Gentle
  PROVE  PlayerSpec => MotionsAreSmooth
<1>1. ASSUME Plays, [PlayerNext]_playerVars
      PROVE  /\ player = "generator" => KeepsSpeed
             /\ player = "bridge" => bridge!SmallSteps
  BY <1>1, PlayerStep, GeneratorKeepsSpeed, BridgeSmallSteps DEF Plays
<1> QED  BY <1>1, AlwaysPlays, PTL DEF PlayerSpec, MotionsAreSmooth

=============================================================================
