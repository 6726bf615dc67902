---------------------- MODULE ExampleControllers_proofs ----------------------
(***************************************************************************)
(* For any arms, goals and controllers of the known classes: the           *)
(* controllers keep their types, follow no pointer through a loan that was *)
(* taken back, pursue nothing old after an activation, begin their motions *)
(* at the first cycle, and leave a message alone while it is published.    *)
(***************************************************************************)
EXTENDS ExampleControllers, SequenceTheorems, TLAPS

Mem == [life : Lives, refs : Seq({"live", "dead"}), initialized : BOOLEAN,
        robot_model : BOOLEAN, from : [Arms -> Halves],
        clock : 0..MaxClock, news : 0..Period]

(* Those that never give their references back, and those that do.         *)
Keepers == {"joint_impedance_example", "joint_impedance"}
Releasers == {"model_example", "cartesian_impedance_example", "cartesian_impedance"}
               \cup Broadcasters

(* Those whose motions take their time from a clock.                       *)
Tickers == {"joint_position", "joint_velocity", "dual_joint_velocity", "move_to_start",
            "multi_joint_impedance", "joint_impedance_example",
            "cartesian_impedance_example"}

LEMMA FirstIsAnArm == First \in Arms
BY ArmsAssumption DEF First

LEMMA Numbers ==
  /\ MaxClock \in Nat \ {0, 1} /\ 0 \in 0..MaxClock /\ 0 \in 0..Period /\ 1 \in 0..Period
  /\ \A n \in 0..MaxClock : Later(n) \in 0..MaxClock /\ Later(n) # 0
  /\ \A n \in 0..Period : n # Period => n + 1 \in 0..Period
BY TimesAssumption DEF MaxClock, Later

LEMMA ArmsOfArms == \A c \in Classes : ArmsOf(c) \subseteq Arms
BY FirstIsAnArm DEF Classes, ArmsOf, Interfaces, Claims, joint_position_interfaces,
  joint_velocity_interfaces, dual_joint_velocity_interfaces,
  gravity_compensation_interfaces, move_to_start_interfaces,
  joint_impedance_example_interfaces, multi_joint_impedance_interfaces,
  cartesian_impedance_example_interfaces, joint_impedance_interfaces,
  cartesian_impedance_interfaces, model_example_interfaces, model_broadcaster_interfaces,
  state_broadcaster_interfaces, mobile_base_interfaces, head_interfaces

-----------------------------------------------------------------------------
(* The members                                                             *)

LEMMA AppendToLoans ==
  ASSUME NEW s \in Seq({"live", "dead"})
  PROVE  /\ Append(s, "live") \in Seq({"live", "dead"})
         /\ Append(s, "live") # <<>> /\ Len(Append(s, "live")) = Len(s) + 1
         /\ Head(Append(s, "live")) = IF s = <<>> THEN "live" ELSE Head(s)
BY AppendProperties, HeadTailAppend

LEMMA TakenBackMem ==
  ASSUME NEW n \in Mem
  PROVE  /\ TakenBack(n) \in Mem /\ Len(TakenBack(n).refs) = Len(n.refs)
         /\ TakenBack(n).refs = <<>> <=> n.refs = <<>>
         /\ TakenBack(n).life = n.life /\ TakenBack(n).initialized = n.initialized
         /\ TakenBack(n).robot_model = n.robot_model /\ TakenBack(n).from = n.from
         /\ TakenBack(n).clock = n.clock /\ TakenBack(n).news = n.news
<1> DEFINE dead == [i \in DOMAIN n.refs |-> "dead"]
<1>1. n.refs \in Seq({"live", "dead"}) /\ DOMAIN n.refs = 1..Len(n.refs) /\ Len(n.refs) \in Nat
  BY DEF Mem
<1>2. dead \in Seq({"live", "dead"}) /\ Len(dead) = Len(n.refs)
  BY <1>1
<1>3. dead = <<>> <=> n.refs = <<>>
  BY <1>1, <1>2, EmptySeq
<1>4. TakenBack(n) = [n EXCEPT !.refs = dead]
  BY DEF TakenBack
<1> QED  BY <1>2, <1>3, <1>4 DEF Mem

(* The getters initialise what has references, and change nothing else.    *)
LEMMA GotMem ==
  ASSUME NEW n \in Mem, model \in [Arms -> BOOLEAN]
  PROVE  /\ Got(n) \in Mem /\ Got(n).refs = n.refs /\ Got(n).life = n.life
         /\ Got(n).from = n.from /\ Got(n).clock = n.clock /\ Got(n).news = n.news
         /\ n.initialized => Got(n) = n
         /\ ~n.initialized /\ n.refs # <<>> =>
              Got(n).initialized = TRUE /\ Got(n).robot_model = model[First]
         /\ ~n.initialized /\ n.refs = <<>> => Got(n) = n
<1>1. model[First] \in BOOLEAN
  BY FirstIsAnArm
<1>2. CASE n.initialized
  BY <1>2 DEF Got
<1>3. CASE ~n.initialized /\ n.refs = <<>>
  <2>1. Got(n) = [n EXCEPT !.initialized = FALSE]
    BY <1>3 DEF Got, initialize, update_state_and_model
  <2> QED  BY <1>3, <2>1 DEF Mem
<1>4. CASE ~n.initialized /\ n.refs # <<>>
  <2>1. Got(n) = [n EXCEPT !.robot_model = model[First], !.initialized = TRUE]
    BY <1>4 DEF Got, initialize, update_state_and_model
  <2> QED  BY <1>1, <1>4, <2>1 DEF Mem
<1> QED  BY <1>2, <1>3, <1>4

LEMMA TickedMem ==
  ASSUME NEW n \in Mem
  PROVE  /\ Ticked(n) \in Mem /\ Ticked(n).clock = Later(n.clock)
         /\ Ticked(n).refs = n.refs /\ Ticked(n).life = n.life /\ Ticked(n).from = n.from
         /\ Ticked(n).initialized = n.initialized /\ Ticked(n).robot_model = n.robot_model
BY Numbers DEF Mem, Ticked

LEMMA HereHalves == shown \in [Arms -> Poses] => Here \in [Arms -> Halves]
BY DEF Here, Both, Halves, Values

-----------------------------------------------------------------------------
(* The updates                                                             *)

LEMMA UpdatedMem ==
  ASSUME TypeOK, NEW c \in loaded, NEW n, n = mem[c], NEW u, u = Updated(c).mem
  PROVE  /\ u \in Mem /\ u.refs = n.refs /\ u.life = n.life /\ u.from = n.from
         /\ c \in UseTheModel =>
              u.initialized = Got(n).initialized /\ u.robot_model = Got(n).robot_model
         /\ c \notin UseTheModel =>
              /\ u.initialized = n.initialized
              /\ u.robot_model = n.robot_model \/ u.robot_model = model[First]
         /\ u.clock = IF c \in Tickers THEN Later(n.clock) ELSE n.clock
<1>1. /\ c \in Classes /\ n \in Mem /\ model \in [Arms -> BOOLEAN]
      /\ model[First] \in BOOLEAN
  BY ScenariosAssumption, FirstIsAnArm DEF TypeOK, Mem
<1>2. CASE c \in {"gravity_compensation", "mobile_base", "head"}
  <2>1. u = n
    BY <1>2 DEF Updated, Done, gravity_compensation_update, mobile_base_update, head_update
  <2> QED  BY <1>1, <1>2, <2>1 DEF UseTheModel, Tickers
<1>3. CASE c \in Tickers \ UseTheModel
  <2>1. u = Ticked(n)
    BY <1>3 DEF Tickers, UseTheModel, Updated, Done, joint_position_update,
       joint_velocity_update, dual_joint_velocity_update, multi_joint_impedance_update,
       move_to_start_update
  <2> QED  BY <1>1, <1>3, <2>1, TickedMem
<1>4. CASE c \in Tickers \cap UseTheModel
  <2>1. u = Ticked(Got(n))
    BY <1>4 DEF Tickers, UseTheModel, Updated, Done, joint_impedance_example_update,
       cartesian_impedance_example_update
  <2>2. /\ Got(n) \in Mem /\ Got(n).refs = n.refs /\ Got(n).life = n.life
        /\ Got(n).from = n.from /\ Got(n).clock = n.clock
    BY <1>1, GotMem
  <2> QED  BY <1>4, <2>1, <2>2, TickedMem
<1>5. CASE c \in UseTheModel \ Tickers
  <2>1. u = Got(n)
    BY <1>5 DEF Tickers, UseTheModel, Updated, Done, joint_impedance_update,
       cartesian_impedance_update, model_example_update
  <2> QED  BY <1>1, <1>5, <2>1, GotMem
<1>6. CASE c \in Broadcasters
  <2>1. u \in {n, [n EXCEPT !.news = 0], [update_state_and_model(n) EXCEPT !.news = 0]}
    BY <1>6 DEF Broadcasters, Updated, Done, model_broadcaster_update,
       state_broadcaster_update
  <2>2. u \in {n, [n EXCEPT !.news = 0],
                 [n EXCEPT !.robot_model = model[First], !.news = 0]}
    BY <2>1 DEF update_state_and_model
  <2> QED  BY <1>1, <1>6, <2>2, Numbers DEF Broadcasters, UseTheModel, Tickers, Mem
<1> QED
  BY <1>1, <1>2, <1>3, <1>4, <1>5, <1>6 DEF Classes, Tickers, UseTheModel, Broadcasters

LEMMA CommandsAreCommands ==
  ASSUME TypeOK, NEW c \in loaded, NEW n \in Mem,
         NEW first \in {Unset, Zero, Swing}, NEW rest \in {Unset, Zero, Swing}
  PROVE  /\ Give(c, n, first, rest) \in [Arms -> Commands]
         /\ Pursue(c, n) \in [Arms -> Commands]
         /\ Idle \in [Arms -> Commands]
<1>1. NoCommand \in Commands
  BY Numbers DEF NoCommand, Commands, Values
<1>2. \A a \in Arms : latched[c][a] \in Values /\ n.from[a] \in Halves
  BY DEF TypeOK, Mem
<1>3. n.clock \in 0..MaxClock
  BY DEF Mem
<1> QED  BY <1>1, <1>2, <1>3 DEF Give, Pursue, Idle, Commands, Values, Halves

(* What is commanded: for a controller that sets out, what it pursues, or  *)
(* that it is done; for one with a clock, how far it has come.             *)
LEMMA UpdatedCommand ==
  ASSUME TypeOK, NEW c \in loaded, NEW n, n = mem[c],
         NEW given, given = Updated(c).command
  PROVE  /\ given \in [Arms -> Commands]
         /\ c \in SettingOut => \A a \in ArmsOf(c) :
              {given[a].first, given[a].rest} \subseteq {latched[c][a], n.from[a].rest, Zero}
         /\ c \in Tickers => \A a \in ArmsOf(c) : given[a].t = Later(n.clock)
         /\ c \notin Tickers => \A a \in ArmsOf(c) : given[a].t \in {0, n.clock}
<1>1. /\ c \in Classes /\ n \in Mem /\ model \in [Arms -> BOOLEAN]
      /\ ArmsOf(c) \subseteq Arms
  BY ScenariosAssumption, ArmsOfArms DEF TypeOK, Mem
<1>2. Got(n) \in Mem /\ Got(n).clock = n.clock /\ Got(n).from = n.from
  BY <1>1, GotMem
<1>3. PICK ticked \in {Ticked(n), Ticked(Got(n))} :
        ticked = IF c \in UseTheModel THEN Ticked(Got(n)) ELSE Ticked(n)
  OBVIOUS
<1>4. ticked \in Mem /\ ticked.clock = Later(n.clock) /\ ticked.from = n.from
  BY <1>1, <1>2, <1>3, TickedMem
<1>5. CASE c \in Tickers \cap SettingOut
  <2>1. given \in {Pursue(c, ticked), Give(c, ticked, Zero, Zero)}
    BY <1>3, <1>5 DEF Tickers, SettingOut, UseTheModel, Updated, Done,
       joint_position_update, multi_joint_impedance_update, move_to_start_update,
       joint_impedance_example_update, cartesian_impedance_example_update
  <2>2. given \in [Arms -> Commands]
    BY <1>4, <2>1, CommandsAreCommands
  <2>3. \A a \in ArmsOf(c) :
          /\ given[a].first \in {latched[c][a], Zero}
          /\ given[a].rest \in {n.from[a].rest, Zero} /\ given[a].t = Later(n.clock)
    BY <1>1, <1>4, <2>1 DEF Pursue, Give
  <2> QED  BY <1>5, <2>2, <2>3
<1>6. CASE c \in Tickers \ SettingOut
  <2>1. \E x, y \in {Unset, Zero, Swing} : given = Give(c, ticked, x, y)
    BY <1>3, <1>6 DEF Tickers, SettingOut, UseTheModel, Updated, Done,
       joint_velocity_update, dual_joint_velocity_update
  <2>2. given \in [Arms -> Commands]
    BY <1>4, <2>1, CommandsAreCommands
  <2>3. \A a \in ArmsOf(c) : given[a].t = Later(n.clock)
    BY <1>1, <1>4, <2>1 DEF Give
  <2> QED  BY <1>6, <2>2, <2>3
<1>7. CASE c \notin Tickers
  <2>1. given \in {Pursue(c, n), Give(c, n, Zero, Zero), Idle}
    BY <1>1, <1>7 DEF Classes, Tickers, Updated, Done, gravity_compensation_update,
       joint_impedance_update, cartesian_impedance_update, model_example_update,
       mobile_base_update, head_update, model_broadcaster_update,
       state_broadcaster_update
  <2>2. c \in SettingOut => given = Pursue(c, n)
    BY <1>7 DEF SettingOut, Tickers, Updated, Done, joint_impedance_update,
       cartesian_impedance_update
  <2>3. given \in [Arms -> Commands]
    BY <1>1, <2>1, CommandsAreCommands
  <2>4. \A a \in ArmsOf(c) : given[a].t \in {0, n.clock}
    BY <1>1, <2>1 DEF Pursue, Give, Idle, NoCommand
  <2>5. c \in SettingOut => \A a \in ArmsOf(c) :
          given[a].first = latched[c][a] /\ given[a].rest = n.from[a].rest
    BY <1>1, <2>2 DEF Pursue
  <2> QED  BY <1>7, <2>3, <2>4, <2>5
<1> QED  BY <1>5, <1>6, <1>7

-----------------------------------------------------------------------------
(* The switch and the configuration                                        *)

LEMMA StoppedMem ==
  ASSUME TypeOK, NEW c \in loaded, NEW n, n = mem[c], NEW s, s = Stopped(c)
  PROVE  /\ s \in Mem /\ Len(s.refs) <= Len(n.refs)
         /\ s.initialized = n.initialized /\ s.robot_model = n.robot_model
         /\ s.from = n.from /\ s.clock = n.clock
         /\ c \notin request.stop => s = n
         /\ c \in request.stop =>
              /\ s.life = "inactive"
              /\ c \in Releasers => s.refs = <<>>
              /\ c \notin Releasers => (s.refs = <<>> <=> n.refs = <<>>)
<1>1. n \in Mem /\ Len(n.refs) \in Nat
  BY LenProperties DEF TypeOK, Mem
<1>2. CASE c \notin request.stop
  BY <1>1, <1>2 DEF Stopped
<1>3. CASE c \in request.stop
  <2>1. PICK d : d = Deactivated(c, n)
    OBVIOUS
  <2>2. d = IF c \in Releasers THEN [n EXCEPT !.refs = <<>>] ELSE n
    BY <2>1 DEF Deactivated, Releasers, Broadcasters, release_interfaces,
       model_broadcaster_on_deactivate, state_broadcaster_on_deactivate,
       model_example_on_deactivate, cartesian_impedance_example_on_deactivate,
       cartesian_impedance_on_deactivate
  <2>3. <<>> \in Seq({"live", "dead"}) /\ Len(<<>>) = 0
    BY EmptySeq
  <2>4. /\ d \in Mem /\ Len(d.refs) <= Len(n.refs) /\ d.initialized = n.initialized
        /\ d.robot_model = n.robot_model /\ d.from = n.from /\ d.clock = n.clock
        /\ c \in Releasers => d.refs = <<>>
        /\ c \notin Releasers => d.refs = n.refs
    <3>1. CASE c \in Releasers
      <4>1. d = [n EXCEPT !.refs = <<>>]
        BY <2>2, <3>1
      <4>2. d.refs = <<>> /\ d \in Mem
        BY <1>1, <2>3, <4>1 DEF Mem
      <4>3. Len(d.refs) <= Len(n.refs)
        BY <1>1, <2>3, <4>2
      <4> QED  BY <1>1, <3>1, <4>1, <4>2, <4>3 DEF Mem
    <3>2. CASE c \notin Releasers
      BY <1>1, <2>2, <3>2
    <3> QED  BY <3>1, <3>2
  <2>5. PICK t : t = TakenBack(d)
    OBVIOUS
  <2>6. /\ t \in Mem /\ Len(t.refs) = Len(d.refs) /\ (t.refs = <<>> <=> d.refs = <<>>)
        /\ t.initialized = d.initialized /\ t.robot_model = d.robot_model
        /\ t.from = d.from /\ t.clock = d.clock
    BY <2>4, <2>5, TakenBackMem
  <2>7. s = [t EXCEPT !.life = "inactive"]
    BY <1>3, <2>1, <2>5 DEF Stopped
  <2>8. /\ s \in Mem /\ s.life = "inactive" /\ s.refs = t.refs
        /\ s.initialized = t.initialized /\ s.robot_model = t.robot_model
        /\ s.from = t.from /\ s.clock = t.clock
    BY <2>6, <2>7 DEF Mem, Lives
  <2> QED  BY <1>3, <2>4, <2>6, <2>8
<1> QED  BY <1>2, <1>3

LEMMA AssignedMem ==
  ASSUME NEW n \in Mem, NEW m, m = assign_loaned_state_interfaces(n)
  PROVE  /\ m \in Mem /\ m.refs = Append(n.refs, "live") /\ m.refs # <<>>
         /\ Len(m.refs) = Len(n.refs) + 1
         /\ Head(m.refs) = IF n.refs = <<>> THEN "live" ELSE Head(n.refs)
         /\ m.initialized = n.initialized /\ m.robot_model = n.robot_model
         /\ m.life = n.life /\ m.from = n.from /\ m.clock = n.clock
<1>1. n.refs \in Seq({"live", "dead"})
  BY DEF Mem
<1> QED  BY <1>1, AppendToLoans DEF assign_loaned_state_interfaces, Mem

Loaned(c) == c \in Keepers \cup Releasers
AtOnce == {"cartesian_impedance_example", "cartesian_impedance"}

LEMMA ActivatedMem ==
  ASSUME TypeOK, NEW c \in Classes, NEW n \in Mem,
         NEW loan, loan = assign_loaned_state_interfaces(n),
         NEW m, m = Activated(c, n)
  PROVE  /\ m \in Mem
         /\ m.refs = IF Loaned(c) THEN loan.refs ELSE n.refs
         /\ c \in AtOnce => m.initialized = Got(loan).initialized
                            /\ m.robot_model = Got(loan).robot_model
         /\ c \notin AtOnce => m.initialized = n.initialized
                               /\ m.robot_model = n.robot_model
         /\ m.from = IF c \in SettingOut THEN Here ELSE n.from
         /\ m.clock = IF c \in Tickers THEN 0 ELSE n.clock
<1>1. /\ Here \in [Arms -> Halves] /\ model \in [Arms -> BOOLEAN]
      /\ \A r \in Mem : /\ SetOut(r) \in Mem /\ SetOut(r).from = Here /\ SetOut(r).clock = 0
                        /\ SetOut(r).refs = r.refs /\ SetOut(r).initialized = r.initialized
                        /\ SetOut(r).robot_model = r.robot_model
  BY HereHalves, Numbers DEF TypeOK, Mem, SetOut
<1>2. /\ loan \in Mem /\ loan.initialized = n.initialized
      /\ loan.robot_model = n.robot_model /\ loan.from = n.from /\ loan.clock = n.clock
  BY AssignedMem
<1>3. PICK got : got = Got(loan)
  OBVIOUS
<1>4. got \in Mem /\ got.refs = loan.refs /\ got.from = loan.from /\ got.clock = loan.clock
  BY <1>1, <1>2, <1>3, GotMem
<1>5. CASE c \in {"joint_position", "move_to_start", "multi_joint_impedance"}
  <2>1. m = SetOut(n)
    BY <1>5 DEF Activated, joint_position_on_activate, move_to_start_on_activate,
       multi_joint_impedance_on_activate
  <2> QED  BY <1>1, <1>5, <2>1
           DEF Loaned, Keepers, Releasers, Broadcasters, AtOnce, SettingOut, Tickers
<1>6. CASE c \in {"joint_velocity", "dual_joint_velocity"}
  <2>1. m = [n EXCEPT !.clock = 0]
    BY <1>6 DEF Activated, joint_velocity_on_activate, dual_joint_velocity_on_activate
  <2> QED  BY <1>6, <2>1, Numbers
           DEF Mem, Loaned, Keepers, Releasers, Broadcasters, AtOnce, SettingOut, Tickers
<1>7. CASE c = "joint_impedance_example"
  <2>1. m = SetOut(loan)
    BY <1>7 DEF Activated, joint_impedance_example_on_activate
  <2> QED  BY <1>1, <1>2, <1>7, <2>1 DEF Loaned, Keepers, AtOnce, SettingOut, Tickers
<1>8. CASE c = "joint_impedance"
  <2>1. m = [loan EXCEPT !.from = Here]
    BY <1>8 DEF Activated, joint_impedance_on_activate
  <2> QED  BY <1>1, <1>2, <1>8, <2>1 DEF Mem, Loaned, Keepers, AtOnce, SettingOut, Tickers
<1>9. CASE c = "cartesian_impedance_example"
  <2>1. m = SetOut(got)
    BY <1>3, <1>9 DEF Activated, cartesian_impedance_example_on_activate
  <2> QED  BY <1>1, <1>2, <1>3, <1>4, <1>9, <2>1
           DEF Loaned, Keepers, Releasers, AtOnce, SettingOut, Tickers
<1>10. CASE c = "cartesian_impedance"
  <2>1. m = [got EXCEPT !.from = Here]
    BY <1>3, <1>10 DEF Activated, cartesian_impedance_on_activate
  <2> QED  BY <1>1, <1>2, <1>3, <1>4, <1>10, <2>1
           DEF Mem, Loaned, Keepers, Releasers, AtOnce, SettingOut, Tickers
<1>11. CASE c \in {"model_example"} \cup Broadcasters
  <2>1. m = loan
    BY <1>11 DEF Activated, Broadcasters, model_example_on_activate,
       model_broadcaster_on_activate, state_broadcaster_on_activate
  <2> QED  BY <1>2, <1>11, <2>1
           DEF Loaned, Keepers, Releasers, Broadcasters, AtOnce, SettingOut, Tickers
<1>12. CASE c \in {"gravity_compensation", "mobile_base", "head"}
  <2>1. m = n
    BY <1>12 DEF Activated
  <2> QED  BY <1>12, <2>1
           DEF Loaned, Keepers, Releasers, Broadcasters, AtOnce, SettingOut, Tickers
<1> QED
  BY <1>5, <1>6, <1>7, <1>8, <1>9, <1>10, <1>11, <1>12 DEF Classes, Broadcasters

(* A configuration makes the model anew, without references, and changes   *)
(* nothing of those that have none.                                        *)
LEMMA ConfiguredMem ==
  ASSUME NEW c \in Classes, NEW n \in Mem, n.life = "unconfigured",
         NEW m, m = on_configure(c, n, TRUE) \/ m = on_configure(c, n, FALSE)
  PROVE  /\ m \in Mem /\ m.life # "active" /\ m.from = n.from /\ m.clock = n.clock
         /\ Loaned(c) => m.refs = <<>> /\ m.initialized = FALSE /\ m.robot_model = FALSE
         /\ ~Loaned(c) => /\ m.refs = n.refs /\ m.initialized = n.initialized
                          /\ m.robot_model = n.robot_model
<1>1. <<>> \in Seq({"live", "dead"}) /\ 0 \in 0..Period
  BY EmptySeq, Numbers
<1>2. CASE Loaned(c)
  <2>1. PICK new : new = FrankaRobotModel(n)
    OBVIOUS
  <2>2. /\ new \in Mem /\ new.life = "unconfigured" /\ new.from = n.from
        /\ new.clock = n.clock /\ new.refs = <<>> /\ new.initialized = FALSE
        /\ new.robot_model = FALSE
    BY <1>1, <2>1 DEF FrankaRobotModel, Mem
  <2>3. m \in {new, Configured(new), Configured([new EXCEPT !.news = 0])}
    BY <1>2, <2>1 DEF on_configure, Loaned, Keepers, Releasers, Broadcasters, IfComplete,
       joint_impedance_example_on_configure, joint_impedance_on_configure,
       cartesian_impedance_example_on_configure, cartesian_impedance_on_configure,
       model_example_on_configure, model_broadcaster_on_configure,
       state_broadcaster_on_configure
  <2> QED  BY <1>1, <1>2, <2>2, <2>3 DEF Configured, Mem, Lives
<1>3. CASE ~Loaned(c)
  <2>1. m \in {n, Configured(n)}
    BY <1>3 DEF on_configure, Loaned, Keepers, Releasers, Broadcasters, IfComplete,
       move_to_start_on_configure, multi_joint_impedance_on_configure
  <2> QED  BY <1>3, <2>1 DEF Configured, Mem, Lives
<1> QED  BY <1>2, <1>3

-----------------------------------------------------------------------------
(* The invariant                                                           *)

(* A switch is only asked for while there is room for the loans.           *)
RoomForLoans == \A c \in request.start : Len(mem[c].refs) < MaxLoans

(* The first read of the hardware sets the pointers to the models.         *)
ModelsAreSet == rt # "read" => \A a \in Arms : model[a]

(* Those that give their references back have living ones when they are    *)
(* active, and none otherwise.  Those that keep them follow them once,     *)
(* after the activation, while they live: every activation is followed by  *)
(* an update before the next switch, and from then on they are initialised.*)
Sound(c) ==
  LET m == mem[c]
  IN  /\ m.initialized => m.robot_model
      /\ c \in Releasers => IF m.life = "active" THEN m.refs # <<>> /\ Head(m.refs) = "live"
                            ELSE m.refs = <<>>
      /\ c \in Keepers =>
           /\ m.life = "active" => m.refs # <<>>
           /\ \/ m.refs = <<>> \/ m.initialized
              \/ m.life = "active" /\ rt # "switch" /\ Head(m.refs) = "live"

GoodPointers ==
  TypeOK /\ RoomForLoans /\ ModelsAreSet /\ fault = "none" /\ \A c \in loaded : Sound(c)

LEMMA MemTyped == TypeOK => mem \in [loaded -> Mem] /\ \A c \in loaded : mem[c] \in Mem
BY DEF TypeOK, Mem

LEMMA TypedMem ==
  ASSUME mem \in [loaded -> Mem]
  PROVE  mem \in [loaded -> [life : Lives, refs : Seq({"live", "dead"}),
                             initialized : BOOLEAN, robot_model : BOOLEAN,
                             from : [Arms -> Halves], clock : 0..MaxClock,
                             news : 0..Period]]
BY DEF Mem

LEMMA InitGood == Init => GoodPointers
<1> SUFFICES ASSUME Init PROVE GoodPointers
  OBVIOUS
<1>1. <<>> \in Seq({"live", "dead"}) /\ Len(<<>>) = 0 /\ MaxLoans \in Nat
  BY EmptySeq, TimesAssumption
<1>2. \A c \in loaded : mem[c] = NewMem(c) /\ mem[c] \in Mem /\ mem[c].refs = <<>>
                        /\ mem[c].life = "unconfigured" /\ mem[c].initialized = FALSE
  BY <1>1, Numbers DEF Init, NewMem, Mem, Lives, Both, Halves, Values
<1>3. mem \in [loaded -> Mem]
  BY <1>2 DEF Init
<1>4. pose \in [Arms -> Poses] /\ command \in [loaded -> [Arms -> Commands]]
  BY Numbers DEF Init, Moved, NoCommand, Commands, Values
<1>5. TypeOK
  BY <1>1, <1>2, <1>3, <1>4, TypedMem DEF Init, TypeOK, NoRequest, Values
<1>6. RoomForLoans /\ ModelsAreSet /\ fault = "none"
  BY DEF Init, RoomForLoans, ModelsAreSet, NoRequest
<1>7. \A c \in loaded : Sound(c)
  BY <1>2 DEF Sound
<1> QED  BY <1>5, <1>6, <1>7 DEF GoodPointers

LEMMA ReadGood == GoodPointers /\ read => GoodPointers'
<1> SUFFICES ASSUME GoodPointers, read PROVE GoodPointers'
  OBVIOUS
<1>1. \A c \in loaded :
        /\ mem'[c] \in Mem /\ mem'[c].refs = mem[c].refs /\ mem'[c].life = mem[c].life
        /\ mem'[c].initialized = mem[c].initialized
        /\ mem'[c].robot_model = mem[c].robot_model
  BY MemTyped, Numbers DEF GoodPointers, read, Mem
<1>2. mem' \in [loaded -> Mem]
  BY <1>1 DEF read
<1>3. TypeOK'
  BY <1>1, <1>2 DEF GoodPointers, TypeOK, read, Mem, goals, history
<1>4. RoomForLoans' /\ ModelsAreSet' /\ fault' = "none"
  BY <1>1 DEF GoodPointers, RoomForLoans, ModelsAreSet, read, TypeOK
<1>5. \A c \in loaded : Sound(c)'
  BY <1>1 DEF GoodPointers, Sound, read
<1> QED  BY <1>3, <1>4, <1>5 DEF GoodPointers, read

LEMMA UpdateEndGood == GoodPointers /\ UpdateEnd => GoodPointers'
<1> SUFFICES ASSUME GoodPointers, UpdateEnd PROVE GoodPointers'
  OBVIOUS
<1>1. TypeOK /\ loaded' = loaded /\ rt = "compute" /\ rt' = "switch" /\ model[First]
      /\ model \in [Arms -> BOOLEAN] /\ shown[First] \in Poses
  BY FirstIsAnArm DEF GoodPointers, UpdateEnd, ModelsAreSet, TypeOK
<1>2. ASSUME NEW c \in Active
      PROVE  /\ mem'[c] \in Mem /\ mem'[c].refs = mem[c].refs /\ mem'[c].life = "active"
             /\ Sound(c)' /\ FaultOfUpdate(c) = "none"
             /\ command'[c] \in [Arms -> Commands]
  <2>1. PICK n : n = mem[c]
    OBVIOUS
  <2>2. PICK u : u = Updated(c).mem
    OBVIOUS
  <2>3. /\ c \in loaded /\ n \in Mem /\ n.life = "active" /\ Sound(c)
        /\ mem'[c] = u /\ command'[c] = Updated(c).command
    BY <1>1, <2>1, <2>2, MemTyped DEF GoodPointers, UpdateEnd, Active
  <2>4. /\ u \in Mem /\ u.refs = n.refs /\ u.life = n.life
        /\ c \in UseTheModel =>
             u.initialized = Got(n).initialized /\ u.robot_model = Got(n).robot_model
        /\ c \notin UseTheModel =>
             /\ u.initialized = n.initialized
             /\ u.robot_model = n.robot_model \/ u.robot_model = model[First]
        /\ u.clock = IF c \in Tickers THEN Later(n.clock) ELSE n.clock
    <3>1. TypeOK /\ c \in loaded
      BY <1>1, <2>3
    <3> QED  BY <2>1, <2>2, <3>1, UpdatedMem
  <2>5. n.initialized \in BOOLEAN /\ (n.initialized => n.robot_model)
    BY <2>1, <2>3 DEF Sound, Mem
  <2>6. c \in UseTheModel =>
          /\ n.refs # <<>> /\ (n.initialized \/ Head(n.refs) = "live")
          /\ Got(n).initialized = TRUE /\ Got(n).robot_model
    <3>1. c \in UseTheModel => n.refs # <<>> /\ (n.initialized \/ Head(n.refs) = "live")
      BY <2>1, <2>3 DEF Sound, UseTheModel, Releasers, Keepers
    <3>2. n.initialized => Got(n) = n
      BY <1>1, <2>3, GotMem
    <3>3. ~n.initialized /\ n.refs # <<>> =>
            Got(n).initialized = TRUE /\ Got(n).robot_model = model[First]
      BY <1>1, <2>3, GotMem
    <3> QED  BY <1>1, <2>5, <3>1, <3>2, <3>3
  <2>7. Sound(c)'
    <3>1. CASE c \in UseTheModel
      BY <1>1, <2>1, <2>3, <2>4, <2>6, <3>1 DEF Sound, UseTheModel, Releasers, Keepers
    <3>2. CASE c \notin UseTheModel
      BY <1>1, <2>1, <2>3, <2>4, <2>5, <3>2 DEF Sound, UseTheModel, Keepers
    <3> QED  BY <3>1, <3>2
  <2>8. FaultOfUpdate(c) = "none"
    <3>1. CASE c \in UseTheModel
      BY <2>1, <2>6, <3>1 DEF FaultOfUpdate, FaultOfGetting, Dangles
    <3>2. CASE c \notin UseTheModel
      BY <1>1, <2>1, <2>3, <3>2 DEF FaultOfUpdate, FaultOfMessage, Dangles, Sound, Releasers
    <3> QED  BY <3>1, <3>2
  <2>9. command'[c] \in [Arms -> Commands]
    BY <1>1, <2>3, UpdatedCommand
  <2> QED  BY <2>1, <2>3, <2>4, <2>7, <2>8, <2>9
<1>3. ASSUME NEW c \in loaded, c \notin Active
      PROVE  mem'[c] = mem[c] /\ command'[c] = command[c] /\ Sound(c)'
  <2>1. mem'[c] = mem[c] /\ command'[c] = command[c] /\ mem[c].life # "active"
    BY <1>3 DEF UpdateEnd, Active
  <2> QED  BY <2>1 DEF GoodPointers, Sound
<1>4. mem' \in [loaded -> Mem] /\ \A c \in loaded : mem'[c].refs = mem[c].refs
  BY <1>1, <1>2, <1>3, MemTyped DEF UpdateEnd
<1>5. command' \in [loaded -> [Arms -> Commands]]
  BY <1>1, <1>2, <1>3 DEF UpdateEnd, TypeOK
<1>6. publisher' \in [loaded -> [turn : {"realtime", "waiting", "publishing"}, msg_ : Values]]
  <2>1. \A c \in loaded :
          unlockAndPublish(c) \in [turn : {"realtime", "waiting", "publishing"}, msg_ : Values]
    BY <1>1 DEF unlockAndPublish, model_as_message, get_values_as_message, Values
  <2> QED  BY <1>1, <2>1 DEF UpdateEnd, TypeOK
<1>7. fault' = "none"
  <2>1. {FaultOfUpdate(c) : c \in Active} \subseteq {"none"}
    BY <1>2
  <2> QED  BY <2>1 DEF UpdateEnd, FirstOf, GoodPointers
<1>8. TypeOK'
  BY <1>1, <1>4, <1>5, <1>6, <1>7
  DEF TypeOK, UpdateEnd, Mem, Values, arm, goals, history
<1>9. RoomForLoans' /\ ModelsAreSet'
  BY <1>1, <1>4 DEF GoodPointers, RoomForLoans, ModelsAreSet, UpdateEnd, TypeOK, arm
<1> QED  BY <1>1, <1>2, <1>3, <1>7, <1>8, <1>9 DEF GoodPointers

LEMMA SwitchGood == GoodPointers /\ Switch => GoodPointers'
<1> SUFFICES ASSUME GoodPointers, Switch PROVE GoodPointers'
  OBVIOUS
<1>1. /\ TypeOK /\ loaded' = loaded /\ rt = "switch" /\ rt' = "write" /\ model[First]
      /\ model \in [Arms -> BOOLEAN] /\ MaxLoans \in Nat /\ loaded \subseteq Classes
      /\ request' = NoRequest /\ UNCHANGED <<arm, latched, goals, publisher>>
  BY FirstIsAnArm, ScenariosAssumption, TimesAssumption
  DEF GoodPointers, Switch, ModelsAreSet, TypeOK
<1>2. ASSUME NEW c \in loaded, c \notin request.start
      PROVE  /\ mem'[c] \in Mem /\ Len(mem'[c].refs) <= MaxLoans /\ Sound(c)'
             /\ mem'[c] = Stopped(c)
  <2>1. PICK n : n = mem[c]
    OBVIOUS
  <2>2. PICK s : s = Stopped(c)
    OBVIOUS
  <2>3. n \in Mem /\ Len(n.refs) \in Nat /\ Len(n.refs) <= MaxLoans /\ Sound(c) /\ mem'[c] = s
    <3>1. n \in Mem /\ Len(n.refs) <= MaxLoans /\ Sound(c) /\ mem'[c] = s
      BY <1>1, <1>2, <2>1, <2>2, MemTyped DEF GoodPointers, Switch, TypeOK
    <3> QED  BY <3>1, LenProperties DEF Mem
  <2>4. /\ s \in Mem /\ Len(s.refs) <= Len(n.refs)
        /\ s.initialized = n.initialized /\ s.robot_model = n.robot_model
        /\ c \notin request.stop => s = n
        /\ c \in request.stop =>
             /\ s.life = "inactive"
             /\ c \in Releasers => s.refs = <<>>
             /\ c \notin Releasers => (s.refs = <<>> <=> n.refs = <<>>)
    BY <1>1, <2>1, <2>2, StoppedMem
  <2>5. Len(s.refs) <= MaxLoans
    <3>1. Len(s.refs) \in Nat
      BY <2>4, LenProperties DEF Mem
    <3> QED  BY <1>1, <2>3, <2>4, <3>1
  <2>6. Sound(c)'
    <3>1. CASE c \in request.stop
      BY <1>1, <2>1, <2>3, <2>4, <3>1 DEF Sound, Keepers, Releasers, Broadcasters
    <3>2. CASE c \notin request.stop
      BY <1>1, <2>1, <2>3, <2>4, <3>2 DEF Sound
    <3> QED  BY <3>1, <3>2
  <2> QED  BY <2>2, <2>3, <2>4, <2>5, <2>6
<1>3. ASSUME NEW c \in request.start
      PROVE  /\ c \in loaded /\ mem'[c] \in Mem /\ Len(mem'[c].refs) <= MaxLoans
             /\ Sound(c)' /\ FaultOfActivating(c, Stopped(c)) = "none"
  <2>1. PICK n : n = mem[c]
    OBVIOUS
  <2>2. PICK s : s = Stopped(c)
    OBVIOUS
  <2>3. PICK loan : loan = assign_loaned_state_interfaces(s)
    OBVIOUS
  <2>4. PICK m : m = Activated(c, s)
    OBVIOUS
  <2>5. c \in loaded /\ c \in Classes
    BY <1>1 DEF TypeOK
  <2>6. /\ n \in Mem /\ Len(n.refs) \in Nat /\ Len(n.refs) + 1 <= MaxLoans /\ Sound(c)
        /\ mem'[c] = [m EXCEPT !.life = "active"]
    <3>1. n \in Mem /\ Len(n.refs) < MaxLoans /\ Sound(c)
          /\ mem'[c] = [m EXCEPT !.life = "active"]
      BY <1>1, <1>3, <2>1, <2>2, <2>4, <2>5, MemTyped
      DEF GoodPointers, RoomForLoans, Switch
    <3>2. Len(n.refs) \in Nat
      BY <3>1, LenProperties DEF Mem
    <3> QED  BY <1>1, <3>1, <3>2
  <2>7. /\ s \in Mem /\ Len(s.refs) <= Len(n.refs)
        /\ s.initialized = n.initialized /\ s.robot_model = n.robot_model
        /\ c \notin request.stop => s = n
        /\ c \in request.stop =>
             /\ c \in Releasers => s.refs = <<>>
             /\ c \notin Releasers => (s.refs = <<>> <=> n.refs = <<>>)
    BY <1>1, <2>1, <2>2, <2>5, StoppedMem
  <2>8. /\ loan \in Mem /\ loan.refs # <<>> /\ Len(loan.refs) = Len(s.refs) + 1
        /\ Head(loan.refs) = IF s.refs = <<>> THEN "live" ELSE Head(s.refs)
        /\ loan.initialized = s.initialized /\ loan.robot_model = s.robot_model
    BY <2>3, <2>7, AssignedMem
  <2>9. /\ m \in Mem
        /\ m.refs = IF Loaned(c) THEN loan.refs ELSE s.refs
        /\ c \in AtOnce => m.initialized = Got(loan).initialized
                           /\ m.robot_model = Got(loan).robot_model
        /\ c \notin AtOnce => m.initialized = s.initialized
                              /\ m.robot_model = s.robot_model
    BY <1>1, <2>3, <2>4, <2>5, <2>7, ActivatedMem
  <2>10. PICK p : p = mem'[c]
    OBVIOUS
  <2>11. /\ p \in Mem /\ p.life = "active" /\ p.refs = m.refs
         /\ p.initialized = m.initialized /\ p.robot_model = m.robot_model
    BY <2>6, <2>9, <2>10 DEF Mem, Lives
  <2>12. Len(p.refs) <= MaxLoans
    <3>1. Len(s.refs) \in Nat
      BY <2>7, LenProperties DEF Mem
    <3> QED  BY <1>1, <2>6, <2>7, <2>8, <2>9, <2>11, <3>1
  <2>13. s.initialized \in BOOLEAN /\ (s.initialized => s.robot_model)
    BY <2>1, <2>6, <2>7 DEF Sound, Mem
  <2>14. c \in Releasers => s.refs = <<>> \/ Head(s.refs) = "live"
    BY <2>1, <2>6, <2>7 DEF Sound
  <2>15. /\ loan.initialized => Got(loan) = loan
         /\ ~loan.initialized => Got(loan).initialized = TRUE /\ Got(loan).robot_model = model[First]
    BY <1>1, <2>8, GotMem
  <2>16. Sound(c)'
    <3>1. p.initialized => p.robot_model
      BY <1>1, <2>8, <2>9, <2>11, <2>13, <2>15
    <3>2. c \in Releasers => p.refs # <<>> /\ Head(p.refs) = "live"
      BY <2>8, <2>9, <2>11, <2>14 DEF Loaned
    <3>3. c \in Keepers => p.refs # <<>> /\ (p.initialized \/ Head(p.refs) = "live")
      <4>1. c \in Keepers => s.refs = <<>> \/ s.initialized
        BY <1>1, <2>1, <2>6, <2>7 DEF Sound, Keepers, Releasers, Broadcasters
      <4>2. c \in Keepers => c \notin AtOnce /\ Loaned(c)
        BY DEF Keepers, AtOnce, Loaned
      <4> QED  BY <2>8, <2>9, <2>11, <4>1, <4>2
    <3> QED  BY <1>1, <2>10, <2>11, <3>1, <3>2, <3>3 DEF Sound
  <2>17. FaultOfActivating(c, s) = "none"
    <3>1. CASE c \in AtOnce
      <4>1. c \in Releasers
        BY <3>1 DEF AtOnce, Releasers
      <4>2. ~Dangles(loan)
        BY <2>8, <2>14, <4>1 DEF Dangles
      <4>3. Got(loan).robot_model
        BY <1>1, <2>8, <2>13, <2>15
      <4> QED  BY <2>3, <4>2, <4>3 DEF FaultOfActivating, FaultOfGetting
    <3>2. CASE c \notin AtOnce
      BY <3>2 DEF FaultOfActivating, AtOnce
    <3> QED  BY <3>1, <3>2
  <2> QED  BY <2>2, <2>5, <2>10, <2>11, <2>12, <2>16, <2>17
<1>4. mem' \in [loaded -> Mem] /\ \A c \in loaded : Len(mem'[c].refs) <= MaxLoans
  BY <1>1, <1>2, <1>3 DEF Switch
<1>5. fault' = "none"
  <2>1. {FaultOfActivating(c, Stopped(c)) : c \in request.start} \subseteq {"none"}
    BY <1>3
  <2> QED  BY <2>1 DEF Switch, FirstOf, GoodPointers
<1>6. Idle \in [Arms -> Commands]
  BY Numbers DEF Idle, NoCommand, Commands, Values
<1>7. TypeOK'
  <2>1. command' \in [loaded' -> [Arms -> Commands]]
    BY <1>1, <1>6 DEF TypeOK, Switch
  <2>2. start' \in [loaded' -> [Arms -> Poses]] /\ old' \in [loaded' -> SUBSET Goals]
    BY <1>1 DEF TypeOK, Switch
  <2> QED  BY <1>1, <1>4, <1>5, <2>1, <2>2 DEF TypeOK, Mem, NoRequest, arm, goals
<1>8. RoomForLoans' /\ ModelsAreSet'
  BY <1>1 DEF GoodPointers, RoomForLoans, ModelsAreSet, NoRequest, arm
<1>9. \A c \in loaded : Sound(c)'
  BY <1>2, <1>3
<1> QED  BY <1>1, <1>5, <1>7, <1>8, <1>9 DEF GoodPointers

LEMMA ConfigureGood ==
  ASSUME GoodPointers, NEW c \in loaded, NEW complete \in BOOLEAN, Configure(c, complete)
  PROVE  GoodPointers'
<1>1. PICK n : n = [mem[c] EXCEPT !.life = "unconfigured"]
  OBVIOUS
<1>2. PICK m : m = on_configure(c, n, complete)
  OBVIOUS
<1>3. /\ TypeOK /\ c \in Classes /\ mem[c] \in Mem /\ Sound(c) /\ mem[c].life # "active"
      /\ MaxLoans \in Nat /\ request = NoRequest
      /\ UNCHANGED <<loaded, arm, rt, request, latched, command, goals, publisher, fault,
                     history>>
  BY MemTyped, ScenariosAssumption, TimesAssumption DEF GoodPointers, TypeOK, Configure
<1>4. /\ n \in Mem /\ n.life = "unconfigured" /\ n.refs = mem[c].refs
      /\ n.initialized = mem[c].initialized /\ n.robot_model = mem[c].robot_model
  BY <1>1, <1>3 DEF Mem, Lives
<1>5. /\ m \in Mem /\ m.life # "active" /\ m.from = n.from /\ m.clock = n.clock
      /\ Loaned(c) => m.refs = <<>> /\ m.initialized = FALSE /\ m.robot_model = FALSE
      /\ ~Loaned(c) => /\ m.refs = n.refs /\ m.initialized = n.initialized
                       /\ m.robot_model = n.robot_model
  <2>1. c \in Classes /\ n \in Mem /\ n.life = "unconfigured"
    BY <1>3, <1>4
  <2>2. m = on_configure(c, n, TRUE) \/ m = on_configure(c, n, FALSE)
    BY <1>2
  <2> QED  BY <2>1, <2>2, ConfiguredMem
<1>6. mem' = [mem EXCEPT ![c] = m]
  BY <1>1, <1>2 DEF Configure
<1>7. Sound(c)' /\ \A d \in loaded \ {c} : Sound(d)'
  <2>1. mem'[c] = m
    BY <1>3, <1>6 DEF TypeOK
  <2>2. Sound(c)'
    BY <1>3, <1>4, <1>5, <2>1 DEF Sound, Loaned
  <2> QED  BY <1>3, <1>6, <2>2 DEF Sound, GoodPointers, TypeOK
<1>8. mem' \in [loaded -> Mem] /\ \A d \in loaded : Len(mem'[d].refs) <= MaxLoans
  <2>1. Len(m.refs) <= MaxLoans
    BY <1>3, <1>4, <1>5, EmptySeq DEF TypeOK
  <2> QED  BY <1>3, <1>5, <1>6, <2>1, MemTyped DEF TypeOK
<1>9. TypeOK'
  BY <1>3, <1>8 DEF TypeOK, Mem, arm, goals, history
<1>10. RoomForLoans' /\ ModelsAreSet' /\ fault' = "none"
  BY <1>3 DEF GoodPointers, RoomForLoans, ModelsAreSet, NoRequest, arm
<1> QED  BY <1>3, <1>7, <1>9, <1>10 DEF GoodPointers

(* The callbacks write what a controller moves to and nothing else.        *)
LEMMA OnlyFromGood ==
  ASSUME GoodPointers, NEW c \in loaded, NEW from \in [Arms -> Halves],
         mem' = [mem EXCEPT ![c].from = from] \/ mem' = mem,
         UNCHANGED <<loaded, arm, rt, request, latched, command, publisher, fault, history>>,
         listening' \in [loaded -> Goals \cup {NoGoal}], sent' \in [loaded -> SUBSET Goals]
  PROVE  GoodPointers'
<1>1. \A d \in loaded :
        /\ mem'[d] \in Mem /\ mem'[d].refs = mem[d].refs /\ mem'[d].life = mem[d].life
        /\ mem'[d].initialized = mem[d].initialized
        /\ mem'[d].robot_model = mem[d].robot_model
  <2> TAKE d \in loaded
  <2>1. mem \in [loaded -> Mem] /\ mem[c] \in Mem /\ mem[d] \in Mem
    BY MemTyped DEF GoodPointers
  <2>2. CASE mem'[d] = mem[d]
    BY <2>1, <2>2
  <2>3. CASE d = c /\ mem' = [mem EXCEPT ![c].from = from]
    <3>1. mem'[d] = [mem[d] EXCEPT !.from = from]
      BY <2>1, <2>3
    <3> QED  BY <2>1, <3>1 DEF Mem
  <2> QED  BY <2>1, <2>2, <2>3
<1>2. mem' \in [loaded -> Mem]
  BY <1>1, MemTyped DEF GoodPointers
<1>3. TypeOK'
  BY <1>1, <1>2 DEF GoodPointers, TypeOK, Mem, arm, history
<1>4. RoomForLoans' /\ ModelsAreSet' /\ fault' = "none"
  BY <1>1 DEF GoodPointers, RoomForLoans, ModelsAreSet, TypeOK, arm
<1>5. \A d \in loaded : Sound(d)'
  BY <1>1 DEF GoodPointers, Sound
<1> QED  BY <1>3, <1>4, <1>5 DEF GoodPointers

LEMMA SetHalves ==
  ASSUME TypeOK, NEW c \in loaded, NEW g \in Goals
  PROVE  /\ \E from \in [Arms -> Halves] :
              SetFirst(c, g) = [mem EXCEPT ![c].from = from]
              /\ from = [a \in Arms |-> [mem[c].from[a] EXCEPT !.first = g]]
         /\ \E from \in [Arms -> Halves] :
              SetRest(c, g) = [mem EXCEPT ![c].from = from]
              /\ from = [a \in Arms |-> [mem[c].from[a] EXCEPT !.rest = g]]
         /\ [a \in Arms |-> Both(g)] \in [Arms -> Halves]
<1>1. mem[c].from \in [Arms -> Halves]
  BY MemTyped DEF Mem
<1>2. /\ [a \in Arms |-> [mem[c].from[a] EXCEPT !.first = g]] \in [Arms -> Halves]
      /\ [a \in Arms |-> [mem[c].from[a] EXCEPT !.rest = g]] \in [Arms -> Halves]
  BY <1>1 DEF Halves, Values
<1>3. /\ SetFirst(c, g) = [mem EXCEPT ![c].from =
                             [a \in Arms |-> [mem[c].from[a] EXCEPT !.first = g]]]
      /\ SetRest(c, g) = [mem EXCEPT ![c].from =
                             [a \in Arms |-> [mem[c].from[a] EXCEPT !.rest = g]]]
  BY DEF SetFirst, SetRest
<1> QED  BY <1>2, <1>3 DEF Both, Halves, Values

LEMMA CallbackGood ==
  ASSUME GoodPointers, NEW c \in loaded,
         CallbackEnd(c) \/ \E g \in Goals : CallbackBegin(c, g)
  PROVE  GoodPointers'
<1>1. TypeOK /\ [a \in Arms |-> Both(Zero)] \in [Arms -> Halves]
  BY DEF GoodPointers, Both, Halves, Values
<1>2. CASE CallbackEnd(c)
  <2>1. listening[c] \in Goals
    BY <1>1, <1>2 DEF CallbackEnd, TypeOK
  <2>2. mem' = mem \/ mem' = SetRest(c, listening[c])
    BY <1>2 DEF CallbackEnd
  <2>3. \E from \in [Arms -> Halves] : mem' = [mem EXCEPT ![c].from = from] \/ mem' = mem
    BY <1>1, <2>1, <2>2, SetHalves
  <2> QED  BY <1>1, <1>2, <2>3, OnlyFromGood DEF CallbackEnd, TypeOK
<1>3. ASSUME NEW g \in Goals, CallbackBegin(c, g)  PROVE GoodPointers'
  <2>1. \E from \in [Arms -> Halves] : mem' = [mem EXCEPT ![c].from = from] \/ mem' = mem
    BY <1>1, <1>3, SetHalves DEF CallbackBegin, desiredJointCallback,
       desiredCartesianCallback, head_command_listener, set_velocity_target
  <2>2. listening' \in [loaded -> Goals \cup {NoGoal}] /\ sent' \in [loaded -> SUBSET Goals]
    BY <1>1, <1>3 DEF CallbackBegin, TypeOK
  <2> QED  BY <1>3, <2>1, <2>2, OnlyFromGood DEF CallbackBegin
<1> QED  BY <1>2, <1>3

LEMMA StepGood == GoodPointers /\ [Next]_vars => GoodPointers'
<1> SUFFICES ASSUME GoodPointers, [Next]_vars PROVE GoodPointers'
  OBVIOUS
<1>1. CASE UpdateBegin
  <2>1. latched' \in [loaded -> [Arms -> Values]]
    BY <1>1, MemTyped DEF GoodPointers, UpdateBegin, Mem, Halves
  <2> QED  BY <1>1, <2>1 DEF GoodPointers, TypeOK, RoomForLoans, ModelsAreSet, Sound,
           UpdateBegin, arm, goals, history
<1>2. CASE write
  <2>1. pose' \in [Arms -> Poses]
    BY <1>2 DEF write, Moved
  <2> QED  BY <1>2, <2>1 DEF GoodPointers, TypeOK, RoomForLoans, ModelsAreSet, Sound,
           write, goals, history
<1>3. ASSUME NEW starting \in SUBSET loaded, NEW stopping \in SUBSET loaded,
             RequestSwitch(starting, stopping)
      PROVE  GoodPointers'
  BY <1>3 DEF GoodPointers, TypeOK, RoomForLoans, ModelsAreSet, Sound,
     RequestSwitch, arm, goals, history
<1>4. ASSUME NEW c \in loaded, PublisherTakes(c) \/ PublisherReturns(c)
      PROVE  GoodPointers'
  <2>1. PICK turn \in {"realtime", "publishing"} :
          publisher' = [publisher EXCEPT ![c].turn = turn]
    BY <1>4 DEF PublisherTakes, PublisherReturns
  <2> DEFINE Publishers == [turn : {"realtime", "waiting", "publishing"}, msg_ : Values]
  <2>2. publisher' \in [loaded -> Publishers]
    <3>1. publisher \in [loaded -> Publishers]
      BY DEF GoodPointers, TypeOK
    <3>2. [publisher[c] EXCEPT !.turn = turn] \in Publishers
      BY <3>1
    <3>3. publisher' = [publisher EXCEPT ![c] = [publisher[c] EXCEPT !.turn = turn]]
      BY <2>1
    <3> HIDE DEF Publishers
    <3> QED  BY <3>1, <3>2, <3>3
  <2>3. UNCHANGED <<loaded, mem, arm, rt, request, latched, command, goals, fault, history>>
    BY <1>4 DEF PublisherTakes, PublisherReturns
  <2>4. TypeOK'
    BY <2>2, <2>3 DEF GoodPointers, TypeOK, arm, goals, history
  <2>5. \A d \in loaded : Sound(d)'
    BY <2>3 DEF GoodPointers, Sound
  <2>6. RoomForLoans' /\ ModelsAreSet'
    BY <2>3 DEF GoodPointers, RoomForLoans, ModelsAreSet, arm
  <2> QED  BY <2>3, <2>4, <2>5, <2>6 DEF GoodPointers
<1>5. CASE UNCHANGED vars
  BY <1>5 DEF GoodPointers, TypeOK, RoomForLoans, ModelsAreSet, Sound,
     vars, arm, goals, history
<1> QED
  BY <1>1, <1>2, <1>3, <1>4, <1>5, ReadGood, UpdateEndGood, SwitchGood, ConfigureGood,
     CallbackGood DEF Next, RealTime

(* The types, which say too that no controller collects references beyond  *)
(* its loans.                                                              *)
THEOREM TypeCorrect == Spec => []TypeOK
<1>1. GoodPointers => TypeOK
  BY DEF GoodPointers
<1> QED  BY <1>1, InitGood, StepGood, PTL DEF Spec

(* No controller of any class follows a pointer through a loan that was    *)
(* taken back, or one the hardware has not set, in any order of            *)
(* activations, restarts in one switch, and configurations.                *)
THEOREM NoPointerDangles == Spec => []PointersAreGood
<1>1. GoodPointers => PointersAreGood
  BY DEF GoodPointers, PointersAreGood
<1> QED  BY <1>1, InitGood, StepGood, PTL DEF Spec

-----------------------------------------------------------------------------
(* What is pursued                                                         *)

(* A goal whose callback was over at the last activation is old, and stays *)
(* so; one that is being received is not.                                  *)
PastGoals ==
  \A c \in loaded : old[c] \subseteq sent[c]
                    /\ (listening[c] = NoGoal \/ listening[c] \notin old[c])

New(c, a) == {start[c][a], Unset, Zero} \cup (Goals \ old[c])

OnlyNew ==
  \A c \in Active \cap SettingOut : \A a \in ArmsOf(c) :
    /\ mem[c].from[a].first \in New(c, a) /\ mem[c].from[a].rest \in New(c, a)
    /\ command[c][a].first \in New(c, a) /\ command[c][a].rest \in New(c, a)
    /\ rt = "compute" => latched[c][a] \in New(c, a)

(* A clock that has started belongs to a motion that has been commanded.   *)
Clocks ==
  \A c \in loaded :
    /\ c \notin Tickers => mem[c].clock = 0
    /\ c \in Active => \/ mem[c].clock = 0
                       \/ \A a \in ArmsOf(c) : command[c][a] # NoCommand

Motions == PastGoals /\ OnlyNew /\ Clocks

LEMMA InitMotions == Init => Motions
<1> SUFFICES ASSUME Init PROVE Motions
  OBVIOUS
<1>1. \A c \in loaded : mem[c].clock = 0 /\ mem[c].life = "unconfigured"
  BY DEF Init, NewMem
<1>2. PastGoals
  BY DEF Init, PastGoals
<1> QED  BY <1>1, <1>2 DEF Motions, OnlyNew, Clocks, Active

(* Steps that leave the commands, the history and what is pursued.         *)
LEMMA StillMotions ==
  ASSUME GoodPointers, Motions,
         UNCHANGED <<loaded, command, goals, history>>,
         \A c \in loaded : /\ mem'[c].from = mem[c].from /\ mem'[c].clock = mem[c].clock
                           /\ mem'[c].life = "active" <=> mem[c].life = "active",
         \/ UNCHANGED latched /\ (rt' = "compute" => rt = "compute")
         \/ rt' # "compute"
         \/ latched' = [c \in loaded |-> [a \in Arms |-> mem[c].from[a].first]]
  PROVE  Motions'
<1>1. Active' = Active
  BY DEF Active
<1>2. PastGoals' /\ Clocks'
  BY <1>1 DEF Motions, PastGoals, Clocks, goals, history
<1>3. ASSUME NEW c \in Active \cap SettingOut, NEW a \in ArmsOf(c)
      PROVE  /\ New(c, a)' = New(c, a) /\ c \in loaded /\ a \in Arms
             /\ rt' = "compute" => latched'[c][a] \in New(c, a)
  <2>1. New(c, a)' = New(c, a) /\ c \in loaded /\ a \in Arms
    BY <1>3, ArmsOfArms, ScenariosAssumption
    DEF New, history, Active, GoodPointers, TypeOK
  <2>2. mem[c].from[a].first \in New(c, a) /\ (rt = "compute" => latched[c][a] \in New(c, a))
    BY <1>3 DEF Motions, OnlyNew
  <2> QED  BY <2>1, <2>2
<1>4. OnlyNew'
  BY <1>1, <1>3 DEF Motions, OnlyNew, Active
<1> QED  BY <1>2, <1>4 DEF Motions

LEMMA UpdateEndMotions == GoodPointers /\ Motions /\ UpdateEnd => Motions'
<1> SUFFICES ASSUME GoodPointers, Motions, UpdateEnd PROVE Motions'
  OBVIOUS
<1>1. /\ TypeOK /\ loaded' = loaded /\ rt = "compute" /\ rt' = "switch"
      /\ UNCHANGED <<goals, history>> /\ loaded \subseteq Classes
  BY ScenariosAssumption DEF GoodPointers, UpdateEnd, TypeOK
<1>2. ASSUME NEW c \in loaded, c \notin Active
      PROVE  mem'[c] = mem[c] /\ command'[c] = command[c]
  BY <1>2 DEF UpdateEnd
<1>3. ASSUME NEW c \in Active
      PROVE  /\ c \in loaded /\ mem'[c].life = "active"
             /\ mem'[c].from = mem[c].from
             /\ c \notin Tickers => mem'[c].clock = mem[c].clock
             /\ c \in SettingOut => \A a \in ArmsOf(c) :
                  {command'[c][a].first, command'[c][a].rest}
                    \subseteq {latched[c][a], mem[c].from[a].rest, Zero}
             /\ c \in Tickers => \A a \in ArmsOf(c) : command'[c][a] # NoCommand
  <2>1. PICK n : n = mem[c]
    OBVIOUS
  <2>2. PICK u : u = Updated(c).mem
    OBVIOUS
  <2>3. PICK given : given = Updated(c).command
    OBVIOUS
  <2>4. /\ c \in loaded /\ n \in Mem /\ n.life = "active" /\ mem'[c] = u /\ command'[c] = given
    BY <1>1, <2>1, <2>2, <2>3, MemTyped DEF UpdateEnd, Active
  <2>5. TypeOK /\ c \in loaded
    BY <1>1, <2>4
  <2>6. /\ u \in Mem /\ u.refs = n.refs /\ u.life = n.life /\ u.from = n.from
        /\ c \in UseTheModel =>
             u.initialized = Got(n).initialized /\ u.robot_model = Got(n).robot_model
        /\ c \notin UseTheModel =>
             /\ u.initialized = n.initialized
             /\ u.robot_model = n.robot_model \/ u.robot_model = model[First]
        /\ u.clock = IF c \in Tickers THEN Later(n.clock) ELSE n.clock
    BY <2>1, <2>2, <2>5, UpdatedMem
  <2>7. /\ given \in [Arms -> Commands]
        /\ c \in SettingOut => \A a \in ArmsOf(c) :
             {given[a].first, given[a].rest} \subseteq {latched[c][a], n.from[a].rest, Zero}
        /\ c \in Tickers => \A a \in ArmsOf(c) : given[a].t = Later(n.clock)
        /\ c \notin Tickers => \A a \in ArmsOf(c) : given[a].t \in {0, n.clock}
    BY <2>1, <2>3, <2>5, UpdatedCommand
  <2>8. Later(n.clock) # 0
    BY <2>4, Numbers DEF Mem
  <2>9. c \in Tickers => \A a \in ArmsOf(c) : given[a] # NoCommand
    BY <2>7, <2>8 DEF NoCommand
  <2> QED  BY <2>1, <2>4, <2>6, <2>7, <2>9
<1>4. Active' = Active
  BY <1>1, <1>2, <1>3 DEF Active
<1>5. PastGoals'
  BY <1>1 DEF Motions, PastGoals, goals, history
<1>6. OnlyNew'
  <2> SUFFICES ASSUME NEW c \in Active \cap SettingOut, NEW a \in ArmsOf(c)
               PROVE  /\ mem'[c].from[a].first \in New(c, a)'
                      /\ mem'[c].from[a].rest \in New(c, a)'
                      /\ command'[c][a].first \in New(c, a)'
                      /\ command'[c][a].rest \in New(c, a)'
    BY <1>1, <1>4 DEF OnlyNew
  <2>1. New(c, a)' = New(c, a) /\ Zero \in New(c, a)
    BY <1>1 DEF New, history
  <2>2. mem[c].from[a].first \in New(c, a) /\ mem[c].from[a].rest \in New(c, a)
        /\ latched[c][a] \in New(c, a)
    BY <1>1 DEF Motions, OnlyNew
  <2> QED  BY <1>3, <2>1, <2>2
<1>7. Clocks'
  <2> SUFFICES ASSUME NEW c \in loaded
               PROVE  /\ c \notin Tickers => mem'[c].clock = 0
                      /\ c \in Active => \/ mem'[c].clock = 0
                                         \/ \A a \in ArmsOf(c) : command'[c][a] # NoCommand
    BY <1>1, <1>4 DEF Clocks
  <2>1. c \notin Tickers => mem[c].clock = 0
    BY DEF Motions, Clocks
  <2> QED  BY <1>2, <1>3, <2>1
<1> QED  BY <1>5, <1>6, <1>7 DEF Motions

LEMMA SwitchMotions == GoodPointers /\ Motions /\ Switch => Motions'
<1> SUFFICES ASSUME GoodPointers, Motions, Switch PROVE Motions'
  OBVIOUS
<1>1. /\ TypeOK /\ loaded' = loaded /\ rt' = "write" /\ UNCHANGED goals
      /\ loaded \subseteq Classes /\ request.start \subseteq loaded
      /\ shown \in [Arms -> Poses]
  BY ScenariosAssumption DEF GoodPointers, Switch, TypeOK
<1>2. ASSUME NEW c \in loaded
      PROVE  /\ Stopped(c) \in Mem /\ Stopped(c).clock = mem[c].clock
             /\ c \notin request.stop => Stopped(c) = mem[c]
             /\ c \in request.stop => Stopped(c).life = "inactive"
  <2>1. PICK n : n = mem[c]
    OBVIOUS
  <2>2. PICK s : s = Stopped(c)
    OBVIOUS
  <2> QED  BY <1>1, <2>1, <2>2, StoppedMem
<1>3. ASSUME NEW c \in loaded, c \notin request.start
      PROVE  /\ mem'[c] = Stopped(c) /\ command'[c] = command[c] /\ start'[c] = start[c]
             /\ old'[c] = old[c]
  BY <1>1, <1>3 DEF Switch
<1>4. ASSUME NEW c \in request.start
      PROVE  /\ command'[c] = Idle /\ start'[c] = shown /\ old'[c] = sent[c] \ {listening[c]}
             /\ c \in SettingOut => mem'[c].from = Here
             /\ mem'[c].clock = IF c \in Tickers THEN 0 ELSE mem[c].clock
  <2>1. PICK s : s = Stopped(c)
    OBVIOUS
  <2>2. PICK loan : loan = assign_loaned_state_interfaces(s)
    OBVIOUS
  <2>3. PICK m : m = Activated(c, s)
    OBVIOUS
  <2>4. s \in Mem /\ c \in Classes /\ s.clock = mem[c].clock
    BY <1>1, <1>2, <2>1
  <2>5. /\ m \in Mem /\ m.refs = IF Loaned(c) THEN loan.refs ELSE s.refs
        /\ c \in AtOnce => m.initialized = Got(loan).initialized
                           /\ m.robot_model = Got(loan).robot_model
        /\ c \notin AtOnce => m.initialized = s.initialized
                              /\ m.robot_model = s.robot_model
        /\ m.from = IF c \in SettingOut THEN Here ELSE s.from
        /\ m.clock = IF c \in Tickers THEN 0 ELSE s.clock
    BY <1>1, <2>2, <2>3, <2>4, ActivatedMem
  <2>6. mem'[c] = [m EXCEPT !.life = "active"]
    BY <1>1, <2>1, <2>3 DEF Switch
  <2>7. mem'[c].from = m.from /\ mem'[c].clock = m.clock
    BY <2>5, <2>6 DEF Mem
  <2> QED  BY <1>1, <2>4, <2>5, <2>7 DEF Switch
<1>5. PastGoals'
  <2> SUFFICES ASSUME NEW c \in loaded
               PROVE  /\ old'[c] \subseteq sent[c]
                      /\ listening[c] = NoGoal \/ listening[c] \notin old'[c]
    BY <1>1 DEF PastGoals, goals
  <2> QED  BY <1>3, <1>4 DEF Motions, PastGoals
<1>6. ASSUME NEW c \in Active', c \notin request.start
      PROVE  c \in Active /\ mem'[c] = mem[c]
  BY <1>1, <1>2, <1>3, <1>6 DEF Active
<1>7. OnlyNew'
  <2> SUFFICES ASSUME NEW c \in Active' \cap SettingOut, NEW a \in ArmsOf(c)
               PROVE  /\ mem'[c].from[a].first \in New(c, a)'
                      /\ mem'[c].from[a].rest \in New(c, a)'
                      /\ command'[c][a].first \in New(c, a)'
                      /\ command'[c][a].rest \in New(c, a)'
    BY <1>1 DEF OnlyNew
  <2>1. c \in loaded /\ a \in Arms
    BY <1>1, ArmsOfArms DEF Active
  <2>2. CASE c \in request.start
    <3>1. mem'[c].from[a] = Both(shown[a]) /\ command'[c][a] = NoCommand
      BY <1>4, <2>1, <2>2 DEF Here, Idle
    <3>2. shown[a] \in New(c, a)' /\ Unset \in New(c, a)'
      BY <1>4, <2>2 DEF New
    <3> QED  BY <3>1, <3>2 DEF Both, NoCommand
  <2>3. CASE c \notin request.start
    <3>1. New(c, a)' = New(c, a)
      BY <1>3, <2>1, <2>3 DEF New
    <3> QED  BY <1>3, <1>6, <2>1, <2>3, <3>1 DEF Motions, OnlyNew
  <2> QED  BY <2>2, <2>3
<1>8. Clocks'
  <2> SUFFICES ASSUME NEW c \in loaded
               PROVE  /\ c \notin Tickers => mem'[c].clock = 0
                      /\ c \in Active' => \/ mem'[c].clock = 0
                                          \/ \A a \in ArmsOf(c) : command'[c][a] # NoCommand
    BY <1>1 DEF Clocks
  <2>1. /\ c \notin Tickers => mem[c].clock = 0
        /\ c \in Active => \/ mem[c].clock = 0
                           \/ \A a \in ArmsOf(c) : command[c][a] # NoCommand
    BY DEF Motions, Clocks
  <2>2. CASE c \in request.start
    BY <1>4, <2>1, <2>2
  <2>3. CASE c \notin request.start
    BY <1>2, <1>3, <1>6, <2>1, <2>3
  <2> QED  BY <2>2, <2>3
<1> QED  BY <1>5, <1>7, <1>8 DEF Motions

(* A goal that arrives is new: it was not sent before.                     *)
LEMMA CallbackMotions ==
  ASSUME GoodPointers, Motions, NEW c \in loaded,
         CallbackEnd(c) \/ \E g \in Goals : CallbackBegin(c, g)
  PROVE  Motions'
<1>1. /\ TypeOK /\ mem \in [loaded -> Mem] /\ loaded \subseteq Classes
      /\ UNCHANGED <<loaded, rt, latched, command, history>>
  BY MemTyped, ScenariosAssumption DEF GoodPointers, TypeOK, CallbackBegin, CallbackEnd
<1>2. PICK g \in Goals :
        /\ g \notin old[c]
        /\ \/ mem' = mem \/ mem' = SetFirst(c, g) \/ mem' = SetRest(c, g)
           \/ mem' = [mem EXCEPT ![c].from = [a \in Arms |-> Both(g)]]
        /\ listening'[c] = NoGoal \/ listening'[c] = g
        /\ \A d \in loaded : sent[d] \subseteq sent'[d]
        /\ \A d \in loaded \ {c} : listening'[d] = listening[d]
  <2>1. CASE CallbackEnd(c)
    <3>1. listening[c] \in Goals /\ listening[c] \notin old[c]
      BY <1>1, <2>1 DEF CallbackEnd, TypeOK, Motions, PastGoals
    <3>2. mem' = mem \/ mem' = SetRest(c, listening[c])
      BY <2>1 DEF CallbackEnd
    <3> QED  BY <1>1, <2>1, <3>1, <3>2 DEF CallbackEnd, TypeOK
  <2>2. ASSUME NEW g \in Goals, CallbackBegin(c, g)
        PROVE  /\ g \notin old[c]
               /\ \/ mem' = mem \/ mem' = SetFirst(c, g) \/ mem' = SetRest(c, g)
                  \/ mem' = [mem EXCEPT ![c].from = [a \in Arms |-> Both(g)]]
               /\ listening'[c] = NoGoal \/ listening'[c] = g
               /\ \A d \in loaded : sent[d] \subseteq sent'[d]
               /\ \A d \in loaded \ {c} : listening'[d] = listening[d]
    <3>1. g \notin old[c]
      BY <2>2 DEF CallbackBegin, Motions, PastGoals
    <3>2. \/ mem' = mem \/ mem' = SetFirst(c, g)
          \/ mem' = [mem EXCEPT ![c].from = [a \in Arms |-> Both(g)]]
      BY <2>2 DEF CallbackBegin, desiredJointCallback, desiredCartesianCallback,
         head_command_listener, set_velocity_target
    <3>3. listening'[c] = NoGoal \/ listening'[c] = g
      BY <1>1, <2>2 DEF CallbackBegin, TypeOK
    <3>4. /\ \A d \in loaded : sent[d] \subseteq sent'[d]
          /\ \A d \in loaded \ {c} : listening'[d] = listening[d]
      BY <1>1, <2>2 DEF CallbackBegin, TypeOK
    <3> QED  BY <3>1, <3>2, <3>3, <3>4
  <2> QED  BY <2>1, <2>2
<1>3. ASSUME NEW d \in loaded
      PROVE  /\ mem'[d].life = mem[d].life /\ mem'[d].clock = mem[d].clock
             /\ d # c => mem'[d].from = mem[d].from
             /\ \A a \in Arms : /\ mem'[c].from[a].first \in {mem[c].from[a].first, g}
                                /\ mem'[c].from[a].rest \in {mem[c].from[a].rest, g}
  <2>1. mem[d] \in Mem /\ mem[c] \in Mem /\ mem[c].from \in [Arms -> Halves]
    BY <1>1 DEF Mem
  <2>2. CASE mem' = mem
    BY <2>2
  <2>3. ASSUME NEW from \in [Arms -> Halves], mem' = [mem EXCEPT ![c].from = from]
        PROVE  /\ mem'[d].life = mem[d].life /\ mem'[d].clock = mem[d].clock
               /\ d # c => mem'[d].from = mem[d].from
               /\ mem'[c].from = from
    <3>1. mem'[c] = [mem[c] EXCEPT !.from = from] /\ (d # c => mem'[d] = mem[d])
      BY <1>1, <2>3
    <3> QED  BY <2>1, <3>1 DEF Mem
  <2>4. CASE mem' = SetFirst(c, g)
    <3>1. PICK from \in [Arms -> Halves] :
            /\ SetFirst(c, g) = [mem EXCEPT ![c].from = from]
            /\ from = [a \in Arms |-> [mem[c].from[a] EXCEPT !.first = g]]
      BY <1>1, SetHalves
    <3>2. \A a \in Arms : from[a].first = g /\ from[a].rest = mem[c].from[a].rest
      BY <2>1, <3>1 DEF Halves
    <3> QED  BY <2>3, <2>4, <3>1, <3>2
  <2>5. CASE mem' = SetRest(c, g)
    <3>1. PICK from \in [Arms -> Halves] :
            /\ SetRest(c, g) = [mem EXCEPT ![c].from = from]
            /\ from = [a \in Arms |-> [mem[c].from[a] EXCEPT !.rest = g]]
      BY <1>1, SetHalves
    <3>2. \A a \in Arms : from[a].rest = g /\ from[a].first = mem[c].from[a].first
      BY <2>1, <3>1 DEF Halves
    <3> QED  BY <2>3, <2>5, <3>1, <3>2
  <2>6. CASE mem' = [mem EXCEPT ![c].from = [a \in Arms |-> Both(g)]]
    <3>1. [a \in Arms |-> Both(g)] \in [Arms -> Halves]
      BY <1>1, SetHalves
    <3> QED  BY <2>3, <2>6, <3>1 DEF Both
  <2> QED  BY <1>2, <2>2, <2>4, <2>5, <2>6
<1>4. Active' = Active
  BY <1>1, <1>3 DEF Active
<1>5. PastGoals' /\ Clocks'
  BY <1>1, <1>2, <1>3, <1>4 DEF Motions, PastGoals, Clocks, history
<1>6. OnlyNew'
  <2> SUFFICES ASSUME NEW d \in Active \cap SettingOut, NEW a \in ArmsOf(d)
               PROVE  /\ mem'[d].from[a].first \in New(d, a)
                      /\ mem'[d].from[a].rest \in New(d, a)
    BY <1>1, <1>4 DEF Motions, OnlyNew, New, history
  <2>1. d \in loaded /\ a \in Arms
    BY <1>1, ArmsOfArms DEF Active
  <2>2. mem[d].from[a].first \in New(d, a) /\ mem[d].from[a].rest \in New(d, a)
    BY DEF Motions, OnlyNew
  <2>3. d = c => g \in New(d, a)
    BY <1>2 DEF New
  <2> QED  BY <1>3, <2>1, <2>2, <2>3
<1> QED  BY <1>5, <1>6 DEF Motions

LEMMA StepMotions == GoodPointers /\ Motions /\ [Next]_vars => Motions'
<1> SUFFICES ASSUME GoodPointers, Motions, [Next]_vars PROVE Motions'
  OBVIOUS
<1>1. CASE read
  <2>1. \A c \in loaded : /\ mem'[c].from = mem[c].from /\ mem'[c].clock = mem[c].clock
                          /\ mem'[c].life = mem[c].life
    BY <1>1, MemTyped DEF GoodPointers, read, Mem
  <2> QED  BY <1>1, <2>1, StillMotions DEF read
<1>2. CASE UpdateBegin
  <2>1. \A c \in loaded :
          /\ mem'[c].from = mem[c].from /\ mem'[c].clock = mem[c].clock
          /\ mem'[c].life = "active" <=> mem[c].life = "active"
    BY <1>2 DEF UpdateBegin
  <2>2. /\ latched' = [c \in loaded |-> [a \in Arms |-> mem[c].from[a].first]]
        /\ UNCHANGED <<loaded, command, goals, history>>
    BY <1>2 DEF UpdateBegin
  <2> QED  BY <2>1, <2>2, StillMotions
<1>3. CASE write
  BY <1>3, StillMotions DEF write
<1>4. ASSUME NEW starting \in SUBSET loaded, NEW stopping \in SUBSET loaded,
             RequestSwitch(starting, stopping)
      PROVE  Motions'
  BY <1>4, StillMotions DEF RequestSwitch
<1>5. ASSUME NEW c \in loaded, NEW complete \in BOOLEAN, Configure(c, complete)
      PROVE  Motions'
  <2>1. PICK n : n = [mem[c] EXCEPT !.life = "unconfigured"]
    OBVIOUS
  <2>2. PICK m : m = on_configure(c, n, complete)
    OBVIOUS
  <2>3. /\ mem \in [loaded -> Mem] /\ mem[c] \in Mem /\ mem[c].life # "active"
        /\ c \in Classes /\ mem' = [mem EXCEPT ![c] = m]
    BY <1>5, <2>1, <2>2, MemTyped, ScenariosAssumption DEF GoodPointers, Configure, TypeOK
  <2>4. /\ n \in Mem /\ n.life = "unconfigured" /\ n.from = mem[c].from
        /\ n.clock = mem[c].clock
    BY <2>1, <2>3 DEF Mem, Lives
  <2>5. m = on_configure(c, n, TRUE) \/ m = on_configure(c, n, FALSE)
    BY <2>2
  <2>6. /\ m \in Mem /\ m.life # "active" /\ m.from = n.from /\ m.clock = n.clock
        /\ Loaned(c) => m.refs = <<>> /\ m.initialized = FALSE /\ m.robot_model = FALSE
        /\ ~Loaned(c) => /\ m.refs = n.refs /\ m.initialized = n.initialized
                         /\ m.robot_model = n.robot_model
    BY <2>3, <2>4, <2>5, ConfiguredMem
  <2>7. \A d \in loaded : /\ mem'[d].from = mem[d].from /\ mem'[d].clock = mem[d].clock
                          /\ mem'[d].life = "active" <=> mem[d].life = "active"
    BY <2>3, <2>4, <2>6
  <2> QED  BY <1>5, <2>7, StillMotions DEF Configure
<1>6. ASSUME NEW c \in loaded, CallbackEnd(c) \/ \E g \in Goals : CallbackBegin(c, g)
      PROVE  Motions'
  BY <1>6, CallbackMotions
<1>7. ASSUME NEW c \in loaded, PublisherTakes(c) \/ PublisherReturns(c)
      PROVE  Motions'
  BY <1>7, StillMotions DEF PublisherTakes, PublisherReturns
<1>8. CASE UNCHANGED vars
  BY <1>8, StillMotions DEF vars
<1> QED
  BY <1>1, <1>2, <1>3, <1>4, <1>5, <1>6, <1>7, <1>8, UpdateEndMotions, SwitchMotions
  DEF Next, RealTime

(* After an activation no controller that sets out from its arm's pose     *)
(* commands anything but that pose and goals that were not over before,    *)
(* for any goals, in any order of their callbacks, half by half.           *)
THEOREM NothingOldIsPursued == Spec => []PursuesOnlyNew
<1>1. Motions => PursuesOnlyNew
  BY DEF Motions, OnlyNew, PursuesOnlyNew, New
<1> QED  BY <1>1, InitGood, StepGood, InitMotions, StepMotions, PTL DEF Spec

(* The first command of a motion is that of its first cycle, for any       *)
(* number of motions before it: on_activate resets the clock that the law  *)
(* of update() goes by, and so does nothing else.                          *)
THEOREM MotionsStartSoftly == Spec => StartsSoftly
<1> DEFINE Softly ==
      \A c \in Active : \A a \in ArmsOf(c) :
        command[c][a] = NoCommand /\ command'[c][a] # NoCommand => command'[c][a].t <= 1
<1>1. GoodPointers /\ Motions /\ [Next]_vars => [Softly]_vars
  <2> SUFFICES ASSUME GoodPointers, Motions, [Next]_vars,
                      NEW c \in Active, NEW a \in ArmsOf(c),
                      command[c][a] = NoCommand, command'[c][a] # NoCommand
               PROVE  command'[c][a].t <= 1
    OBVIOUS
  <2>1. c \in loaded /\ c \in Classes /\ a \in Arms
    BY ScenariosAssumption, ArmsOfArms DEF Active, GoodPointers, TypeOK
  <2>2. UpdateEnd \/ Switch
    BY DEF Next, RealTime, vars, read, UpdateBegin, write, RequestSwitch, Configure,
       CallbackBegin, CallbackEnd, PublisherTakes, PublisherReturns
  <2>3. ~Switch
    <3> SUFFICES ASSUME Switch PROVE FALSE
      OBVIOUS
    <3>1. command'[c] \in {Idle, command[c]}
      BY <2>1 DEF Switch
    <3> QED  BY <2>1, <3>1 DEF Idle
  <2>4. mem[c].clock = 0
    BY <2>1 DEF Motions, Clocks
  <2>5. Later(0) = 1
    BY Numbers DEF Later
  <2>6. PICK n : n = mem[c]
    OBVIOUS
  <2>7. PICK given : given = Updated(c).command
    OBVIOUS
  <2>8. TypeOK
    BY DEF GoodPointers
  <2>9. /\ given \in [Arms -> Commands]
        /\ c \in SettingOut => \A b \in ArmsOf(c) :
             {given[b].first, given[b].rest} \subseteq {latched[c][b], n.from[b].rest, Zero}
        /\ c \in Tickers => \A b \in ArmsOf(c) : given[b].t = Later(n.clock)
        /\ c \notin Tickers => \A b \in ArmsOf(c) : given[b].t \in {0, n.clock}
    BY <2>1, <2>6, <2>7, <2>8, UpdatedCommand
  <2>10. command'[c] = given
    BY <2>1, <2>2, <2>3, <2>7 DEF UpdateEnd
  <2> QED  BY <2>4, <2>5, <2>6, <2>9, <2>10
<1> QED
  BY <1>1, InitGood, StepGood, InitMotions, StepMotions, PTL DEF Spec, StartsSoftly

-----------------------------------------------------------------------------
(* The messages                                                            *)

(* While the thread of a publisher copies a message, no update of its      *)
(* broadcaster touches it.                                                 *)
THEOREM MessagesAreWhole == Spec => MessagesKeepStill
<1> DEFINE Still ==
      \A c \in loaded : publisher[c].turn = "publishing" =>
                          publisher'[c].msg_ = publisher[c].msg_
<1>1. TypeOK /\ [Next]_vars => [Still]_vars
  <2> SUFFICES ASSUME TypeOK, [Next]_vars, NEW c \in loaded,
                      publisher[c].turn = "publishing"
               PROVE  publisher'[c].msg_ = publisher[c].msg_
    OBVIOUS
  <2>1. CASE UpdateEnd
    <3>1. publisher'[c] = publisher[c]
      BY <2>1 DEF UpdateEnd, Publishes
    <3> QED  BY <3>1
  <2>2. ASSUME NEW d \in loaded, PublisherTakes(d) \/ PublisherReturns(d)
        PROVE  publisher'[c].msg_ = publisher[c].msg_
    <3>1. PICK turn : publisher' = [publisher EXCEPT ![d].turn = turn]
      BY <2>2 DEF PublisherTakes, PublisherReturns
    <3>2. publisher'[c] = IF c = d THEN [publisher[c] EXCEPT !.turn = turn] ELSE publisher[c]
      BY <3>1 DEF TypeOK
    <3> QED  BY <3>2 DEF TypeOK
  <2>3. CASE UNCHANGED publisher
    BY <2>3
  <2> QED  BY <2>1, <2>2, <2>3 DEF Next, RealTime, vars, read, UpdateBegin, Switch,
           write, RequestSwitch, Configure, CallbackBegin, CallbackEnd
<1> QED  BY <1>1, TypeCorrect, PTL DEF Spec, MessagesKeepStill

=============================================================================
