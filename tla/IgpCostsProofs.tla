--------------------------- MODULE IgpCostsProofs ---------------------------
(***************************************************************************)
(* Proofs about IgpCosts, for any number of neighbours, edits and mishaps: *)
(* types, IdleRunsConf, CostsInPlace and SilentIsWorst.                    *)
(***************************************************************************)
EXTENDS IgpCosts, TLAPS

-----------------------------------------------------------------------------
(* The cost of a line of fping.                                            *)

(* An average of times that do not exceed a bound does not exceed it.      *)
LEMMA AverageBounded ==
    ASSUME NEW n \in Nat \ {0}, NEW m \in Nat, NEW t \in Nat, t <= n * m
    PROVE  (t \div n) \in 0..m
<1> DEFINE q == t \div n
<1>1. q \in Int /\ t = n * q + (t % n) /\ (t % n) \in 0..(n-1)
  BY SMTT(20)
<1>2. q >= 0
  <2>1. SUFFICES ASSUME q <= -1 PROVE FALSE
    BY <1>1
  <2>2. n * q <= -n
    BY <1>1, <2>1, SMTT(20)
  <2> HIDE DEF q
  <2> QED BY <1>1, <2>2
<1>3. q <= m
  <2>1. SUFFICES ASSUME q >= m + 1 PROVE FALSE
    BY <1>1
  <2>2. n * q >= n * m + n
    BY <1>1, <2>1, SMTT(20)
  <2> HIDE DEF q
  <2> QED BY <1>1, <2>2, SMTT(20)
<1> QED BY <1>1, <1>2, <1>3

LEMMA CostRange == MinCost \in Nat /\ MaxCost \in Nat /\ 1 <= MinCost /\ MinCost <= MaxCost
BY DEF MinCost, MaxCost

LEMMA LineType ==
    ASSUME NEW l \in Line
    PROVE  /\ l.answers \in 0..PingCount /\ l.total \in Nat
           /\ l.total <= l.answers * MaxRtt
BY CostAssumption DEF Line

(* A host that answered costs less than the fallback.                      *)
LEMMA MeasuredCheap ==
    ASSUME NEW l \in Line, l.answers > 0
    PROVE  Measured(l) \in MinCost..MaxCost /\ Measured(l) < FallbackCost
<1> DEFINE avg == l.total \div l.answers
           lost == PingCount - l.answers
<1>1. avg \in 0..MaxRtt
  BY LineType, AverageBounded, CostAssumption
<1>2. lost \in 0..(PingCount - 1)
  BY LineType, CostAssumption
<1>3. lost * LossPenalty \in 0..(PingCount * LossPenalty)
  <2>1. lost * LossPenalty \in Nat
    BY <1>2, CostAssumption, SMTT(20)
  <2>2. PingCount * LossPenalty = lost * LossPenalty + l.answers * LossPenalty
    BY LineType, CostAssumption, SMTT(20)
  <2>3. l.answers * LossPenalty \in Nat
    BY LineType, CostAssumption, SMTT(20)
  <2> QED BY <2>1, <2>2, <2>3
<1> HIDE DEF avg, lost
<1>4. Measured(l) = Clamp(avg + BaseCost + lost * LossPenalty)
  BY DEF Measured, avg, lost
<1>5. PICK p \in Nat : p = PingCount * LossPenalty
  BY CostAssumption, SMTT(20)
<1>6. PICK s \in Nat : s = lost * LossPenalty
  BY <1>3, <1>5
<1>7. avg + BaseCost + s < FallbackCost
  BY <1>1, <1>3, <1>5, <1>6, CostAssumption, RoomAssumption
<1>8. Measured(l) = Clamp(avg + BaseCost + s)
  BY <1>4, <1>6
<1>9. avg + BaseCost + s \in Nat
  BY <1>1, CostAssumption
<1> QED BY <1>7, <1>8, <1>9, CostAssumption, RoomAssumption, CostRange DEF Clamp

LEMMA CostOfType ==
    ASSUME NEW lines, \A g \in DOMAIN lines : lines[g] \in Line, NEW h
    PROVE  CostOf(calc_costs(lines), h) \in MinCost..MaxCost
<1>1. CASE h \in DOMAIN calc_costs(lines)
  <2>1. h \in DOMAIN lines /\ lines[h].answers > 0 /\ calc_costs(lines)[h] = Measured(lines[h])
    BY <1>1 DEF calc_costs
  <2> QED BY <1>1, <2>1, MeasuredCheap DEF CostOf
<1>2. CASE h \notin DOMAIN calc_costs(lines)
  BY <1>2, CostAssumption DEF CostOf
<1> QED BY <1>1, <1>2
-----------------------------------------------------------------------------
(* The inductive invariant.                                                *)

Partial(T) == UNION {[S -> T] : S \in SUBSET Neighbour}
CostFile == {Missing, Empty, Torn} \cup (MinCost..MaxCost)
Runs == [step : {"idle", "ping", "write"}, todo : SUBSET Neighbour,
         lines : Partial(Lines), open : SUBSET Neighbour, clean : BOOLEAN]
Plays == [task : {"idle", "bootstrap", "pinging", "cron", "bird", "handler"},
          changed : BOOLEAN, notified : BOOLEAN]

TypeInv ==
    /\ wanted \in SUBSET Neighbour /\ hosts \in SUBSET Neighbour
    /\ conf \in SUBSET Neighbour
    /\ cost \in [Neighbour -> CostFile]
    /\ running \in Partial(MinCost..MaxCost)
    /\ cron \in {"absent", "waits", "pinging", "reload"}
    /\ play \in Plays
    /\ run \in [Writer -> Runs]
    /\ stale \in BOOLEAN /\ broken \in BOOLEAN

(* What a play has registered, and who is running igpping.py.              *)
PlayInv ==
    /\ play.notified => At("handler")
    /\ play.changed => (At("bootstrap") \/ At("pinging"))
    /\ At("pinging") => play.changed
    /\ At("pinging") <=> run["play"].step # "idle"
    /\ cron = "pinging" <=> run["cron"].step # "idle"

(* The reload that is still owed is notified, or was lost.                 *)
ConfInv == (~stale /\ ~play.notified) => DOMAIN running = conf

(* A clean run is alone, has the current list, and leaves only costs that  *)
(* can be used behind it.                                                  *)
IdleRun(w) == run[w].step = "idle" => run[w].todo = {} /\ run[w].open = {}
Alone(w) == (run[w].clean /\ run[w].step # "idle")
            => \A v \in Writer : v # w => run[v].step = "idle"
Covers(w) == (run[w].clean /\ run[w].step = "write")
             => \A h \in hosts : h \in run[w].todo \/ h \in run[w].open \/ Usable(cost[h])
Truncated(w) ==
    /\ \A g, h \in run[w].open : g = h
    /\ run[w].clean => \A h \in run[w].open : cost[h] = Empty

RunInv == \A w \in Writer : IdleRun(w) /\ Alone(w) /\ Covers(w) /\ Truncated(w)

(* A cost that cannot be used is about to be written, or known to be so.   *)
CostInv ==
    ~broken => \A h \in hosts :
        \/ Usable(cost[h])
        \/ At("bootstrap") /\ play.changed
        \/ h \in run["play"].todo \/ h \in run["play"].open
        \/ h \in run["cron"].open

IInv == TypeInv /\ PlayInv /\ ConfInv /\ RunInv /\ CostInv
-----------------------------------------------------------------------------
(* Types.                                                                  *)

LEMMA EmptyPartial ==
    ASSUME NEW T
    PROVE  None \in Partial(T)
<1>1. None \in [{} -> T]
  BY DEF None
<1> QED BY <1>1 DEF Partial

LEMMA PartialIntro ==
    ASSUME NEW T, NEW S \in SUBSET Neighbour, NEW f \in [S -> T]
    PROVE  f \in Partial(T)
BY DEF Partial

LEMMA PartialElim ==
    ASSUME NEW T, NEW f \in Partial(T)
    PROVE  /\ DOMAIN f \in SUBSET Neighbour
           /\ \A h \in DOMAIN f : f[h] \in T
           /\ f \in [DOMAIN f -> T]
BY DEF Partial

LEMMA NoRunType == NoRun \in Runs
BY EmptyPartial DEF NoRun, Runs

LEMMA BeginType ==
    ASSUME TypeInv, NEW w \in Writer, Begin(w)
    PROVE  run' \in [Writer -> Runs]
<1> SUFFICES ASSUME NEW v \in Writer PROVE run'[v] \in Runs
  BY DEF Begin
<1>1. CASE v = w
  BY <1>1, EmptyPartial DEF Begin, TypeInv, Runs
<1>2. CASE v # w
  BY <1>2 DEF Begin, TypeInv, Runs
<1> QED BY <1>1, <1>2

LEMMA EndRunType ==
    ASSUME TypeInv, NEW w \in Writer, EndRun(w)
    PROVE  run' \in [Writer -> Runs]
BY NoRunType DEF EndRun, TypeInv

LEMMA ConfigureType ==
    ASSUME TypeInv, Configure
    PROVE  running' \in Partial(MinCost..MaxCost) /\ stale' \in BOOLEAN
<1>1. CASE \A h \in conf : Usable(cost[h])
  <2>1. \A h \in conf : cost[h] \in MinCost..MaxCost
    BY <1>1 DEF TypeInv, CostFile, Usable, Missing, Empty, Torn
  <2>2. [h \in conf |-> cost[h]] \in [conf -> MinCost..MaxCost]
    BY <2>1
  <2> QED BY <1>1, <2>2, PartialIntro DEF Configure, TypeInv
<1>2. CASE ~\A h \in conf : Usable(cost[h])
  BY <1>2 DEF Configure, TypeInv
<1> QED BY <1>1, <1>2

(* What a run takes for a host is a cost, whatever fping has printed.      *)
LEMMA WrittenCost ==
    ASSUME TypeInv, NEW w \in Writer, NEW h
    PROVE  CostOf(calc_costs(run[w].lines), h) \in MinCost..MaxCost
<1>1. run[w].lines \in Partial(Lines)
  BY DEF TypeInv, Runs
<1>2. \A g \in DOMAIN run[w].lines : run[w].lines[g] \in Line
  BY <1>1, PartialElim, LinesAssumption
<1> QED BY <1>2, CostOfType

LEMMA OverType ==
    ASSUME NEW old, NEW new \in MinCost..MaxCost
    PROVE  Over(old, new) \in {Torn, new}
BY DEF Over

LEMMA PingRun ==
    ASSUME TypeInv, NEW w \in Writer, Ping(w)
    PROVE  /\ run'[w].step = "write" /\ run'[w].todo = run[w].todo
           /\ run'[w].open = run[w].open
           /\ run'[w].clean <=> (run[w].clean /\ run[w].todo = hosts)
           /\ run'[w] \in Runs
           /\ \A v \in Writer : v # w => run'[v] = run[v]
           /\ run' \in [Writer -> Runs]
<1>1. PICK lines \in [hosts -> Lines] :
         run' = [run EXCEPT ![w].step = "write", ![w].lines = lines,
                            ![w].clean = (run[w].clean /\ run[w].todo = hosts)]
  BY DEF Ping
<1>2. lines \in Partial(Lines)
  BY PartialIntro DEF TypeInv
<1>3. PICK b \in BOOLEAN : b = (run[w].clean /\ run[w].todo = hosts)
  OBVIOUS
<1>4. run' = [run EXCEPT ![w].step = "write", ![w].lines = lines, ![w].clean = b]
  BY <1>1, <1>3, Zenon
<1>5. run[w] \in Runs
  BY DEF TypeInv
<1>6. run'[w] = [step |-> "write", todo |-> run[w].todo, lines |-> lines,
                 open |-> run[w].open, clean |-> b]
  BY <1>4, <1>5 DEF Runs, TypeInv
<1>7. run'[w] \in Runs
  BY <1>2, <1>5, <1>6 DEF Runs
<1>8. \A v \in Writer : v # w => run'[v] = run[v]
  BY <1>4 DEF TypeInv
<1>9. run' = [v \in Writer |-> run'[v]]
  BY <1>4 DEF TypeInv
<1>10. run' \in [Writer -> Runs]
  BY <1>7, <1>8, <1>9 DEF TypeInv
<1>11. /\ run'[w].step = "write" /\ run'[w].todo = run[w].todo
       /\ run'[w].open = run[w].open /\ run'[w].clean = b
  BY <1>6
<1>12. run'[w].clean <=> (run[w].clean /\ run[w].todo = hosts)
  BY <1>3, <1>11
<1> QED BY <1>7, <1>8, <1>10, <1>11, <1>12

LEMMA OpenType ==
    ASSUME TypeInv, NEW w \in Writer, Open(w)
    PROVE  run' \in [Writer -> Runs] /\ cost' \in [Neighbour -> CostFile]
<1>1. PICK h \in run[w].todo :
         /\ run' = [run EXCEPT ![w].open = {h}, ![w].todo = run[w].todo \ {h}]
         /\ cost' = [cost EXCEPT ![h] = Empty]
  BY DEF Open
<1>2. h \in Neighbour
  BY DEF TypeInv, Runs
<1> QED BY <1>1, <1>2 DEF TypeInv, Runs, CostFile

LEMMA FlushRun ==
    ASSUME TypeInv, NEW w \in Writer, Flush(w)
    PROVE  /\ run'[w].step = "write" /\ run'[w].todo = run[w].todo
           /\ run'[w].open = {} /\ run'[w].clean = run[w].clean
           /\ \A v \in Writer : v # w => run'[v] = run[v]
           /\ run' \in [Writer -> Runs]
<1>1. run[w].lines \in Partial(Lines) /\ run[w].todo \in SUBSET Neighbour
  BY DEF TypeInv, Runs
<1>2. Unwritten(w) \in Partial(Lines)
  <2>1. Unwritten(w) \in [run[w].todo \cap DOMAIN run[w].lines -> Lines]
    BY <1>1, PartialElim DEF Unwritten
  <2> QED BY <1>1, <2>1, PartialIntro
<1>3. run' = [run EXCEPT ![w].open = {}, ![w].lines = Unwritten(w)]
  BY DEF Flush
<1>4. run' \in [Writer -> Runs]
  BY <1>2, <1>3 DEF TypeInv, Runs
<1>5. run[w].step = "write"
  BY DEF Flush
<1> HIDE DEF Unwritten
<1> QED BY <1>3, <1>4, <1>5 DEF TypeInv, Runs

LEMMA FlushCost ==
    ASSUME TypeInv, NEW w \in Writer, Flush(w)
    PROVE  \E h \in run[w].open, c \in MinCost..MaxCost :
              /\ cost' = [cost EXCEPT ![h] = Over(cost[h], c)]
              /\ broken' = (broken \/ cost'[h] = Torn)
BY WrittenCost DEF Flush

LEMMA FlushType ==
    ASSUME TypeInv, NEW w \in Writer, Flush(w)
    PROVE  cost' \in [Neighbour -> CostFile] /\ broken' \in BOOLEAN
<1>1. PICK h \in run[w].open, c \in MinCost..MaxCost :
         /\ cost' = [cost EXCEPT ![h] = Over(cost[h], c)]
         /\ broken' = (broken \/ cost'[h] = Torn)
  BY FlushCost
<1>2. Over(cost[h], c) \in CostFile
  BY OverType DEF CostFile
<1> QED BY <1>1, <1>2 DEF TypeInv

LEMMA TypeStep ==
    ASSUME TypeInv, [Next]_vars
    PROVE  TypeInv'
<1>1. CASE TemplateHosts
  <2>1. play' \in Plays
    <3>1. PICK b \in BOOLEAN : play' = [play EXCEPT !.task = "bootstrap", !.changed = b]
      <4>1. (hosts # wanted) \in BOOLEAN
        OBVIOUS
      <4> QED BY <1>1, <4>1, Zenon DEF TemplateHosts
    <3> QED BY <3>1 DEF TypeInv, Plays
  <2>2. run' \in [Writer -> Runs]
    <3>1. PICK b \in BOOLEAN : run' = [run EXCEPT !["cron"].clean = b]
      <4>1. (run["cron"].step = "idle" \/ (run["cron"].clean /\ hosts = wanted)) \in BOOLEAN
        OBVIOUS
      <4> QED BY <1>1, <4>1, Zenon DEF TemplateHosts
    <3> QED BY <3>1 DEF TypeInv, Runs, Writer
  <2> QED BY <1>1, <2>1, <2>2 DEF TemplateHosts, TypeInv
<1>2. CASE StartBird
  BY <1>2 DEF StartBird, WriteBird, TypeInv, Plays
<1>3. CASE Bootstrap
  <2>1. run' \in [Writer -> Runs]
    BY <1>3, BeginType DEF Bootstrap, TypeInv, Writer
  <2> QED BY <1>3, <2>1 DEF Bootstrap, TypeInv, Plays
<1>4. CASE Bootstrapped
  <2>1. run' \in [Writer -> Runs]
    BY <1>4, EndRunType DEF Bootstrapped, Writer
  <2> QED BY <1>4, <2>1 DEF Bootstrapped, TypeInv, Plays
<1>5. CASE InstallCron
  BY <1>5 DEF InstallCron, TypeInv, Plays
<1>6. CASE TemplateBird
  BY <1>6 DEF TemplateBird, WriteBird, TypeInv, Plays
<1>7. CASE Handler
  <2>1. running' \in Partial(MinCost..MaxCost) /\ stale' \in BOOLEAN
    BY <1>7, ConfigureType DEF Handler, TypeInv
  <2> QED BY <1>7, <2>1 DEF Handler, TypeInv, Plays, NoPlay
<1>8. CASE Abort
  <2>1. run' \in [Writer -> Runs]
    BY <1>8, EndRunType DEF Abort, Writer
  <2> QED BY <1>8, <2>1 DEF Abort, TypeInv, Plays, NoPlay
<1>9. CASE CronStart
  <2>1. run' \in [Writer -> Runs]
    BY <1>9, BeginType DEF CronStart, Writer
  <2> QED BY <1>9, <2>1 DEF CronStart, TypeInv
<1>10. CASE CronPinged
  <2>1. run' \in [Writer -> Runs]
    BY <1>10, EndRunType DEF CronPinged, Writer
  <2> QED BY <1>10, <2>1 DEF CronPinged, TypeInv
<1>11. CASE CronReload
  <2>1. running' \in Partial(MinCost..MaxCost) /\ stale' \in BOOLEAN
    BY <1>11, ConfigureType DEF CronReload
  <2> QED BY <1>11, <2>1 DEF CronReload, TypeInv
<1>12. CASE CronFails
  <2>1. run' \in [Writer -> Runs]
    BY <1>12, EndRunType DEF CronFails, Writer
  <2> QED BY <1>12, <2>1 DEF CronFails, TypeInv
<1>13. ASSUME NEW w \in Writer, RunStep(w) PROVE TypeInv'
  <2>1. CASE Ping(w)
    BY <2>1, PingRun DEF Ping, TypeInv
  <2>2. CASE Open(w)
    BY <2>2, OpenType DEF Open, TypeInv
  <2>3. CASE Flush(w)
    BY <2>3, FlushRun, FlushType DEF Flush, TypeInv
  <2> QED BY <1>13, <2>1, <2>2, <2>3 DEF RunStep
<1>14. CASE Edit
  BY <1>14 DEF Edit, TypeInv
<1>15. CASE UNCHANGED vars
  BY <1>15 DEF vars, TypeInv
<1> QED BY <1>1, <1>2, <1>3, <1>4, <1>5, <1>6, <1>7, <1>8, <1>9, <1>10, <1>11,
           <1>12, <1>13, <1>14, <1>15 DEF Next, PlayStep
-----------------------------------------------------------------------------
(* What a play registers, and the reload it owes.                          *)

LEMMA PlayStepInv ==
    ASSUME TypeInv, PlayInv, [Next]_vars
    PROVE  PlayInv'
<1> USE DEF Writer, At
<1>1. CASE TemplateHosts
  <2>1. PICK b : play' = [play EXCEPT !.task = "bootstrap", !.changed = b]
    BY <1>1, Zenon DEF TemplateHosts
  <2>2. \/ UNCHANGED run
        \/ \E c : run' = [run EXCEPT !["cron"].clean = c]
    BY <1>1, Zenon DEF TemplateHosts
  <2>3. \A w \in Writer : run'[w].step = run[w].step
    BY <2>2 DEF TypeInv, Runs
  <2>4. play'.task = "bootstrap" /\ play'.notified = play.notified
    BY <2>1 DEF TypeInv, Plays
  <2> QED BY <1>1, <2>3, <2>4 DEF TemplateHosts, PlayInv
<1>2. CASE StartBird
  BY <1>2 DEF StartBird, WriteBird, PlayInv, TypeInv, Plays
<1>3. CASE Bootstrap
  <2>1. CASE play.changed
    <3>1. play' = [play EXCEPT !.task = "pinging"]
      BY <1>3, <2>1 DEF Bootstrap
    <3>2. run'["play"].step = "ping" /\ run'["cron"].step = run["cron"].step
      BY <1>3, <2>1 DEF Bootstrap, Begin, TypeInv, Runs
    <3> QED BY <1>3, <2>1, <3>1, <3>2 DEF Bootstrap, PlayInv, TypeInv, Plays
  <2>2. CASE ~play.changed
    BY <1>3, <2>2 DEF Bootstrap, PlayInv, TypeInv, Plays
  <2> QED BY <2>1, <2>2
<1>4. CASE Bootstrapped
  BY <1>4 DEF Bootstrapped, EndRun, NoRun, PlayInv, TypeInv, Plays
<1>5. CASE InstallCron
  BY <1>5 DEF InstallCron, PlayInv, TypeInv, Plays
<1>6. CASE TemplateBird
  BY <1>6 DEF TemplateBird, WriteBird, PlayInv, TypeInv, Plays
<1>7. CASE Handler
  BY <1>7 DEF Handler, NoPlay, PlayInv, TypeInv, Plays
<1>8. CASE Abort
  BY <1>8 DEF Abort, EndRun, NoRun, NoPlay, PlayInv, TypeInv, Plays
<1>9. CASE CronStart
  <2>1. run'["cron"].step = "ping" /\ run'["play"].step = run["play"].step
    BY <1>9 DEF CronStart, Begin, TypeInv, Runs
  <2> QED BY <1>9, <2>1 DEF CronStart, PlayInv
<1>10. CASE CronPinged
  BY <1>10 DEF CronPinged, EndRun, NoRun, PlayInv, TypeInv
<1>11. CASE CronReload
  BY <1>11 DEF CronReload, PlayInv
<1>12. CASE CronFails
  BY <1>12 DEF CronFails, EndRun, NoRun, PlayInv, TypeInv
<1>13. ASSUME NEW w \in Writer, RunStep(w) PROVE PlayInv'
  <2>1. run'[w].step # "idle"
    <3>1. CASE Ping(w)
      BY <3>1, PingRun DEF Writer
    <3>2. CASE Open(w)
      BY <3>2 DEF Open, TypeInv, Runs
    <3>3. CASE Flush(w)
      BY <3>3, FlushRun DEF Writer
    <3> QED BY <1>13, <3>1, <3>2, <3>3 DEF RunStep
  <2>2. \A v \in Writer : v # w => run'[v] = run[v]
    BY <1>13 DEF RunStep, Ping, Open, Flush, TypeInv
  <2>3. run[w].step # "idle"
    BY <1>13 DEF RunStep, Ping, Open, Flush
  <2>4. play' = play /\ cron' = cron
    BY <1>13 DEF RunStep, Ping, Open, Flush
  <2> QED BY <2>1, <2>2, <2>3, <2>4 DEF PlayInv
<1>14. CASE Edit
  BY <1>14 DEF Edit, PlayInv
<1>15. CASE UNCHANGED vars
  BY <1>15 DEF vars, PlayInv
<1> QED BY <1>1, <1>2, <1>3, <1>4, <1>5, <1>6, <1>7, <1>8, <1>9, <1>10, <1>11,
           <1>12, <1>13, <1>14, <1>15 DEF Next, PlayStep

LEMMA Reloaded ==
    ASSUME Configure, stale' = FALSE, UNCHANGED conf
    PROVE  DOMAIN running' = conf'
BY DEF Configure

LEMMA ConfStep ==
    ASSUME TypeInv, PlayInv, ConfInv, [Next]_vars
    PROVE  ConfInv'
<1>1. CASE TemplateHosts
  BY <1>1 DEF TemplateHosts, ConfInv, TypeInv, Plays
<1>2. CASE StartBird \/ TemplateBird
  <2>1. ~play.notified
    BY <1>2 DEF StartBird, TemplateBird, At, PlayInv
  <2>2. play'.notified <=> conf # wanted
    BY <1>2 DEF StartBird, TemplateBird, WriteBird, TypeInv, Plays
  <2>3. conf' = wanted /\ UNCHANGED <<running, stale>>
    BY <1>2 DEF StartBird, TemplateBird, WriteBird
  <2> QED BY <2>1, <2>2, <2>3 DEF ConfInv
<1>3. CASE Bootstrap
  BY <1>3 DEF Bootstrap, ConfInv, TypeInv, Plays
<1>4. CASE Bootstrapped
  BY <1>4 DEF Bootstrapped, ConfInv, TypeInv, Plays
<1>5. CASE InstallCron
  BY <1>5 DEF InstallCron, ConfInv, TypeInv, Plays
<1>6. CASE Handler
  <2>1. CASE play.notified
    <3>1. Configure /\ UNCHANGED conf
      BY <1>6, <2>1 DEF Handler
    <3>2. stale' \in BOOLEAN
      BY <3>1, ConfigureType
    <3> QED BY <3>1, <3>2, Reloaded DEF ConfInv
  <2>2. CASE ~play.notified
    BY <1>6, <2>2 DEF Handler, ConfInv
  <2> QED BY <2>1, <2>2
<1>7. CASE Abort
  BY <1>7 DEF Abort, ConfInv, TypeInv
<1>8. CASE CronStart
  BY <1>8 DEF CronStart, ConfInv
<1>9. CASE CronPinged
  BY <1>9 DEF CronPinged, ConfInv
<1>10. CASE CronReload
  <2>1. Configure /\ UNCHANGED conf
    BY <1>10 DEF CronReload
  <2>2. stale' \in BOOLEAN
    BY <2>1, ConfigureType
  <2> QED BY <2>1, <2>2, Reloaded DEF ConfInv
<1>11. CASE CronFails
  BY <1>11 DEF CronFails, ConfInv
<1>12. ASSUME NEW w \in Writer, RunStep(w) PROVE ConfInv'
  BY <1>12 DEF RunStep, Ping, Open, Flush, ConfInv
<1>13. CASE Edit
  BY <1>13 DEF Edit, ConfInv
<1>14. CASE UNCHANGED vars
  BY <1>14 DEF vars, ConfInv
<1> QED BY <1>1, <1>2, <1>3, <1>4, <1>5, <1>6, <1>7, <1>8, <1>9, <1>10, <1>11,
           <1>12, <1>13, <1>14 DEF Next, PlayStep
-----------------------------------------------------------------------------
(* Runs of igpping.py that share the cost files.                           *)

LEMMA OverUsable ==
    ASSUME NEW c \in MinCost..MaxCost
    PROVE  /\ Usable(c)
           /\ Over(Empty, c) = c
           /\ \A old : Usable(Over(old, c)) \/ Over(old, c) = Torn
BY CostRange DEF Over, Usable

LEMMA BeginRun ==
    ASSUME TypeInv, NEW w \in Writer, Begin(w)
    PROVE  /\ run'[w].step = "ping" /\ run'[w].todo = hosts /\ run'[w].open = {}
           /\ run'[w].clean <=> \A v \in Writer : v # w => run[v].step = "idle"
           /\ \A v \in Writer : v # w =>
                 /\ run'[v].step = run[v].step
                 /\ run'[v].todo = run[v].todo /\ run'[v].open = run[v].open
                 /\ run'[v].clean <=> run[v].step = "idle"
BY DEF Begin, TypeInv, Runs

LEMMA EndRunRun ==
    ASSUME TypeInv, NEW w \in Writer, EndRun(w)
    PROVE  /\ run'[w].step = "idle" /\ run'[w].todo = {} /\ run'[w].open = {}
           /\ \A v \in Writer : v # w => run'[v] = run[v]
BY DEF EndRun, NoRun, TypeInv

LEMMA OpenRun ==
    ASSUME TypeInv, NEW w \in Writer, Open(w)
    PROVE  \E h \in run[w].todo :
              /\ h \in Neighbour
              /\ run'[w].step = "write" /\ run'[w].todo = run[w].todo \ {h}
              /\ run'[w].open = {h} /\ run'[w].clean = run[w].clean
              /\ \A v \in Writer : v # w => run'[v] = run[v]
              /\ cost' = [cost EXCEPT ![h] = Empty]
<1>1. PICK h \in run[w].todo :
         /\ run' = [run EXCEPT ![w].open = {h}, ![w].todo = run[w].todo \ {h}]
         /\ cost' = [cost EXCEPT ![h] = Empty]
  BY DEF Open
<1>2. h \in Neighbour /\ run[w].step = "write"
  BY DEF TypeInv, Runs, Open
<1>3. run[w] \in Runs
  BY DEF TypeInv
<1>4. /\ run'[w].step = "write" /\ run'[w].todo = run[w].todo \ {h}
      /\ run'[w].open = {h} /\ run'[w].clean = run[w].clean
  BY <1>1, <1>2, <1>3 DEF TypeInv, Runs
<1>5. \A v \in Writer : v # w => run'[v] = run[v]
  BY <1>1 DEF TypeInv
<1> QED BY <1>1, <1>2, <1>4, <1>5

LEMMA TemplateHostsRun ==
    ASSUME TypeInv, PlayInv, TemplateHosts
    PROVE  /\ \A w \in Writer :
                 /\ run'[w].step = run[w].step
                 /\ run'[w].todo = run[w].todo /\ run'[w].open = run[w].open
                 /\ (run'[w].clean /\ run[w].step # "idle")
                    => run[w].clean /\ hosts' = hosts
           /\ run["play"].step = "idle"
<1>1. PICK b \in BOOLEAN :
         /\ b = (run["cron"].step = "idle" \/ (run["cron"].clean /\ hosts = wanted))
         /\ run' = [run EXCEPT !["cron"].clean = b]
  <2>1. (run["cron"].step = "idle" \/ (run["cron"].clean /\ hosts = wanted)) \in BOOLEAN
    OBVIOUS
  <2> QED BY <2>1, Zenon DEF TemplateHosts
<1>2. run["play"].step = "idle"
  BY DEF TemplateHosts, PlayInv, At, TypeInv, Runs, Writer
<1>3. \A w \in Writer : /\ run'[w].step = run[w].step
                        /\ run'[w].todo = run[w].todo /\ run'[w].open = run[w].open
  BY <1>1 DEF TypeInv, Runs
<1>4. run'["cron"].clean = b
  BY <1>1 DEF TypeInv, Runs, Writer
<1>5. hosts' = wanted
  BY DEF TemplateHosts
<1> QED BY <1>1, <1>2, <1>3, <1>4, <1>5 DEF Writer

(* What each run may rely on is kept by its own steps and the other's.     *)
LEMMA RunStepInv ==
    ASSUME TypeInv, PlayInv, RunInv, [Next]_vars
    PROVE  RunInv'
<1>1. ASSUME UNCHANGED <<cost, hosts, run>> PROVE RunInv'
  BY <1>1 DEF RunInv, IdleRun, Alone, Covers, Truncated
<1>2. ASSUME NEW w \in Writer, Begin(w), UNCHANGED <<cost, hosts>>, run[w].step = "idle"
      PROVE  RunInv'
  <2>1. IdleRun(w)' /\ Alone(w)' /\ Covers(w)' /\ Truncated(w)'
    BY <1>2, BeginRun DEF IdleRun, Alone, Covers, Truncated
  <2>2. ASSUME NEW v \in Writer, v # w
        PROVE  IdleRun(v)' /\ Alone(v)' /\ Covers(v)' /\ Truncated(v)'
    BY <1>2, <2>2, BeginRun DEF RunInv, IdleRun, Alone, Covers, Truncated
  <2> QED BY <2>1, <2>2 DEF RunInv
<1>3. ASSUME NEW w \in Writer, EndRun(w), UNCHANGED <<cost, hosts>>
      PROVE  RunInv'
  <2>1. IdleRun(w)' /\ Alone(w)' /\ Covers(w)' /\ Truncated(w)'
    BY <1>3, EndRunRun DEF IdleRun, Alone, Covers, Truncated
  <2>2. ASSUME NEW v \in Writer, v # w
        PROVE  IdleRun(v)' /\ Alone(v)' /\ Covers(v)' /\ Truncated(v)'
    BY <1>3, <2>2, EndRunRun DEF RunInv, IdleRun, Alone, Covers, Truncated
  <2> QED BY <2>1, <2>2 DEF RunInv
<1>4. CASE TemplateHosts
  <2> SUFFICES ASSUME NEW w \in Writer
               PROVE  IdleRun(w)' /\ Alone(w)' /\ Covers(w)' /\ Truncated(w)'
    BY DEF RunInv
  <2>1. cost' = cost
    BY <1>4 DEF TemplateHosts
  <2>2. IdleRun(w)' /\ Alone(w)' /\ Covers(w)'
    BY <1>4, <2>1, TemplateHostsRun DEF RunInv, IdleRun, Alone, Covers
  <2>3. Truncated(w)'
    BY <1>4, <2>1, TemplateHostsRun DEF RunInv, IdleRun, Truncated
  <2> QED BY <2>2, <2>3
<1>5. ASSUME NEW w \in Writer, Ping(w) PROVE RunInv'
  <2>1. UNCHANGED <<cost, hosts>> /\ run[w].step = "ping"
    BY <1>5 DEF Ping
  <2>2. IdleRun(w)' /\ Alone(w)' /\ Covers(w)' /\ Truncated(w)'
    BY <1>5, <2>1, PingRun DEF RunInv, IdleRun, Alone, Covers, Truncated
  <2>3. ASSUME NEW v \in Writer, v # w
        PROVE  IdleRun(v)' /\ Alone(v)' /\ Covers(v)' /\ Truncated(v)'
    BY <1>5, <2>1, <2>3, PingRun DEF RunInv, IdleRun, Alone, Covers, Truncated
  <2> QED BY <2>2, <2>3 DEF RunInv
<1>6. ASSUME NEW w \in Writer, Open(w) PROVE RunInv'
  <2>1. hosts' = hosts /\ run[w].step = "write" /\ run[w].open = {}
    BY <1>6 DEF Open
  <2>2. PICK h \in run[w].todo :
              /\ h \in Neighbour
              /\ run'[w].step = "write" /\ run'[w].todo = run[w].todo \ {h}
              /\ run'[w].open = {h} /\ run'[w].clean = run[w].clean
              /\ \A v \in Writer : v # w => run'[v] = run[v]
              /\ cost' = [cost EXCEPT ![h] = Empty]
    BY <1>6, OpenRun
  <2>3. /\ cost'[h] = Empty
        /\ \A g \in Neighbour : g # h => cost'[g] = cost[g]
    BY <2>2 DEF TypeInv
  <2>4. IdleRun(w)' /\ Alone(w)' /\ Truncated(w)'
    BY <2>1, <2>2, <2>3 DEF RunInv, IdleRun, Alone, Truncated
  <2>5. Covers(w)'
    BY <2>1, <2>2, <2>3 DEF RunInv, Covers, TypeInv
  <2>6. ASSUME NEW v \in Writer, v # w
        PROVE  IdleRun(v)' /\ Alone(v)' /\ Covers(v)' /\ Truncated(v)'
    <3>1. run'[v] = run[v] /\ IdleRun(v) /\ Alone(v)
      BY <2>2, <2>6 DEF RunInv
    <3>2. run[v].step = "idle" \/ ~run[v].clean
      BY <2>1, <2>6, <3>1 DEF Alone
    <3>3. Truncated(v)
      BY <2>6 DEF RunInv
    <3>4. IdleRun(v)' /\ Alone(v)' /\ Covers(v)'
      BY <3>1, <3>2 DEF IdleRun, Alone, Covers
    <3>5. Truncated(v)'
      BY <3>1, <3>2, <3>3 DEF IdleRun, Truncated
    <3> QED BY <3>4, <3>5
  <2> QED BY <2>4, <2>5, <2>6 DEF RunInv
<1>7. ASSUME NEW w \in Writer, Flush(w) PROVE RunInv'
  <2>1. hosts' = hosts /\ run[w].step = "write"
    BY <1>7 DEF Flush
  <2>2. PICK h \in run[w].open, c \in MinCost..MaxCost :
          cost' = [cost EXCEPT ![h] = Over(cost[h], c)]
    BY <1>7, FlushCost
  <2>3. h \in Neighbour
    BY DEF TypeInv, Runs
  <2>4. /\ cost'[h] = Over(cost[h], c)
        /\ \A g \in Neighbour : g # h => cost'[g] = cost[g]
    BY <2>2, <2>3 DEF TypeInv
  <2>5. IdleRun(w)' /\ Alone(w)' /\ Truncated(w)'
    BY <1>7, <2>1, FlushRun DEF RunInv, IdleRun, Alone, Truncated
  <2>6. run[w].clean => Usable(cost'[h])
    BY <2>4, OverUsable DEF RunInv, Truncated
  <2>7. ASSUME run[w].clean PROVE \A g \in run[w].open : Usable(cost'[g])
    BY <2>2, <2>6, <2>7 DEF RunInv, Truncated
  <2>8. Covers(w)'
    BY <1>7, <2>1, <2>4, <2>7, FlushRun DEF RunInv, Covers, TypeInv
  <2>9. ASSUME NEW v \in Writer, v # w
        PROVE  IdleRun(v)' /\ Alone(v)' /\ Covers(v)' /\ Truncated(v)'
    <3>1. run'[v] = run[v] /\ IdleRun(v) /\ Alone(v)
      BY <1>7, <2>9, FlushRun DEF RunInv
    <3>2. run[v].step = "idle" \/ ~run[v].clean
      BY <2>1, <2>9, <3>1 DEF Alone
    <3>3. Truncated(v)
      BY <2>9 DEF RunInv
    <3>4. IdleRun(v)' /\ Alone(v)' /\ Covers(v)'
      BY <3>1, <3>2 DEF IdleRun, Alone, Covers
    <3>5. Truncated(v)'
      BY <3>1, <3>2, <3>3 DEF IdleRun, Truncated
    <3> QED BY <3>4, <3>5
  <2> QED BY <2>5, <2>8, <2>9 DEF RunInv
<1> QED
  BY <1>1, <1>2, <1>3, <1>4, <1>5, <1>6, <1>7
  DEF Next, PlayStep, RunStep, vars, StartBird, TemplateBird, WriteBird, Bootstrap,
      Bootstrapped, InstallCron, Handler, Abort, CronStart, CronPinged, CronReload,
      CronFails, Edit, Writer
(* A cost file that BIRD could not include is on some run's list.          *)
LEMMA CostStep ==
    ASSUME TypeInv, PlayInv, RunInv, CostInv, [Next]_vars
    PROVE  CostInv'
<1> DEFINE Fine(h) == \/ Usable(cost[h])
                      \/ At("bootstrap") /\ play.changed
                      \/ h \in run["play"].todo \/ h \in run["play"].open
                      \/ h \in run["cron"].open
<1> USE DEF Writer
<1> SUFFICES ASSUME ~broken', NEW h \in hosts' PROVE Fine(h)'
  BY DEF CostInv
<1>1. h \in Neighbour
  <2>1. TypeInv'
    BY TypeStep
  <2> QED BY <2>1 DEF TypeInv
<1>2. ASSUME UNCHANGED <<cost, hosts, run, broken>>, ~At("bootstrap") \/ ~play.changed
      PROVE  Fine(h)'
  BY <1>2 DEF CostInv
<1>3. ASSUME UNCHANGED <<cost, hosts, run, broken, play>>
      PROVE  Fine(h)'
  BY <1>3 DEF CostInv, At
<1>4. CASE TemplateHosts
  <2>1. CASE hosts = wanted
    <3>1. h \in hosts /\ ~broken /\ cost' = cost /\ At("idle")
      BY <1>4, <2>1 DEF TemplateHosts
    <3>2. \A w \in Writer : run'[w].todo = run[w].todo /\ run'[w].open = run[w].open
      BY <1>4, TemplateHostsRun
    <3> QED BY <3>1, <3>2 DEF CostInv, At
  <2>2. CASE hosts # wanted
    <3>1. play' = [play EXCEPT !.task = "bootstrap", !.changed = TRUE]
      BY <1>4, <2>2, Zenon DEF TemplateHosts
    <3> QED BY <3>1 DEF At, TypeInv, Plays
  <2> QED BY <2>1, <2>2
<1>5. CASE StartBird \/ TemplateBird
  BY <1>2, <1>5 DEF StartBird, TemplateBird, WriteBird, At
<1>6. CASE Bootstrap
  <2>1. CASE play.changed
    <3>1. run'["play"].todo = hosts /\ hosts' = hosts
      BY <1>6, <2>1, BeginRun DEF Bootstrap
    <3> QED BY <3>1
  <2>2. CASE ~play.changed
    BY <1>2, <1>6, <2>2 DEF Bootstrap
  <2> QED BY <2>1, <2>2
<1>7. CASE Bootstrapped
  <2>1. /\ run["play"].step = "write" /\ run["play"].todo = {} /\ run["play"].open = {}
        /\ hosts' = hosts /\ cost' = cost /\ ~At("bootstrap")
        /\ broken' = (broken /\ ~run["play"].clean)
    BY <1>7 DEF Bootstrapped, Exited, At
  <2>2. run'["cron"] = run["cron"]
    BY <1>7, EndRunRun DEF Bootstrapped
  <2>3. CASE broken
    BY <2>1, <2>3 DEF RunInv, Covers
  <2>4. CASE ~broken
    BY <2>1, <2>2, <2>4 DEF CostInv
  <2> QED BY <2>3, <2>4
<1>8. CASE InstallCron
  BY <1>2, <1>8 DEF InstallCron, At
<1>9. CASE Handler
  BY <1>2, <1>9 DEF Handler, At
<1>10. CASE Abort
  <2>1. ~broken /\ ~play.changed /\ hosts' = hosts /\ cost' = cost
    BY <1>10 DEF Abort
  <2>2. run["play"].todo = {} /\ run["play"].open = {}
    BY <2>1 DEF PlayInv, RunInv, IdleRun
  <2>3. run'["cron"] = run["cron"]
    BY <1>10, EndRunRun DEF Abort
  <2> QED BY <2>1, <2>2, <2>3 DEF CostInv
<1>11. CASE CronStart
  <2>1. /\ ~broken /\ hosts' = hosts /\ cost' = cost /\ play' = play
        /\ run["cron"].step = "idle"
    BY <1>11 DEF CronStart
  <2>2. run'["play"].todo = run["play"].todo /\ run'["play"].open = run["play"].open
    BY <1>11, BeginRun DEF CronStart
  <2>3. run["cron"].open = {}
    BY <2>1 DEF RunInv, IdleRun
  <2> QED BY <2>1, <2>2, <2>3 DEF CostInv, At
<1>12. CASE CronPinged
  <2>1. /\ run["cron"].step = "write" /\ run["cron"].todo = {} /\ run["cron"].open = {}
        /\ hosts' = hosts /\ cost' = cost /\ play' = play
        /\ broken' = (broken /\ ~run["cron"].clean)
    BY <1>12 DEF CronPinged, Exited
  <2>2. run'["play"] = run["play"]
    BY <1>12, EndRunRun DEF CronPinged
  <2>3. CASE broken
    BY <2>1, <2>3 DEF RunInv, Covers
  <2>4. CASE ~broken
    BY <2>1, <2>2, <2>4 DEF CostInv, At
  <2> QED BY <2>3, <2>4
<1>13. CASE CronReload
  BY <1>3, <1>13 DEF CronReload
<1>14. CASE CronFails
  <2>1. /\ ~broken /\ run["cron"].open = {} /\ hosts' = hosts /\ cost' = cost /\ play' = play
    BY <1>14 DEF CronFails
  <2>2. run'["play"] = run["play"]
    BY <1>14, EndRunRun DEF CronFails
  <2> QED BY <2>1, <2>2 DEF CostInv, At
<1>15. ASSUME NEW w \in Writer, Ping(w) PROVE Fine(h)'
  <2>1. \A v \in Writer : run'[v].todo = run[v].todo /\ run'[v].open = run[v].open
    BY <1>15, PingRun
  <2>2. UNCHANGED <<cost, hosts, play, broken>>
    BY <1>15 DEF Ping
  <2> QED BY <2>1, <2>2 DEF CostInv, At
<1>16. ASSUME NEW w \in Writer, Open(w) PROVE Fine(h)'
  <2>1. UNCHANGED <<hosts, play, broken>> /\ run[w].open = {}
    BY <1>16 DEF Open
  <2>2. PICK g \in run[w].todo :
              /\ g \in Neighbour
              /\ run'[w].step = "write" /\ run'[w].todo = run[w].todo \ {g}
              /\ run'[w].open = {g} /\ run'[w].clean = run[w].clean
              /\ \A v \in Writer : v # w => run'[v] = run[v]
              /\ cost' = [cost EXCEPT ![g] = Empty]
    BY <1>16, OpenRun
  <2>3. CASE h = g
    BY <2>2, <2>3
  <2>4. CASE h # g
    <3>1. cost'[h] = cost[h]
      BY <1>1, <2>2, <2>4 DEF TypeInv
    <3>2. Fine(h)
      BY <2>1 DEF CostInv
    <3> QED BY <2>1, <2>2, <2>4, <3>1, <3>2 DEF At
  <2> QED BY <2>3, <2>4
<1>17. ASSUME NEW w \in Writer, Flush(w) PROVE Fine(h)'
  <2>1. UNCHANGED <<hosts, play>>
    BY <1>17 DEF Flush
  <2>2. PICK g \in run[w].open, c \in MinCost..MaxCost :
          /\ cost' = [cost EXCEPT ![g] = Over(cost[g], c)]
          /\ broken' = (broken \/ cost'[g] = Torn)
    BY <1>17, FlushCost
  <2>3. g \in Neighbour
    BY DEF TypeInv, Runs
  <2>4. CASE h = g
    BY <2>2, <2>3, <2>4, OverUsable DEF TypeInv
  <2>5. CASE h # g
    <3>1. cost'[h] = cost[h]
      BY <1>1, <2>2, <2>5 DEF TypeInv
    <3>2. Fine(h)
      BY <2>1, <2>2 DEF CostInv
    <3>3. h \notin run[w].open
      BY <2>5 DEF RunInv, Truncated
    <3>4. run'[w].todo = run[w].todo /\ \A v \in Writer : v # w => run'[v] = run[v]
      BY <1>17, FlushRun
    <3> QED BY <2>1, <3>1, <3>2, <3>3, <3>4 DEF At
  <2> QED BY <2>4, <2>5
<1>18. CASE Edit
  BY <1>3, <1>18 DEF Edit
<1>19. CASE UNCHANGED vars
  BY <1>3, <1>19 DEF vars
<1> QED BY <1>4, <1>5, <1>6, <1>7, <1>8, <1>9, <1>10, <1>11, <1>12, <1>13, <1>14,
           <1>15, <1>16, <1>17, <1>18, <1>19 DEF Next, PlayStep, RunStep

-----------------------------------------------------------------------------
(* The theorems.                                                           *)

LEMMA InitInv == Init => IInv
<1> SUFFICES ASSUME Init PROVE IInv
  OBVIOUS
<1>1. running \in Partial(MinCost..MaxCost) /\ DOMAIN running = {}
  BY EmptyPartial DEF Init, None
<1>2. run \in [Writer -> Runs]
  BY NoRunType DEF Init
<1>3. TypeInv
  BY <1>1, <1>2 DEF Init, TypeInv, CostFile, Plays, NoPlay
<1>4. PlayInv
  BY DEF Init, PlayInv, NoPlay, NoRun, At, Writer
<1>5. ConfInv
  BY <1>1 DEF Init, ConfInv
<1>6. RunInv
  BY DEF Init, RunInv, IdleRun, Alone, Covers, Truncated, NoRun
<1>7. CostInv
  BY DEF Init, CostInv
<1> QED BY <1>3, <1>4, <1>5, <1>6, <1>7 DEF IInv

THEOREM Inductive == Spec => []IInv
<1>1. IInv /\ [Next]_vars => IInv'
  BY TypeStep, PlayStepInv, ConfStep, RunStepInv, CostStep DEF IInv
<1> QED BY <1>1, InitInv, PTL DEF Spec

(* Every variable keeps its type, the costs in the files and in BIRD those *)
(* that OSPF knows.                                                        *)
THEOREM TypeCorrect == Spec => []TypeOK
<1>1. IInv => TypeOK
  <2> SUFFICES ASSUME TypeInv PROVE TypeOK
    BY DEF IInv
  <2>1. DOMAIN running \subseteq Neighbour /\ \A h \in DOMAIN running : running[h] \in MinCost..MaxCost
    BY PartialElim DEF TypeInv
  <2>2. DOMAIN cost = Neighbour /\ \A h \in Neighbour : cost[h] \in {Missing, Empty, Torn} \/ cost[h] \in MinCost..MaxCost
    BY DEF TypeInv, CostFile
  <2> QED BY <2>1, <2>2 DEF TypeInv, TypeOK, Plays, Runs
<1> QED BY <1>1, Inductive, PTL

(* No reload is ever forgotten but by a play that stops early or a reload  *)
(* that BIRD refuses.                                                      *)
THEOREM IdleAlwaysRunsConf == Spec => []IdleRunsConf
<1>1. IInv => IdleRunsConf
  BY DEF IInv, PlayInv, ConfInv, IdleRunsConf, At
<1> QED BY <1>1, Inductive, PTL

(* Every neighbour that is pinged has a cost that BIRD can include, unless *)
(* a run was cut short, skipped, or met another over one file.             *)
THEOREM CostsAlwaysInPlace == Spec => []CostsInPlace
<1>1. IInv => CostsInPlace
  BY DEF IInv, RunInv, IdleRun, CostInv, CostsInPlace, Writer
<1> QED BY <1>1, Inductive, PTL

(* With room below the fallback, an answer is always worth more than none. *)
THEOREM SilentAlwaysWorst == Spec => []SilentIsWorst
<1>1. IInv => SilentIsWorst
  <2> SUFFICES ASSUME TypeInv, NEW w \in Writer,
                      NEW g \in DOMAIN run[w].lines, NEW h \in DOMAIN run[w].lines,
                      run[w].lines[g].answers > 0, run[w].lines[h].answers = 0
               PROVE  CostOf(calc_costs(run[w].lines), g) < CostOf(calc_costs(run[w].lines), h)
    BY DEF IInv, SilentIsWorst
  <2>1. run[w].lines[g] \in Line
    <3>1. run[w].lines \in Partial(Lines)
      BY DEF TypeInv, Runs
    <3> QED BY <3>1, PartialElim, LinesAssumption
  <2>2. CostOf(calc_costs(run[w].lines), g) = Measured(run[w].lines[g])
    BY DEF CostOf, calc_costs
  <2>3. CostOf(calc_costs(run[w].lines), h) = FallbackCost
    BY DEF CostOf, calc_costs
  <2> QED BY <2>1, <2>2, <2>3, MeasuredCheap
<1> QED BY <1>1, Inductive, PTL
=============================================================================
