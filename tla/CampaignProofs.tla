--------------------------- MODULE CampaignProofs ---------------------------
(***************************************************************************)
(* Proofs about the two things run.sh is responsible for: the campaign     *)
(* (Testbed), for every number of runs, list of conditions and number of   *)
(* campaigns, and the difference of two counter dumps that it records of a *)
(* run (PerCpuCounters), for any number of CPUs, counters and frames.      *)
(***************************************************************************)
EXTENDS Testbed, PerCpuCounters, SequenceTheorems, WellFoundedInduction,
        NaturalsInduction, TLAPS

-----------------------------------------------------------------------------
(* Testbed *)

\* The files of the i-th condition's r-th run.
At(r, i) == <<CONDITIONS[i], r>>

\* The script is inside the body of its two loops.
InRun == pc \in {"spawn", "ready", "talk", "wait", "publish", "grep"}

\* Run r of condition i comes before, or after, the one the script is at.
Before(r, i) == r < run \/ (r = run /\ i < ci)
After(r, i) == r > run \/ (r = run /\ i > ci)

OrphanFiles == Cells \X Nat \X {"ready", "csv"}

TypeOK ==
    /\ camp \in Nat /\ camp > 0
    /\ pc \in {"setup", "trap", "loop", "spawn", "ready", "talk", "wait",
               "publish", "grep"} \cup Exits
    /\ run \in Nat \ {0}
    /\ ci \in Nat \ {0} /\ (ci = 1 \/ ci <= Len(CONDITIONS))
    /\ havePrio \in BOOLEAN /\ trapped \in BOOLEAN
    /\ topology \in {"up", "down"} /\ clsf \in BOOLEAN
    /\ sink \in {"off", "on"} /\ flood \in {"off", "on"}
    /\ listener \in {"off", "start", "recv", "printed"}
    /\ got \in BOOLEAN /\ summarised \in BOOLEAN
    /\ ready \in [Cells -> BOOLEAN]
    /\ results \in [Cells -> Nat] /\ out \in [Cells -> Nat]
    /\ missing \in SUBSET Cells
    /\ orphans \subseteq OrphanFiles

\* Where the loop variables are: a run is in progress only for a condition
\* of the list that is not skipped, and a listener belongs to such a run.
LoopInv ==
    /\ pc \in {"setup", "trap"} => run = 1 /\ ci = 1
    /\ InRun => InLoop /\ (havePrio \/ cond \notin Prio)
    /\ listener # "off" => InLoop
    /\ pc = "done" => ~InLoop

\* What stands at the bottleneck, and when the trap is set.
BottleneckInv ==
    /\ InRun \/ pc \in {"trap", "loop"} => topology = "up"
    /\ InRun => qdisc = cond /\ (clsf <=> cond \in Clsf)
    /\ InRun \/ pc = "loop" => trapped
    /\ pc \in Exits /\ trapped => topology = "down"

\* No background process outlives its run, unless the script is cut short.
ProcInv ==
    pc \in {"setup", "trap", "loop", "spawn", "publish", "grep", "done"} =>
        sink = "off" /\ flood = "off" /\ listener = "off"

\* In the first campaign nobody else writes, ...
AloneInv ==
    camp = 1 => /\ orphans = {}
                /\ \A x \in Cells : results[x] \in {0, 1}

\* ... every run the script is past has been published or logged, ...
PastInv ==
    camp = 1 =>
        /\ pc = "grep" => Fresh(cell)
        /\ \A r \in 1 .. RUNS, i \in DOMAIN CONDITIONS :
              Before(r, i) /\ (havePrio \/ CONDITIONS[i] \notin Prio)
                  => Fresh(At(r, i))

\* ... and no run that the script has yet to reach, or whose listener has yet
\* to bind, has a ready file.
AheadInv ==
    camp = 1 =>
        /\ \A r \in 1 .. RUNS, i \in DOMAIN CONDITIONS :
              After(r, i) => ~ready[At(r, i)]
        /\ InLoop /\ (pc \in {"setup", "trap", "loop", "spawn"} \/ listener = "start")
              => ~ready[cell]
        /\ pc = "talk" => listener # "start"

Inv == TypeOK /\ LoopInv /\ BottleneckInv /\ ProcInv /\ AloneInv /\ PastInv

-----------------------------------------------------------------------------
(* The loop body works on one of the campaign's cells. *)

\* The script's position names a cell while it is inside its loops.
LEMMA CellIsCell ==
    ASSUME InLoop, TypeOK
    PROVE  cond \in Conds /\ cell \in Cells
  BY DEF InLoop, TypeOK, cond, cell, Conds, Cells

\* Every position of the nested loops names a cell, and every cell has one.
LEMMA CellsAreAt ==
    /\ \A r \in 1 .. RUNS, i \in DOMAIN CONDITIONS : At(r, i) \in Cells
    /\ \A x \in Cells : \E r \in 1 .. RUNS, i \in DOMAIN CONDITIONS :
           x = At(r, i) /\ x[1] = CONDITIONS[i]
  BY DEF At, Conds, Cells

\* Moving on keeps the loop variables in range, and puts exactly the position
\* that was left behind the new one.
LEMMA AdvanceMoves ==
    ASSUME TypeOK, InLoop, Advance
    PROVE  /\ run' \in Nat \ {0} /\ ci' \in Nat \ {0}
           /\ ci' = 1 \/ ci' <= Len(CONDITIONS)
           /\ \A r \in 1 .. RUNS, i \in DOMAIN CONDITIONS :
                 /\ Before(r, i)' <=> Before(r, i) \/ (r = run /\ i = ci)
                 /\ After(r, i)' \/ (r = run' /\ i = ci') <=> After(r, i)
  <1> USE TestbedAssumption
  <1>1. Len(CONDITIONS) \in Nat /\ DOMAIN CONDITIONS = 1 .. Len(CONDITIONS)
    OBVIOUS
  <1>2. CASE ci = Len(CONDITIONS)
    BY <1>1, <1>2 DEF TypeOK, InLoop, Advance, Before, After
  <1>3. CASE ci # Len(CONDITIONS)
    <2>1. /\ run' = run /\ ci' = ci + 1
          /\ run \in Nat \ {0} /\ ci \in 1 .. Len(CONDITIONS)
      BY <1>1, <1>3 DEF TypeOK, InLoop, Advance
    <2>2. ci' <= Len(CONDITIONS)
      <3> HIDE TestbedAssumption
      <3>1. PICK n \in Nat : n = Len(CONDITIONS)
        BY <1>1
      <3>2. ci \in 1 .. n /\ ci # n
        BY <1>3, <2>1, <3>1
      <3>3. ci + 1 <= n
        BY <3>2
      <3>4. QED
        BY <2>1, <3>1, <3>3
    <2>3. \A r \in 1 .. RUNS, i \in 1 .. Len(CONDITIONS) :
             /\ Before(r, i)' <=> Before(r, i) \/ (r = run /\ i = ci)
             /\ After(r, i)' \/ (r = run' /\ i = ci') <=> After(r, i)
      BY <1>1, <2>1 DEF Before, After
    <2>4. QED
      BY <1>1, <2>1, <2>2, <2>3
  <1>4. QED
    BY <1>2, <1>3

\* The initial state satisfies the invariant.
LEMMA InitInv ==
    ASSUME Init
    PROVE  Inv /\ AheadInv
  <1> USE TestbedAssumption DEF Init
  <1>1. TypeOK
    <2>1. /\ ready \in [Cells -> BOOLEAN]
          /\ results \in [Cells -> Nat] /\ out \in [Cells -> Nat]
          /\ missing \subseteq Cells /\ orphans \subseteq OrphanFiles
      OBVIOUS
    <2>2. QED
      <3>1. /\ camp \in Nat /\ camp > 0
            /\ run \in Nat \ {0} /\ ci \in Nat \ {0} /\ ci = 1
        OBVIOUS
      <3>2. /\ havePrio \in BOOLEAN /\ trapped \in BOOLEAN /\ clsf \in BOOLEAN
            /\ got \in BOOLEAN /\ summarised \in BOOLEAN
        OBVIOUS
      <3>3. QED
        BY <2>1, <3>1, <3>2 DEF TypeOK
  <1>2. LoopInv /\ BottleneckInv /\ ProcInv
    BY DEF LoopInv, BottleneckInv, ProcInv, InRun, Exits
  <1>3. AloneInv /\ PastInv
    <2>1. AloneInv
      BY DEF AloneInv
    <2>2. \A r \in 1 .. RUNS, i \in 1 .. Len(CONDITIONS) : ~Before(r, i)
      BY DEF Before
    <2>3. QED
      BY <2>1, <2>2 DEF PastInv
  <1>4. AheadInv
    BY <1>1, CellsAreAt, CellIsCell DEF AheadInv
  <1>5. QED
    BY <1>1, <1>2, <1>3, <1>4 DEF Inv

\* Every way out of the script keeps the variables well typed.
LEMMA ExitTypes ==
    ASSUME TypeOK, NEW why \in Exits, Exit(why),
           UNCHANGED <<loop, procs, files, orphans>>
    PROVE  TypeOK'
  <1>1. topology' \in {"up", "down"} /\ clsf' \in BOOLEAN
    BY DEF Exit, down, bottleneck, TypeOK
  <1>2. pc' \in Exits
    BY DEF Exit
  <1>3. QED
    BY <1>1, <1>2 DEF TypeOK, loop, procs, files

\* Every step keeps the variables well typed.
LEMMA TypeOKNext ==
    ASSUME Inv, [Next]_vars
    PROVE  TypeOK'
  <1> USE TestbedAssumption DEF Inv, TypeOK, Exits, loop, bottleneck, procs, files
  <1>a. listener # "off" \/ InRun => cell \in Cells
    BY CellIsCell DEF LoopInv
  <1>1. CASE Setup
    BY <1>1 DEF Setup, up
  <1>2. CASE SetTrap
    BY <1>2 DEF SetTrap
  <1>3. CASE Skip
    BY <1>3, AdvanceMoves DEF Skip, Advance
  <1>4. CASE Done
    BY <1>4, ExitTypes DEF Done
  <1>5. CASE apply_condition
    BY <1>5 DEF apply_condition
  <1>6. CASE Spawn
    BY <1>6 DEF Spawn
  <1>7. CASE wait_file
    BY <1>7 DEF wait_file
  <1>8. CASE WaitFails
    BY <1>8, ExitTypes DEF WaitFails
  <1>9. CASE TalkerEnds
    BY <1>9 DEF TalkerEnds
  <1>10. CASE Collect
    BY <1>10 DEF Collect, StopSink
  <1>11. CASE Publish
    <2>1. cell \in Cells
      BY <1>11, <1>a DEF Publish, InRun
    <2>2. QED
      BY <1>11, <2>1 DEF Publish
  <1>12. CASE Grep
    <2>1. InLoop
      BY <1>12 DEF Grep, LoopInv, InRun
    <2>2. QED
      BY <1>12, <2>1, AdvanceMoves DEF Grep
  <1>13. CASE GrepFails
    BY <1>13, ExitTypes DEF GrepFails
  <1>14. CASE Abort
    BY <1>14, ExitTypes DEF Abort
  <1>15. CASE Restart
    <2>1. LeftToWrite \subseteq OrphanFiles
      BY <1>a DEF LeftToWrite, OrphanFiles
    <2>2. orphans' \subseteq OrphanFiles
      BY <1>15, <2>1 DEF Restart
    <2>3. QED
      <3>1. /\ camp' \in Nat /\ camp' > 0
            /\ run' \in Nat \ {0} /\ ci' \in Nat \ {0} /\ ci' = 1
        BY <1>15 DEF Restart
      <3>2. /\ havePrio' \in BOOLEAN /\ trapped' \in BOOLEAN /\ clsf' \in BOOLEAN
            /\ got' \in BOOLEAN /\ summarised' \in BOOLEAN
        BY <1>15 DEF Restart
      <3>3. missing' \in SUBSET Cells
        BY <1>15 DEF Restart
      <3>4. QED
        BY <1>15, <2>2, <3>1, <3>2, <3>3 DEF Restart
  <1>16. CASE FloodEnds
    BY <1>16 DEF FloodEnds
  <1>17. CASE ListenerBinds
    BY <1>17, <1>a DEF ListenerBinds
  <1>18. CASE ListenerPrints
    BY <1>18 DEF ListenerPrints
  <1>19. CASE ListenerWrites
    BY <1>19, <1>a DEF ListenerWrites
  <1>20. CASE ListenerReceives
    BY <1>20 DEF ListenerReceives
  <1>21. CASE ListenerDies
    <2>1. summarised' \in BOOLEAN
      BY <1>21 DEF ListenerDies
    <2>2. QED
      BY <1>21, <2>1 DEF ListenerDies
  <1>22. ASSUME NEW o \in orphans, OrphanBinds(o) \/ OrphanWrites(o) PROVE TypeOK'
    <2>1. orphans' \subseteq OrphanFiles /\ o[1] \in Cells /\ o[2] \in Nat
      BY <1>22 DEF OrphanBinds, OrphanWrites, OrphanFiles
    <2>2. ready' \in [Cells -> BOOLEAN] /\ results' \in [Cells -> Nat]
      BY <1>22, <2>1 DEF OrphanBinds, OrphanWrites
    <2>3. UNCHANGED <<pc, loop, bottleneck, procs, out, missing>>
      BY <1>22, Zenon DEF OrphanBinds, OrphanWrites
    <2>4. QED
      BY <2>1, <2>2, <2>3
  <1>23. CASE UNCHANGED vars
    BY <1>23 DEF vars
  <1>24. QED
    BY <1>1, <1>2, <1>3, <1>4, <1>5, <1>6, <1>7, <1>8, <1>9, <1>10, <1>11,
       <1>12, <1>13, <1>14, <1>15, <1>16, <1>17, <1>18, <1>19, <1>20, <1>21,
       <1>22, <1>23
       DEF Next, Script, Background

\* Every step keeps the loop variables where the code has them.
LEMMA LoopInvNext ==
    ASSUME Inv, [Next]_vars
    PROVE  LoopInv'
  <1> USE DEF Inv, LoopInv, InRun, InLoop, cond, Exits, ProcInv, TypeOK,
              loop, bottleneck, procs, files
  <1>1. CASE Setup
    BY <1>1 DEF Setup, up
  <1>2. CASE SetTrap
    BY <1>2 DEF SetTrap
  <1>3. CASE Skip
    BY <1>3 DEF Skip, Advance
  <1>4. CASE Done
    BY <1>4 DEF Done, Exit, down
  <1>5. CASE apply_condition
    BY <1>5 DEF apply_condition
  <1>6. CASE Spawn
    BY <1>6 DEF Spawn
  <1>7. CASE wait_file
    BY <1>7 DEF wait_file
  <1>8. CASE WaitFails
    BY <1>8 DEF WaitFails, Exit, down
  <1>9. CASE TalkerEnds
    BY <1>9 DEF TalkerEnds
  <1>10. CASE Collect
    BY <1>10 DEF Collect, StopSink
  <1>11. CASE Publish
    BY <1>11 DEF Publish
  <1>12. CASE Grep
    BY <1>12 DEF Grep, Advance
  <1>13. CASE GrepFails
    BY <1>13 DEF GrepFails, Exit, down
  <1>14. CASE Abort
    BY <1>14 DEF Abort, Exit, down
  <1>15. CASE Restart
    BY <1>15 DEF Restart
  <1>16. CASE FloodEnds
    BY <1>16 DEF FloodEnds
  <1>17. CASE ListenerBinds
    BY <1>17 DEF ListenerBinds
  <1>18. CASE ListenerPrints
    BY <1>18 DEF ListenerPrints
  <1>19. CASE ListenerWrites
    BY <1>19 DEF ListenerWrites
  <1>20. CASE ListenerReceives
    BY <1>20 DEF ListenerReceives
  <1>21. CASE ListenerDies
    BY <1>21 DEF ListenerDies
  <1>22. ASSUME NEW o \in orphans, OrphanBinds(o) \/ OrphanWrites(o) PROVE LoopInv'
    BY <1>22 DEF OrphanBinds, OrphanWrites
  <1>23. CASE UNCHANGED vars
    BY <1>23 DEF vars
  <1>24. QED
    BY <1>1, <1>2, <1>3, <1>4, <1>5, <1>6, <1>7, <1>8, <1>9, <1>10, <1>11,
       <1>12, <1>13, <1>14, <1>15, <1>16, <1>17, <1>18, <1>19, <1>20, <1>21,
       <1>22, <1>23
       DEF Next, Script, Background

\* Every step keeps the bottleneck's condition and the trap in place.
LEMMA BottleneckInvNext ==
    ASSUME Inv, [Next]_vars
    PROVE  BottleneckInv'
  <1> USE DEF Inv, BottleneckInv, InRun, cond, Exits, TypeOK,
              loop, bottleneck, procs, files
  <1>1. CASE Setup
    BY <1>1 DEF Setup, up
  <1>2. CASE SetTrap
    BY <1>2 DEF SetTrap
  <1>3. CASE Skip
    BY <1>3 DEF Skip, Advance
  <1>4. CASE Done
    BY <1>4 DEF Done, Exit, down
  <1>5. CASE apply_condition
    BY <1>5 DEF apply_condition
  <1>6. CASE Spawn
    BY <1>6 DEF Spawn
  <1>7. CASE wait_file
    BY <1>7 DEF wait_file
  <1>8. CASE WaitFails
    BY <1>8 DEF WaitFails, Exit, down
  <1>9. CASE TalkerEnds
    BY <1>9 DEF TalkerEnds
  <1>10. CASE Collect
    BY <1>10 DEF Collect, StopSink
  <1>11. CASE Publish
    BY <1>11 DEF Publish
  <1>12. CASE Grep
    BY <1>12 DEF Grep, Advance
  <1>13. CASE GrepFails
    BY <1>13 DEF GrepFails, Exit, down
  <1>14. CASE Abort
    BY <1>14 DEF Abort, Exit, down
  <1>15. CASE Restart
    BY <1>15 DEF Restart
  <1>16. CASE FloodEnds
    BY <1>16 DEF FloodEnds
  <1>17. CASE ListenerBinds
    BY <1>17 DEF ListenerBinds
  <1>18. CASE ListenerPrints
    BY <1>18 DEF ListenerPrints
  <1>19. CASE ListenerWrites
    BY <1>19 DEF ListenerWrites
  <1>20. CASE ListenerReceives
    BY <1>20 DEF ListenerReceives
  <1>21. CASE ListenerDies
    BY <1>21 DEF ListenerDies
  <1>22. ASSUME NEW o \in orphans, OrphanBinds(o) \/ OrphanWrites(o) PROVE BottleneckInv'
    BY <1>22 DEF OrphanBinds, OrphanWrites
  <1>23. CASE UNCHANGED vars
    BY <1>23 DEF vars
  <1>24. QED
    BY <1>1, <1>2, <1>3, <1>4, <1>5, <1>6, <1>7, <1>8, <1>9, <1>10, <1>11,
       <1>12, <1>13, <1>14, <1>15, <1>16, <1>17, <1>18, <1>19, <1>20, <1>21,
       <1>22, <1>23
       DEF Next, Script, Background

\* Every step keeps the background processes inside their run.
LEMMA ProcInvNext ==
    ASSUME Inv, [Next]_vars
    PROVE  ProcInv'
  <1> USE DEF Inv, ProcInv, Exits, TypeOK, loop, bottleneck, procs, files
  <1>1. CASE Setup
    BY <1>1 DEF Setup, up
  <1>2. CASE SetTrap
    BY <1>2 DEF SetTrap
  <1>3. CASE Skip
    BY <1>3 DEF Skip, Advance
  <1>4. CASE Done
    BY <1>4 DEF Done, Exit, down
  <1>5. CASE apply_condition
    BY <1>5 DEF apply_condition
  <1>6. CASE Spawn
    BY <1>6 DEF Spawn
  <1>7. CASE wait_file
    BY <1>7 DEF wait_file
  <1>8. CASE WaitFails
    BY <1>8 DEF WaitFails, Exit, down
  <1>9. CASE TalkerEnds
    BY <1>9 DEF TalkerEnds
  <1>10. CASE Collect
    BY <1>10 DEF Collect, StopSink
  <1>11. CASE Publish
    BY <1>11 DEF Publish
  <1>12. CASE Grep
    BY <1>12 DEF Grep, Advance
  <1>13. CASE GrepFails
    BY <1>13 DEF GrepFails, Exit, down
  <1>14. CASE Abort
    BY <1>14 DEF Abort, Exit, down
  <1>15. CASE Restart
    BY <1>15 DEF Restart
  <1>16. CASE FloodEnds
    BY <1>16 DEF FloodEnds
  <1>17. CASE ListenerBinds
    BY <1>17 DEF ListenerBinds
  <1>18. CASE ListenerPrints
    BY <1>18 DEF ListenerPrints
  <1>19. CASE ListenerWrites
    BY <1>19 DEF ListenerWrites
  <1>20. CASE ListenerReceives
    BY <1>20 DEF ListenerReceives
  <1>21. CASE ListenerDies
    BY <1>21 DEF ListenerDies
  <1>22. ASSUME NEW o \in orphans, OrphanBinds(o) \/ OrphanWrites(o) PROVE ProcInv'
    BY <1>22 DEF OrphanBinds, OrphanWrites
  <1>23. CASE UNCHANGED vars
    BY <1>23 DEF vars
  <1>24. QED
    BY <1>1, <1>2, <1>3, <1>4, <1>5, <1>6, <1>7, <1>8, <1>9, <1>10, <1>11,
       <1>12, <1>13, <1>14, <1>15, <1>16, <1>17, <1>18, <1>19, <1>20, <1>21,
       <1>22, <1>23
       DEF Next, Script, Background

\* Every step keeps the first campaign's files its own.
LEMMA AloneInvNext ==
    ASSUME Inv, [Next]_vars
    PROVE  AloneInv'
  <1> USE DEF Inv, AloneInv, TypeOK, loop, bottleneck, procs, files
  <1>1. CASE Setup
    BY <1>1 DEF Setup, up
  <1>2. CASE SetTrap
    BY <1>2 DEF SetTrap
  <1>3. CASE Skip
    BY <1>3 DEF Skip, Advance
  <1>4. CASE Done
    BY <1>4 DEF Done, Exit, down
  <1>5. CASE apply_condition
    BY <1>5 DEF apply_condition
  <1>6. CASE Spawn
    BY <1>6 DEF Spawn
  <1>7. CASE wait_file
    BY <1>7 DEF wait_file
  <1>8. CASE WaitFails
    BY <1>8 DEF WaitFails, Exit, down
  <1>9. CASE TalkerEnds
    BY <1>9 DEF TalkerEnds
  <1>10. CASE Collect
    BY <1>10 DEF Collect, StopSink
  <1>11. CASE Publish
    BY <1>11 DEF Publish
  <1>12. CASE Grep
    BY <1>12 DEF Grep, Advance
  <1>13. CASE GrepFails
    BY <1>13 DEF GrepFails, Exit, down
  <1>14. CASE Abort
    BY <1>14 DEF Abort, Exit, down
  <1>15. CASE Restart
    BY <1>15 DEF Restart
  <1>16. CASE FloodEnds
    BY <1>16 DEF FloodEnds
  <1>17. CASE ListenerBinds
    BY <1>17 DEF ListenerBinds
  <1>18. CASE ListenerPrints
    BY <1>18 DEF ListenerPrints
  <1>19. CASE ListenerWrites
    BY <1>19 DEF ListenerWrites
  <1>20. CASE ListenerReceives
    BY <1>20 DEF ListenerReceives
  <1>21. CASE ListenerDies
    BY <1>21 DEF ListenerDies
  <1>22. ASSUME NEW o \in orphans, OrphanBinds(o) \/ OrphanWrites(o) PROVE AloneInv'
    BY <1>22 DEF OrphanBinds, OrphanWrites
  <1>23. CASE UNCHANGED vars
    BY <1>23 DEF vars
  <1>24. QED
    BY <1>1, <1>2, <1>3, <1>4, <1>5, <1>6, <1>7, <1>8, <1>9, <1>10, <1>11,
       <1>12, <1>13, <1>14, <1>15, <1>16, <1>17, <1>18, <1>19, <1>20, <1>21,
       <1>22, <1>23
       DEF Next, Script, Background


\* Every step keeps what the first campaign has published or logged.
LEMMA PastInvNext ==
    ASSUME Inv, [Next]_vars
    PROVE  PastInv'
  <1> USE TestbedAssumption DEF Inv
  <1>1. CASE Setup
    <2>1. run' = 1 /\ ci' = 1 /\ pc' # "grep"
      BY <1>1 DEF Setup, LoopInv
    <2>2. \A r \in 1 .. RUNS, i \in 1 .. Len(CONDITIONS) : ~Before(r, i)'
      BY <2>1 DEF Before
    <2>3. QED
      BY <2>1, <2>2 DEF PastInv
  <1>2. CASE Skip
    <2>1. /\ ~havePrio /\ cond \in Prio /\ InLoop /\ Advance /\ pc' # "grep"
          /\ UNCHANGED <<camp, havePrio, out, missing>>
      BY <1>2 DEF Skip, files
    <2>2. QED
      BY <2>1, AdvanceMoves DEF PastInv, Fresh, cond, At
  <1>3. CASE Publish
    <2>1. pc = "publish" /\ cell \in Cells /\ UNCHANGED loop
      BY <1>3, CellIsCell DEF Publish, LoopInv, InRun
    <2>2. camp = 1 => Fresh(cell)'
      BY <1>3, <2>1 DEF Publish, AloneInv, Fresh, TypeOK, cell, cond, loop
    <2>3. \A x \in Cells : camp = 1 /\ Fresh(x) => Fresh(x)'
      BY <1>3, <2>1 DEF Publish, AloneInv, Fresh, TypeOK, loop
    <2>4. QED
      BY <2>1, <2>2, <2>3, CellsAreAt DEF PastInv, Before, loop
  <1>4. CASE Grep
    <2>1. /\ pc = "grep" /\ InLoop /\ Advance /\ pc' # "grep"
          /\ UNCHANGED <<camp, havePrio, out, missing>>
      BY <1>4 DEF Grep, LoopInv, InRun, files
    <2>2. camp = 1 => Fresh(At(run, ci))
      BY <2>1 DEF PastInv, At, cell, cond
    <2>3. QED
      BY <2>1, <2>2, AdvanceMoves DEF PastInv, Fresh, At
  <1>5. CASE Restart
    BY <1>5 DEF Restart, PastInv, TypeOK
  <1>6. CASE SetTrap \/ Done \/ apply_condition \/ Spawn \/ wait_file \/ WaitFails
             \/ TalkerEnds \/ Collect \/ GrepFails \/ Abort \/ FloodEnds \/ ListenerBinds
             \/ ListenerPrints \/ ListenerWrites \/ ListenerReceives \/ ListenerDies
    <2>1. /\ UNCHANGED <<camp, run, ci, havePrio, out, missing>>
          /\ pc' # "grep" \/ pc' = pc
      BY <1>6
         DEF SetTrap, Done, Exit, apply_condition, Spawn, wait_file, WaitFails,
             TalkerEnds, Collect, StopSink, GrepFails, Abort, FloodEnds,
             ListenerBinds, ListenerPrints, ListenerWrites, ListenerReceives,
             ListenerDies, Exits, loop, procs, files
    <2>2. QED
      BY <2>1 DEF PastInv, Fresh, cell, cond, Before, At, loop
  <1>7. ASSUME NEW o \in orphans, OrphanBinds(o) \/ OrphanWrites(o) PROVE PastInv'
    <2>1. UNCHANGED <<loop, out, missing, pc>>
      BY <1>7 DEF OrphanBinds, OrphanWrites
    <2>2. QED
      BY <2>1 DEF PastInv, Fresh, cell, cond, Before, At, loop
  <1>8. CASE UNCHANGED vars
    BY <1>8
       DEF vars, loop, procs, files, PastInv, Fresh, cell, cond, Before, At,
           loop
  <1>9. QED
    BY <1>1, <1>2, <1>3, <1>4, <1>5, <1>6, <1>7, <1>8 DEF Next, Script, Background

\* Nothing in the command line stops a condition from being named twice; in
\* the default list, none is.
NoRepeats ==
    \A i, j \in DOMAIN CONDITIONS : CONDITIONS[i] = CONDITIONS[j] => i = j

\* Moving on leaves the next run without a ready file.
LEMMA AheadMoves ==
    ASSUME Inv, AheadInv, InLoop, Advance, pc \in {"loop", "grep"}, pc' = "loop",
           UNCHANGED <<camp, listener, ready>>
    PROVE  AheadInv'
  <1>1. listener # "start"
    BY DEF Inv, ProcInv
  <1>2. ASSUME camp = 1, NEW r \in 1 .. RUNS, NEW i \in DOMAIN CONDITIONS,
               After(r, i)' \/ (r = run' /\ i = ci')
        PROVE  ~ready'[At(r, i)]
    BY <1>2, AdvanceMoves DEF AheadInv, Inv
  <1>3. InLoop' => /\ run' \in 1 .. RUNS /\ ci' \in DOMAIN CONDITIONS
                   /\ cell' = At(run', ci')
    BY AdvanceMoves, TestbedAssumption DEF Inv, InLoop, cell, cond, At
  <1>4. QED
    BY <1>1, <1>2, <1>3 DEF AheadInv, At

\* Every step keeps the runs that lie ahead without a ready file, as long as
\* no two of them share one.
LEMMA AheadInvNext ==
    ASSUME NoRepeats, Inv, AheadInv, [Next]_vars
    PROVE  AheadInv'
  <1> USE DEF Inv
  <1>1. CASE Setup
    BY <1>1 DEF Setup, procs, files, AheadInv, ProcInv, InLoop, cell, cond, After
  <1>2. CASE Skip
    <2>1. /\ InLoop /\ Advance /\ pc = "loop" /\ pc' = "loop"
          /\ UNCHANGED <<camp, listener, ready>>
      BY <1>2 DEF Skip, procs, files
    <2>2. QED
      BY <2>1, AheadMoves
  <1>3. CASE Spawn
    BY <1>3 DEF Spawn, loop, files, AheadInv, InLoop, cell, cond, After
  <1>4. CASE wait_file
    <2>1. ready[cell] /\ InLoop /\ pc' = "talk" /\ UNCHANGED <<loop, listener, ready>>
      BY <1>4 DEF wait_file, files, LoopInv, InRun
    <2>2. camp = 1 => listener # "start"
      BY <2>1 DEF AheadInv
    <2>3. QED
      BY <2>1, <2>2 DEF AheadInv, InLoop, cell, cond, After, At, loop
  <1>5. CASE Grep
    <2>1. /\ InLoop /\ Advance /\ pc = "grep" /\ pc' = "loop"
          /\ UNCHANGED <<camp, listener, ready>>
      BY <1>5 DEF Grep, procs, files, LoopInv, InRun
    <2>2. QED
      BY <2>1, AheadMoves
  <1>6. CASE Restart
    BY <1>6 DEF Restart, AheadInv, TypeOK
  <1>7. CASE ListenerBinds
    <2>1. InLoop /\ cell \in Cells /\ UNCHANGED <<pc, loop>> /\ listener' = "recv"
      BY <1>7, CellIsCell DEF ListenerBinds, LoopInv
    <2>2. pc \notin {"setup", "trap", "loop", "spawn"}
      BY <1>7 DEF ListenerBinds, ProcInv
    <2>3. \A r \in 1 .. RUNS, i \in DOMAIN CONDITIONS :
             After(r, i) => At(r, i) # cell /\ ready'[At(r, i)] = ready[At(r, i)]
      <3>1. \A r \in 1 .. RUNS, i \in DOMAIN CONDITIONS :
               After(r, i) => At(r, i) # cell
        BY <2>1, TestbedAssumption
           DEF NoRepeats, After, At, cell, cond, InLoop, TypeOK
      <3>2. QED
        BY <1>7, <2>1, <3>1, CellsAreAt DEF ListenerBinds, TypeOK
    <2>4. QED
      BY <2>1, <2>2, <2>3 DEF AheadInv, After, loop
  <1>8. CASE SetTrap \/ Done \/ apply_condition \/ WaitFails \/ TalkerEnds \/ Collect
             \/ Publish \/ GrepFails \/ Abort \/ FloodEnds \/ ListenerPrints \/ ListenerWrites
             \/ ListenerReceives \/ ListenerDies
    <2>1. /\ UNCHANGED <<camp, run, ci, ready>>
          /\ listener' = "start" => listener = "start"
          /\ pc' \in {"setup", "trap", "loop", "spawn"} =>
                pc \in {"setup", "trap", "loop", "spawn"}
          /\ pc' = "talk" => pc = "talk"
      BY <1>8
         DEF SetTrap, Done, Exit, apply_condition, WaitFails, TalkerEnds,
             Collect, StopSink, Publish, GrepFails, Abort, FloodEnds,
             ListenerPrints, ListenerWrites, ListenerReceives, ListenerDies,
             Exits, loop, procs, files
    <2>2. QED
      BY <2>1 DEF AheadInv, InLoop, cell, cond, After, At, loop
  <1>9. ASSUME NEW o \in orphans, OrphanBinds(o) \/ OrphanWrites(o) PROVE AheadInv'
    BY <1>9
       DEF OrphanBinds, OrphanWrites, procs, AloneInv, AheadInv, InLoop, cell,
           cond, After, At, loop
  <1>10. CASE UNCHANGED vars
    BY <1>10
       DEF vars, loop, procs, files, AheadInv, InLoop, cell, cond, After, At,
           loop
  <1>11. QED
    BY <1>1, <1>2, <1>3, <1>4, <1>5, <1>6, <1>7, <1>8, <1>9, <1>10
       DEF Next, Script, Background

-----------------------------------------------------------------------------
(* The theorems *)

\* The invariant holds in every reachable state.
LEMMA Invariance == Spec => []Inv
  <1>1. Inv /\ [Next]_vars => Inv'
    BY TypeOKNext, LoopInvNext, BottleneckInvNext, ProcInvNext, AloneInvNext,
       PastInvNext DEF Inv
  <1>2. QED
    BY InitInv, <1>1, PTL DEF Spec

\* run.sh's apply_condition: while a run is measured, the topology is up and
\* the bottleneck carries that run's condition and classifier, whatever the
\* conditions before it were.
THEOREM ConditionInPlaceSafe == Spec => []ConditionInPlace
  <1>1. Inv => ConditionInPlace
    BY DEF Inv, BottleneckInv, ConditionInPlace, Measuring, InRun
  <1>2. QED
    BY Invariance, <1>1, PTL

\* run.sh's cleanup and waits: once the trap is set every way out of the
\* script removes the topology, and the good way out leaves no process.
THEOREM CleanExitSafe == Spec => []CleanExit
  <1>1. Inv => CleanExit
    BY DEF Inv, BottleneckInv, ProcInv, CleanExit
  <1>2. QED
    BY Invariance, <1>1, PTL

\* run_one's copy of the CSV: in a new output directory, what is published is
\* of this campaign or logged as missing, and a campaign that ends well has
\* done so for every run it did not skip.
THEOREM FreshInNewOutSafe == Spec => []FreshInNewOut
  <1>1. Inv => FreshInNewOut
    <2> SUFFICES ASSUME Inv, camp = 1, pc = "done", NEW x \in Cells,
                        havePrio \/ x[1] \notin Prio
                 PROVE  Fresh(x)
      BY DEF Inv, PastInv, FreshInNewOut, FreshOrLogged
    <2>1. PICK r \in 1 .. RUNS, i \in DOMAIN CONDITIONS :
                 x = At(r, i) /\ x[1] = CONDITIONS[i]
      BY CellsAreAt
    <2>2. DOMAIN CONDITIONS = 1 .. Len(CONDITIONS) /\ Len(CONDITIONS) \in Nat
      BY TestbedAssumption
    <2>3. /\ ~InLoop /\ run \in Nat
          /\ ci \in Nat \ {0} /\ (ci = 1 \/ ci <= Len(CONDITIONS))
      BY DEF Inv, LoopInv, TypeOK
    <2>4. Before(r, i)
      BY <2>2, <2>3, TestbedAssumption DEF InLoop, Before
    <2>5. QED
      BY <2>1, <2>4 DEF Inv, PastInv
  <1>2. QED
    BY Invariance, <1>1, PTL

\* run.sh's wait_file: in a new output directory the talker and the flood
\* start only when the listener has bound its port, if no condition is named
\* twice.  When one is, its second listener finds the first one's ready file.
THEOREM ReadyMeansBoundSafe ==
    ASSUME NoRepeats
    PROVE  Spec => []ReadyMeansBound
  <1>1. Init => AheadInv
    BY InitInv
  <1>2. Inv /\ AheadInv /\ [Next]_vars => AheadInv'
    BY AheadInvNext
  <1>3. AheadInv => ReadyMeansBound
    BY DEF AheadInv, ReadyMeansBound
  <1>4. QED
    BY Invariance, <1>1, <1>2, <1>3, PTL DEF Spec

-----------------------------------------------------------------------------
(* PerCpuCounters *)

\* The types the argument needs; the finished dumps play no part in it.
CellTypes ==
    /\ slot \in [Cpus -> [KeySet -> Nat]]
    /\ todo \in [Cpus -> Seq(KeySet)]
    /\ reg \in [Cpus -> Nat \cup {-1}]
    /\ dumping \in BOOLEAN /\ cpu \in Cpus /\ key \in 1 .. (Len(Keys) + 1)
    /\ copy \in [Cpus -> [KeySet -> Nat]]
    /\ hits \in [Cpus -> [KeySet -> Nat]]
    /\ lo \in [Cpus -> [KeySet -> Nat]]

\* Between its load and its store a CPU holds the current value of its own
\* slot: nobody else can have changed it.
LoadedIsCurrent ==
    \A c \in Cpus : reg[c] # -1 =>
        /\ todo[c] # <<>>
        /\ reg[c] = slot[c][Head(todo[c])]

\* Every increment made is in the map.
NoLostUpdate == \A c \in Cpus, k \in KeySet : slot[c][k] = hits[c][k]

LoBelowHits == \A c \in Cpus, k \in KeySet : lo[c][k] <= hits[c][k]

CountInv == CellTypes /\ LoadedIsCurrent /\ NoLostUpdate /\ LoBelowHits /\ DumpBetween

\* What the assumptions say of the cells a dump walks over.
LEMMA CellFacts ==
    /\ 1 \in Cpus /\ Zero \in [Cpus -> [KeySet -> Nat]]
    /\ 1 \in 1 .. (Len(Keys) + 1)
    /\ Len(Keys) \in Nat
    /\ \A i \in DOMAIN Keys : Keys[i] \in KeySet
    /\ DOMAIN Keys = 1 .. Len(Keys)
  BY CpusAssumption, KeysAssumption DEF Cpus, Zero, KeySet

\* The maps start at zero and no CPU holds a value.
LEMMA CountInit == CountersInit => CountInv
<1>. SUFFICES ASSUME CountersInit PROVE CountInv
  OBVIOUS
<1>1. CellTypes
  <2>1. todo \in [Cpus -> Seq(KeySet)]
    BY DEF CountersInit
  <2>2. reg \in [Cpus -> Nat \cup {-1}]
    BY DEF CountersInit
  <2>. QED BY <2>1, <2>2, CellFacts DEF CountersInit, CellTypes
<1>2. LoadedIsCurrent /\ NoLostUpdate
  BY DEF CountersInit, LoadedIsCurrent, NoLostUpdate
<1>3. LoBelowHits
  BY DEF CountersInit, LoBelowHits, Zero
<1>4. DumpBetween
  BY DEF CountersInit, DumpBetween
<1>. QED BY <1>1, <1>2, <1>3, <1>4 DEF CountInv

\* What an increment does to a table of counters, cell by cell.
LEMMA Increment ==
    ASSUME NEW tab \in [Cpus -> [KeySet -> Nat]], NEW c \in Cpus, NEW k \in KeySet,
           NEW v \in Nat
    PROVE  LET new == [tab EXCEPT ![c][k] = v]
           IN  /\ new \in [Cpus -> [KeySet -> Nat]]
               /\ new[c][k] = v
               /\ \A d \in Cpus, l \in KeySet :
                    (d # c \/ l # k) => new[d][l] = tab[d][l]
  OBVIOUS

\* Every step keeps the counts equal to the increments made, and the cells
\* that a dump has read within their bounds.
LEMMA CountStep == CountInv /\ [CountersNext]_counterVars => CountInv'
<1>. SUFFICES ASSUME CountInv, [CountersNext]_counterVars PROVE CountInv'
  OBVIOUS
<1>. USE DEF CountInv
<1>1. ASSUME NEW c \in Cpus, NEW f \in Frames, Arrive(c, f) PROVE CountInv'
  <2>1. f \in Seq(KeySet)
    BY FramesAssumption DEF KeySet
  <2>2. CellTypes'
    BY <1>1, <2>1 DEF Arrive, CellTypes, cursor
  <2>3. LoadedIsCurrent'
    BY <1>1 DEF Arrive, LoadedIsCurrent, CellTypes
  <2>4. NoLostUpdate' /\ LoBelowHits' /\ DumpBetween'
    BY <1>1 DEF Arrive, NoLostUpdate, LoBelowHits, DumpBetween, Reached, cursor
  <2>. QED BY <2>2, <2>3, <2>4
<1>2. ASSUME NEW c \in Cpus, Load(c) PROVE CountInv'
  <2>1. Head(todo[c]) \in KeySet
    BY <1>2, HeadTailProperties DEF Load, CellTypes
  <2>2. CellTypes'
    <3>1. slot[c][Head(todo[c])] \in Nat
      BY <2>1 DEF CellTypes
    <3>2. reg' = [reg EXCEPT ![c] = slot[c][Head(todo[c])]]
      BY <1>2 DEF Load, SlotOf
    <3>3. reg' \in [Cpus -> Nat \cup {-1}]
      BY <3>1, <3>2 DEF CellTypes
    <3>. QED BY <1>2, <3>3 DEF Load, CellTypes, dumpVars, cursor
  <2>3. LoadedIsCurrent'
    BY <1>2 DEF Load, LoadedIsCurrent, CellTypes, SlotOf
  <2>4. NoLostUpdate' /\ LoBelowHits' /\ DumpBetween'
    BY <1>2 DEF Load, NoLostUpdate, LoBelowHits, DumpBetween, Reached, dumpVars, cursor
  <2>. QED BY <2>2, <2>3, <2>4
<1>3. ASSUME NEW c \in Cpus, Store(c) PROVE CountInv'
  <2>. DEFINE k == Head(todo[c])
  <2>1. /\ k \in KeySet /\ Tail(todo[c]) \in Seq(KeySet)
        /\ reg[c] \in Nat /\ reg[c] = slot[c][k] /\ slot[c][k] = hits[c][k]
    BY <1>3, HeadTailProperties
       DEF Store, CellTypes, LoadedIsCurrent, NoLostUpdate
  <2>2. /\ slot' = [slot EXCEPT ![c][k] = reg[c] + 1]
        /\ hits' = [hits EXCEPT ![c][k] = hits[c][k] + 1]
        /\ todo' = [todo EXCEPT ![c] = Tail(todo[c])]
        /\ reg' = [reg EXCEPT ![c] = -1]
        /\ UNCHANGED <<dumping, cpu, key, copy, lo>>
    BY <1>3 DEF Store, SlotOf, dumpVars, cursor, CellTypes
  <2>. HIDE DEF k
  <2>3. /\ slot' \in [Cpus -> [KeySet -> Nat]] /\ hits' \in [Cpus -> [KeySet -> Nat]]
        /\ slot'[c][k] = reg[c] + 1 /\ hits'[c][k] = hits[c][k] + 1
        /\ \A d \in Cpus, l \in KeySet : (d # c \/ l # k) =>
             slot'[d][l] = slot[d][l] /\ hits'[d][l] = hits[d][l]
    <3>1. /\ slot \in [Cpus -> [KeySet -> Nat]] /\ hits \in [Cpus -> [KeySet -> Nat]]
          /\ reg[c] + 1 \in Nat /\ hits[c][k] + 1 \in Nat
      <4>1. slot \in [Cpus -> [KeySet -> Nat]] /\ hits \in [Cpus -> [KeySet -> Nat]]
        BY DEF CellTypes
      <4>2. hits[c][k] \in Nat
        BY <2>1, <4>1
      <4>. QED BY <2>1, <4>1, <4>2
    <3>2. /\ slot' \in [Cpus -> [KeySet -> Nat]]
          /\ slot'[c][k] = reg[c] + 1
          /\ \A d \in Cpus, l \in KeySet :
               (d # c \/ l # k) => slot'[d][l] = slot[d][l]
      BY <2>1, <2>2, <3>1, Increment
    <3>3. /\ hits' \in [Cpus -> [KeySet -> Nat]]
          /\ hits'[c][k] = hits[c][k] + 1
          /\ \A d \in Cpus, l \in KeySet :
               (d # c \/ l # k) => hits'[d][l] = hits[d][l]
      BY <2>1, <2>2, <3>1, Increment
    <3>. QED BY <3>2, <3>3
  <2>4. CellTypes'
    BY <2>1, <2>2, <2>3 DEF CellTypes
  <2>5. LoadedIsCurrent'
    <3>. SUFFICES ASSUME NEW d \in Cpus, reg'[d] # -1
                  PROVE  todo'[d] # <<>> /\ reg'[d] = slot'[d][Head(todo'[d])]
      BY DEF LoadedIsCurrent
    <3>1. d # c /\ reg'[d] = reg[d] /\ todo'[d] = todo[d]
      BY <2>2 DEF CellTypes
    <3>2. todo[d] # <<>> /\ reg[d] = slot[d][Head(todo[d])]
      BY <3>1 DEF LoadedIsCurrent
    <3>3. Head(todo[d]) \in KeySet
      BY <3>2, HeadTailProperties DEF CellTypes
    <3>4. slot'[d][Head(todo[d])] = slot[d][Head(todo[d])]
      BY <2>3, <3>1, <3>3
    <3>. QED BY <3>1, <3>2, <3>4, Zenon
  <2>6. NoLostUpdate'
    <3>. SUFFICES ASSUME NEW d \in Cpus, NEW l \in KeySet
                  PROVE  slot'[d][l] = hits'[d][l]
      BY DEF NoLostUpdate
    <3>1. slot[d][l] = hits[d][l] /\ slot[c][k] = hits[c][k]
      BY <2>1 DEF NoLostUpdate
    <3>2. CASE d = c /\ l = k
      BY <2>1, <2>3, <3>1, <3>2
    <3>3. CASE d # c \/ l # k
      BY <2>3, <3>1, <3>3
    <3>. QED BY <3>2, <3>3
  <2>7. \A d \in Cpus, l \in KeySet : hits[d][l] <= hits'[d][l]
    <3>. SUFFICES ASSUME NEW d \in Cpus, NEW l \in KeySet
                  PROVE  hits[d][l] <= hits'[d][l]
      OBVIOUS
    <3>1. hits[d][l] \in Nat
      BY DEF CellTypes
    <3>. QED BY <2>3, <3>1
  <2>8. LoBelowHits'
    <3>. SUFFICES ASSUME NEW d \in Cpus, NEW l \in KeySet
                  PROVE  lo[d][l] <= hits'[d][l]
      BY <2>2 DEF LoBelowHits
    <3>1. lo[d][l] \in Nat /\ hits[d][l] \in Nat
      BY DEF CellTypes
    <3>2. hits'[d][l] \in Nat
      BY <2>3
    <3>3. lo[d][l] <= hits[d][l] /\ hits[d][l] <= hits'[d][l]
      BY <2>7 DEF LoBelowHits
    <3>. QED BY <3>1, <3>2, <3>3
  <2>9. DumpBetween'
    <3>. SUFFICES ASSUME dumping, NEW d \in Cpus, NEW i \in DOMAIN Keys, Reached(d, i)
                  PROVE  /\ lo[d][Keys[i]] <= copy[d][Keys[i]]
                         /\ copy[d][Keys[i]] <= hits'[d][Keys[i]]
      BY <2>2 DEF DumpBetween, Reached
    <3>1. /\ lo[d][Keys[i]] <= copy[d][Keys[i]]
          /\ copy[d][Keys[i]] <= hits[d][Keys[i]]
      BY DEF DumpBetween
    <3>2. Keys[i] \in KeySet
      BY CellFacts
    <3>3. copy[d][Keys[i]] \in Nat /\ hits[d][Keys[i]] \in Nat
      BY <3>2 DEF CellTypes
    <3>4. hits'[d][Keys[i]] \in Nat /\ hits[d][Keys[i]] <= hits'[d][Keys[i]]
      BY <2>3, <2>7, <3>2
    <3>. QED BY <3>1, <3>3, <3>4
  <2>. QED BY <2>4, <2>5, <2>6, <2>8, <2>9
<1>4. CASE DumpBegin
  <2>1. CellTypes'
    BY <1>4, CellFacts DEF DumpBegin, CellTypes, cpuVars
  <2>2. LoadedIsCurrent' /\ NoLostUpdate'
    BY <1>4 DEF DumpBegin, LoadedIsCurrent, NoLostUpdate, cpuVars
  <2>3. LoBelowHits'
    BY <1>4 DEF DumpBegin, LoBelowHits, cpuVars, CellTypes
  <2>4. DumpBetween'
    BY <1>4, CellFacts DEF DumpBegin, DumpBetween, Reached, Cpus
  <2>. QED BY <2>1, <2>2, <2>3, <2>4
<1>5. CASE DumpCell
  <2>. DEFINE k == Keys[key]
  <2>1. key \in DOMAIN Keys /\ k \in KeySet /\ cpu \in Cpus /\ key \in Nat
    <3>1. cpu \in Cpus /\ key \in 1 .. (Len(Keys) + 1)
      BY DEF CellTypes
    <3>2. key <= Len(Keys)
      BY <1>5 DEF DumpCell
    <3>3. key \in 1 .. Len(Keys) /\ key \in Nat
      BY <3>1, <3>2, CellFacts
    <3>. QED BY <3>1, <3>3, CellFacts
  <2>0. /\ key <= Len(Keys)
        /\ cpu' = (IF cpu = NCpus THEN 1 ELSE cpu + 1)
        /\ key' = (IF cpu = NCpus THEN key + 1 ELSE key)
    BY <1>5 DEF DumpCell
  <2>10. key \in 1 .. Len(Keys) /\ cpu \in 1 .. NCpus /\ NCpus \in Nat /\ Len(Keys) \in Nat
    BY <2>1, CellFacts, CpusAssumption DEF Cpus
  <2>. HIDE DEF k
  <2>2. copy' = [copy EXCEPT ![cpu][k] = slot[cpu][k]] /\ dumping /\ dumping'
        /\ slot' = slot /\ hits' = hits /\ lo' = lo /\ todo' = todo /\ reg' = reg
    BY <1>5 DEF DumpCell, cpuVars, k
  <2>3. /\ copy' \in [Cpus -> [KeySet -> Nat]]
        /\ copy'[cpu][k] = slot[cpu][k]
        /\ \A d \in Cpus, l \in KeySet : (d # cpu \/ l # k) => copy'[d][l] = copy[d][l]
    BY <2>1, <2>2, Increment DEF CellTypes
  <2>4. cpu' \in Cpus /\ key' \in 1 .. (Len(Keys) + 1)
    BY <2>0, <2>10 DEF Cpus
  <2>5. CellTypes'
    BY <2>2, <2>3, <2>4 DEF CellTypes
  <2>6. LoadedIsCurrent' /\ NoLostUpdate' /\ LoBelowHits'
    BY <2>2 DEF LoadedIsCurrent, NoLostUpdate, LoBelowHits
  <2>7. DumpBetween'
    <3>. SUFFICES ASSUME NEW d \in Cpus, NEW i \in DOMAIN Keys, Reached(d, i)'
                  PROVE  /\ lo[d][Keys[i]] <= copy'[d][Keys[i]]
                         /\ copy'[d][Keys[i]] <= hits[d][Keys[i]]
      BY <2>2 DEF DumpBetween
    <3>1. Keys[i] \in KeySet
      BY CellFacts
    <3>2. Reached(d, i) \/ (d = cpu /\ i = key)
      <4>1. d \in 1 .. NCpus /\ i \in 1 .. Len(Keys)
        BY CellFacts DEF Cpus
      <4>2. i < key' \/ (i = key' /\ d < cpu')
        BY DEF Reached
      <4>. QED BY <2>0, <2>10, <4>1, <4>2 DEF Reached
    <3>3. CASE d = cpu /\ Keys[i] = k
      BY <2>3, <3>1, <3>3 DEF LoBelowHits, NoLostUpdate, CellTypes
    <3>4. CASE d # cpu \/ Keys[i] # k
      <4>1. Reached(d, i)
        BY <3>2, <3>4 DEF k
      <4>2. copy'[d][Keys[i]] = copy[d][Keys[i]]
        BY <2>3, <3>1, <3>4
      <4>. QED BY <2>2, <4>1, <4>2 DEF DumpBetween
    <3>. QED BY <3>3, <3>4
  <2>. QED BY <2>5, <2>6, <2>7
<1>6. CASE DumpEnd
  <2>1. CellTypes'
    BY <1>6, CellFacts DEF DumpEnd, CellTypes, cpuVars
  <2>2. LoadedIsCurrent' /\ NoLostUpdate' /\ LoBelowHits' /\ DumpBetween'
    BY <1>6 DEF DumpEnd, LoadedIsCurrent, NoLostUpdate, LoBelowHits, DumpBetween, cpuVars
  <2>. QED BY <2>1, <2>2
<1>7. CASE UNCHANGED counterVars
  <2>1. CellTypes'
    BY <1>7 DEF counterVars, cpuVars, dumpVars, cursor, CellTypes
  <2>2. LoadedIsCurrent' /\ NoLostUpdate' /\ LoBelowHits' /\ DumpBetween'
    BY <1>7 DEF counterVars, cpuVars, dumpVars, cursor, LoadedIsCurrent, NoLostUpdate,
       LoBelowHits, DumpBetween, Reached
  <2>. QED BY <2>1, <2>2
<1>. QED BY <1>1, <1>2, <1>3, <1>4, <1>5, <1>6, <1>7 DEF CountersNext

\* The increments, made of two steps each, implement atomic ones, for any
\* number of CPUs: under the invariant the value a store writes is one more
\* than the cell holds.
THEOREM CountsAtomicallySafe == CountersSpec => CountsAtomically
<1>1. CountersInit => Atomic!Init
  BY DEF CountersInit, Atomic!Init, Zero
<1>2. CountInv /\ [CountersNext]_counterVars => [Atomic!Next]_<<slot, todo>>
  <2>. SUFFICES ASSUME CountInv, [CountersNext]_counterVars
                PROVE  Atomic!Next \/ (slot' = slot /\ todo' = todo)
    OBVIOUS
  <2>1. ASSUME NEW c \in Cpus, Store(c) PROVE Atomic!Next
    <3>. DEFINE k == Head(todo[c])
    <3>1. k \in KeySet /\ reg[c] = slot[c][k] /\ todo[c] # <<>>
      BY <2>1, HeadTailProperties DEF CountInv, Store, CellTypes, LoadedIsCurrent
    <3>2. /\ slot' = [slot EXCEPT ![c][k] = reg[c] + 1]
          /\ todo' = [todo EXCEPT ![c] = Tail(todo[c])]
      BY <2>1 DEF Store, SlotOf, CountInv, CellTypes
    <3>3. slot' = [slot EXCEPT ![c] = [slot[c] EXCEPT ![k] = slot[c][k] + 1]]
      BY <3>1, <3>2
    <3>4. Atomic!Count(c)
      BY <3>1, <3>2, <3>3 DEF Atomic!Count
    <3>. QED BY <3>4 DEF Atomic!Next
  <2>2. ASSUME NEW c \in Cpus, NEW f \in Frames, Arrive(c, f) PROVE Atomic!Next
    <3>1. Atomic!Begin(c, f)
      BY <2>2 DEF Arrive, Atomic!Begin
    <3>. QED BY <3>1 DEF Atomic!Next
  <2>3. ASSUME NEW c \in Cpus, Load(c) PROVE slot' = slot /\ todo' = todo
    BY <2>3 DEF Load
  <2>4. CASE DumpBegin \/ DumpCell \/ DumpEnd
    BY <2>4 DEF DumpBegin, DumpCell, DumpEnd, cpuVars
  <2>5. CASE UNCHANGED counterVars
    BY <2>5 DEF counterVars, cpuVars
  <2>. QED BY <2>1, <2>2, <2>3, <2>4, <2>5 DEF CountersNext
<1>. QED BY <1>1, <1>2, CountInit, CountStep, PTL
         DEF CountersSpec, CountsAtomically, Atomic!Spec

\* Every cell a dump has read lies between its value when the dump began and
\* its value now.
THEOREM DumpBetweenSafe == CountersSpec => []DumpBetween
<1>1. CountInv => DumpBetween
  BY DEF CountInv
<1>. QED BY <1>1, CountInit, CountStep, PTL DEF CountersSpec
-----------------------------------------------------------------------------
(* The difference of two dumps *)

\* A dump is quiet only while nobody is in the middle of counting, so nothing
\* is counted during it.
QuietStill ==
    dumping /\ quiet => (\A c \in Cpus : todo[c] = <<>>) /\ lo = hits

\* Nothing is counted as between the dumps before the first is finished.  From
\* then on a quiet first dump and what was counted since make up the counters,
\* for as long as the second dump is not disturbed.
Balance ==
    /\ Len(dumps) = 0 => \A k \in KeySet : between[k] = 0
    /\ Len(dumps) = 1 /\ dumps[1].quiet /\ (dumping => quiet) =>
         \A k \in KeySet : between[k] + dumps[1].sum[k] = SumOverCpus(hits, k)

Dump == [sum : [KeySet -> Nat], quiet : BOOLEAN]

DumpTypes ==
    /\ quiet \in BOOLEAN
    /\ between \in [KeySet -> Nat]
    /\ dumps \in Seq(Dump)
    /\ Len(dumps) <= 2 /\ (dumping => Len(dumps) < 2)

DeltaInv == DumpTypes /\ QuietStill /\ Balance /\ DeltaExact

\* A set with 0 and every successor holds all natural numbers.
LEMMA SetInduction ==
    ASSUME NEW S, 0 \in S, \A n \in Nat : n \in S => n + 1 \in S
    PROVE  \A n \in Nat : n \in S
<1>. DEFINE T == {n \in Nat : n \notin S}
<1>. SUFFICES ASSUME T # {} PROVE FALSE
  OBVIOUS
<1>1. IsWellFoundedOn(OpToRel(<, Nat), Nat)
  BY NatLessThanWellFounded, Zenon
<1>2. T \subseteq Nat
  OBVIOUS
<1>. HIDE DEF T
<1>3. PICK x \in T : \A y \in T : ~(<<y, x>> \in OpToRel(<, Nat))
  BY <1>1, <1>2, WFMin, Zenon
<1>. USE DEF T
<1>4. \A y \in T : ~(y < x)
  BY <1>3 DEF OpToRel
<1>5. x \in Nat /\ x # 0 /\ x \notin S
  OBVIOUS
<1>6. x - 1 \in Nat /\ (x - 1) + 1 = x /\ x - 1 < x
  BY <1>5
<1>7. x - 1 \in S
  BY <1>4, <1>6
<1>. QED BY <1>5, <1>6, <1>7

\* s holds the partial sums of the values of key k, as dump_percpu() adds them.
Sums(s, cells, k) ==
    s = [n \in 0 .. NCpus |-> IF n = 0 THEN 0 ELSE s[n - 1] + cells[n][k]]

\* Every table has partial sums.
LEMMA SumsExist ==
    ASSUME NEW cells \in [Cpus -> [KeySet -> Nat]], NEW k \in KeySet
    PROVE  \E s : Sums(s, cells, k)
<1>. DEFINE Upto(m, g) == /\ g \in [0 .. m -> Nat] /\ g[0] = 0
                          /\ \A i \in 1 .. m : g[i] = g[i - 1] + cells[i][k]
            S == {m \in Nat : m <= NCpus => \E g : Upto(m, g)}
<1>0. NCpus \in Nat
  BY CpusAssumption
<1>1. 0 \in S
  <2>1. Upto(0, [i \in 0 .. 0 |-> 0])
    OBVIOUS
  <2>. QED BY <2>1
<1>2. ASSUME NEW m \in Nat, m \in S PROVE m + 1 \in S
  <2>. SUFFICES ASSUME m + 1 <= NCpus PROVE \E g : Upto(m + 1, g)
    OBVIOUS
  <2>1. PICK g : Upto(m, g)
    BY <1>0, <1>2
  <2>2. g[m] \in Nat /\ m + 1 \in Cpus
    BY <1>0, <2>1 DEF Cpus
  <2>3. cells[m + 1][k] \in Nat
    BY <2>2
  <2>. DEFINE h == [i \in 0 .. (m + 1) |-> IF i <= m THEN g[i] ELSE g[m] + cells[m + 1][k]]
  <2>4. h \in [0 .. (m + 1) -> Nat] /\ h[0] = 0
    BY <2>1, <2>2, <2>3
  <2>5. ASSUME NEW i \in 1 .. (m + 1) PROVE h[i] = h[i - 1] + cells[i][k]
    <3>1. i - 1 \in 0 .. (m + 1) /\ i - 1 <= m /\ h[i - 1] = g[i - 1]
      OBVIOUS
    <3>2. CASE i <= m
      BY <2>1, <3>1, <3>2
    <3>3. CASE i = m + 1
      BY <3>1, <3>3
    <3>. QED BY <3>2, <3>3
  <2>6. Upto(m + 1, h)
    BY <2>4, <2>5
  <2>. QED BY <2>6
<1>. HIDE DEF S, Upto
<1>3. \A m \in Nat : m \in S
  BY <1>1, <1>2, SetInduction
<1>4. PICK g : Upto(NCpus, g)
  BY <1>0, <1>3 DEF S
<1>5. g = [n \in 0 .. NCpus |-> IF n = 0 THEN 0 ELSE g[n - 1] + cells[n][k]]
  <2>1. \A n \in 0 .. NCpus : n # 0 => n \in 1 .. NCpus
    BY <1>0
  <2>. QED BY <1>4, <2>1 DEF Upto
<1>. QED BY <1>5 DEF Sums

\* The sum dump_percpu() reports is the last partial sum.
LEMMA SumDef ==
    ASSUME NEW cells \in [Cpus -> [KeySet -> Nat]], NEW k \in KeySet
    PROVE  \E s : Sums(s, cells, k) /\ SumOverCpus(cells, k) = s[NCpus]
<1>. DEFINE f == CHOOSE s : s = [n \in 0 .. NCpus |->
                                   IF n = 0 THEN 0 ELSE s[n - 1] + cells[n][k]]
<1>1. Sums(f, cells, k)
  BY SumsExist DEF Sums
<1>2. SumOverCpus(cells, k) = f[NCpus]
  BY DEF SumOverCpus
<1>. QED BY <1>1, <1>2

\* Sums are natural numbers, and when one CPU's value grows by d, so do they.
LEMMA SumGrows ==
    ASSUME NEW old \in [Cpus -> [KeySet -> Nat]], NEW new \in [Cpus -> [KeySet -> Nat]],
           NEW k \in KeySet, NEW c \in Cpus, NEW d \in Nat,
           new[c][k] = old[c][k] + d,
           \A i \in Cpus \ {c} : new[i][k] = old[i][k]
    PROVE  /\ SumOverCpus(old, k) \in Nat
           /\ SumOverCpus(new, k) = SumOverCpus(old, k) + d
<1>1. PICK f : Sums(f, old, k) /\ SumOverCpus(old, k) = f[NCpus]
  BY SumDef
<1>2. PICK g : Sums(g, new, k) /\ SumOverCpus(new, k) = g[NCpus]
  BY SumDef
<1>3. NCpus \in Nat /\ Cpus = 1 .. NCpus
  BY CpusAssumption DEF Cpus
<1>4. /\ f[0] = 0 /\ \A n \in 1 .. NCpus : f[n] = f[n - 1] + old[n][k]
      /\ g[0] = 0 /\ \A n \in 1 .. NCpus : g[n] = g[n - 1] + new[n][k]
  <2>1. 0 \in 0 .. NCpus /\ \A n \in 1 .. NCpus : n \in 0 .. NCpus /\ n # 0
    BY <1>3
  <2>2. \A n \in 0 .. NCpus : f[n] = IF n = 0 THEN 0 ELSE f[n - 1] + old[n][k]
    BY <1>1 DEF Sums
  <2>3. \A n \in 0 .. NCpus : g[n] = IF n = 0 THEN 0 ELSE g[n - 1] + new[n][k]
    BY <1>2 DEF Sums
  <2>. QED BY <2>1, <2>2, <2>3
<1>. DEFINE S == {n \in Nat : n <= NCpus =>
                    f[n] \in Nat /\ g[n] = IF c <= n THEN f[n] + d ELSE f[n]}
<1>5. 0 \in S
  BY <1>3, <1>4
<1>6. ASSUME NEW n \in Nat, n \in S PROVE n + 1 \in S
  <2>. SUFFICES ASSUME n + 1 <= NCpus
                PROVE  /\ f[n + 1] \in Nat
                       /\ g[n + 1] = IF c <= n + 1 THEN f[n + 1] + d ELSE f[n + 1]
    OBVIOUS
  <2>1. n + 1 \in Cpus /\ n + 1 \in 1 .. NCpus /\ (n + 1) - 1 = n
    BY <1>3
  <2>2. f[n] \in Nat /\ g[n] = IF c <= n THEN f[n] + d ELSE f[n]
    BY <1>3, <1>6
  <2>3. f[n + 1] = f[n] + old[n + 1][k] /\ g[n + 1] = g[n] + new[n + 1][k]
    BY <1>4, <2>1
  <2>4. old[n + 1][k] \in Nat /\ new[n + 1][k] \in Nat
    BY <2>1
  <2>5. CASE c = n + 1
    <3>1. ~(c <= n) /\ c <= n + 1 /\ new[n + 1][k] = old[n + 1][k] + d
      BY <2>5
    <3>. QED BY <2>2, <2>3, <2>4, <3>1
  <2>6. CASE c # n + 1
    <3>1. new[n + 1][k] = old[n + 1][k] /\ (c <= n + 1 <=> c <= n)
      BY <1>3, <2>1, <2>6
    <3>. QED BY <2>2, <2>3, <2>4, <3>1
  <2>. QED BY <2>5, <2>6
<1>. HIDE DEF S
<1>7. \A n \in Nat : n \in S
  BY <1>5, <1>6, SetInduction
<1>8. f[NCpus] \in Nat /\ g[NCpus] = f[NCpus] + d
  BY <1>3, <1>7 DEF S
<1>. QED BY <1>1, <1>2, <1>8

\* Tables that agree on a counter have the same sum of it.
LEMMA SumSame ==
    ASSUME NEW old \in [Cpus -> [KeySet -> Nat]], NEW new \in [Cpus -> [KeySet -> Nat]],
           NEW k \in KeySet, \A i \in Cpus : new[i][k] = old[i][k]
    PROVE  SumOverCpus(new, k) = SumOverCpus(old, k) /\ SumOverCpus(old, k) \in Nat
<1>1. 1 \in Cpus /\ 0 \in Nat
  BY CellFacts
<1>2. old[1][k] \in Nat
  BY <1>1
<1>3. new[1][k] = old[1][k] + 0
  BY <1>1, <1>2
<1>4. SumOverCpus(old, k) \in Nat /\ SumOverCpus(new, k) = SumOverCpus(old, k) + 0
  BY <1>1, <1>3, SumGrows
<1>. QED BY <1>4

\* When a quiet dump ends, it has read exactly the counters.
LEMMA QuietCopy ==
    ASSUME CountInv, QuietStill, DumpEnd, quiet, NEW k \in KeySet
    PROVE  SumOverCpus(copy, k) = SumOverCpus(hits, k)
<1>1. dumping /\ key > Len(Keys) /\ lo = hits
  BY DEF DumpEnd, QuietStill
<1>2. copy \in [Cpus -> [KeySet -> Nat]] /\ hits \in [Cpus -> [KeySet -> Nat]]
  BY DEF CountInv, CellTypes
<1>3. PICK i \in DOMAIN Keys : Keys[i] = k
  BY DEF KeySet
<1>4. i < key
  <2>1. i \in 1 .. Len(Keys) /\ Len(Keys) \in Nat /\ key \in Nat
    BY CellFacts DEF CountInv, CellTypes
  <2>. QED BY <1>1, <2>1
<1>5. ASSUME NEW c \in Cpus PROVE copy[c][k] = hits[c][k]
  <2>1. hits[c][k] <= copy[c][k] /\ copy[c][k] <= hits[c][k]
    BY <1>1, <1>3, <1>4 DEF CountInv, DumpBetween, Reached
  <2>2. copy[c][k] \in Nat /\ hits[c][k] \in Nat
    BY <1>2
  <2>. QED BY <2>1, <2>2
<1>. QED BY <1>2, <1>5, SumSame

\* Every step keeps two undisturbed dumps as far apart as the increments that
\* were made between them.
LEMMA DeltaStep == CountInv /\ DeltaInv /\ [CountersNext]_counterVars => DeltaInv'
<1>. SUFFICES ASSUME CountInv, DeltaInv, [CountersNext]_counterVars PROVE DeltaInv'
  OBVIOUS
<1>0. /\ DumpTypes /\ QuietStill /\ Balance /\ DeltaExact
      /\ hits \in [Cpus -> [KeySet -> Nat]] /\ dumping \in BOOLEAN
      /\ todo \in [Cpus -> Seq(KeySet)]
  BY DEF DeltaInv, CountInv, CellTypes
<1>1. ASSUME NEW c \in Cpus, NEW f \in Frames, Arrive(c, f) PROVE DeltaInv'
  <2>1. /\ quiet' = FALSE /\ hits' = hits /\ between' = between /\ dumps' = dumps
        /\ dumping' = dumping
    BY <1>1 DEF Arrive, cursor
  <2>2. QuietStill' /\ DumpTypes'
    BY <1>0, <2>1 DEF QuietStill, DumpTypes
  <2>3. Balance' /\ DeltaExact'
    BY <1>0, <2>1 DEF Balance, DeltaExact, delta
  <2>. QED BY <2>2, <2>3 DEF DeltaInv
<1>2. ASSUME NEW c \in Cpus, Load(c) PROVE DeltaInv'
  <2>1. /\ quiet' = quiet /\ hits' = hits /\ between' = between /\ dumps' = dumps
        /\ dumping' = dumping /\ lo' = lo /\ todo' = todo
    BY <1>2 DEF Load, dumpVars, cursor
  <2>2. QuietStill' /\ DumpTypes'
    BY <1>0, <2>1 DEF QuietStill, DumpTypes
  <2>3. Balance' /\ DeltaExact'
    BY <1>0, <2>1 DEF Balance, DeltaExact, delta
  <2>. QED BY <2>2, <2>3 DEF DeltaInv
<1>3. ASSUME NEW c \in Cpus, Store(c) PROVE DeltaInv'
  <2>. DEFINE k == Head(todo[c])
  <2>1. todo[c] # <<>> /\ k \in KeySet
    BY <1>3, HeadTailProperties DEF Store, CountInv, CellTypes, LoadedIsCurrent
  <2>2. /\ quiet' = quiet /\ dumps' = dumps /\ dumping' = dumping
        /\ hits' = [hits EXCEPT ![c][k] = hits[c][k] + 1]
        /\ between' = IF Len(dumps) = 1 /\ ~dumping
                      THEN [between EXCEPT ![k] = between[k] + 1] ELSE between
    BY <1>0, <1>3 DEF Store, dumpVars, cursor, DumpTypes
  <2>. HIDE DEF k
  <2>3. ~(dumping /\ quiet)
    BY <1>0, <2>1 DEF QuietStill
  <2>4. /\ hits' \in [Cpus -> [KeySet -> Nat]] /\ hits'[c][k] = hits[c][k] + 1
        /\ \A d \in Cpus, l \in KeySet :
             (d # c \/ l # k) => hits'[d][l] = hits[d][l]
    <3>1. hits[c][k] + 1 \in Nat
      <4>1. hits[c][k] \in Nat
        BY <1>0, <2>1
      <4>. QED BY <4>1
    <3>. QED BY <1>0, <2>1, <2>2, <3>1, Increment
  <2>5. SumOverCpus(hits', k) = SumOverCpus(hits, k) + 1 /\ SumOverCpus(hits, k) \in Nat
    <3>1. \A i \in Cpus \ {c} : hits'[i][k] = hits[i][k]
      BY <2>1, <2>4
    <3>2. PICK d \in Nat : d = 1
      OBVIOUS
    <3>3. hits'[c][k] = hits[c][k] + d
      BY <2>4, <3>2
    <3>4. /\ SumOverCpus(hits, k) \in Nat
          /\ SumOverCpus(hits', k) = SumOverCpus(hits, k) + d
      BY <1>0, <2>1, <2>4, <3>1, <3>3, SumGrows, Zenon
    <3>. QED BY <3>2, <3>4
  <2>6. ASSUME NEW l \in KeySet \ {k} PROVE SumOverCpus(hits', l) = SumOverCpus(hits, l)
    <3>1. \A i \in Cpus : hits'[i][l] = hits[i][l]
      BY <2>4
    <3>. QED BY <1>0, <2>4, <3>1, SumSame
  <2>7. QuietStill'
    BY <2>2, <2>3 DEF QuietStill
  <2>8. DumpTypes'
    <3>1. between \in [KeySet -> Nat]
      BY <1>0 DEF DumpTypes
    <3>2. between[k] + 1 \in Nat
      <4>1. between[k] \in Nat
        BY <2>1, <3>1
      <4>. QED BY <4>1
    <3>3. between' \in [KeySet -> Nat]
      BY <2>2, <3>1, <3>2
    <3>. QED BY <1>0, <2>2, <3>3 DEF DumpTypes
  <2>9. Balance'
    <3>1. Len(dumps) = 0 => \A l \in KeySet : between'[l] = 0
      BY <1>0, <2>2 DEF Balance
    <3>2. ASSUME Len(dumps) = 1, dumps[1].quiet, dumping => quiet, NEW l \in KeySet
          PROVE  between'[l] + dumps[1].sum[l] = SumOverCpus(hits', l)
      <4>1. ~dumping
        BY <2>3, <3>2
      <4>2. between[l] + dumps[1].sum[l] = SumOverCpus(hits, l)
        BY <1>0, <3>2 DEF Balance
      <4>3. between[l] \in Nat /\ dumps[1].sum[l] \in Nat
        <5>1. between \in [KeySet -> Nat] /\ dumps \in Seq(Dump)
          BY <1>0 DEF DumpTypes
        <5>2. dumps[1] \in Dump
          BY <3>2, <5>1
        <5>3. dumps[1].sum \in [KeySet -> Nat]
          BY <5>2 DEF Dump
        <5>. QED BY <5>1, <5>3
      <4>4. between'[l] = IF l = k THEN between[l] + 1 ELSE between[l]
        BY <1>0, <2>2, <3>2, <4>1 DEF DumpTypes
      <4>5. CASE l = k
        BY <2>5, <4>2, <4>3, <4>4, <4>5
      <4>6. CASE l # k
        BY <2>6, <4>2, <4>4, <4>6
      <4>. QED BY <4>5, <4>6
    <3>. QED BY <2>2, <3>1, <3>2 DEF Balance
  <2>10. DeltaExact'
    BY <1>0, <2>2 DEF DeltaExact, delta
  <2>. QED BY <2>7, <2>8, <2>9, <2>10 DEF DeltaInv
<1>4. CASE DumpBegin
  <2>1. /\ ~dumping /\ dumping' = TRUE /\ Len(dumps) < 2 /\ lo' = hits
        /\ quiet' = (\A c \in Cpus : todo[c] = <<>>) /\ dumps' = dumps
        /\ hits' = hits /\ between' = between /\ todo' = todo
    BY <1>4 DEF DumpBegin, cpuVars
  <2>2. QuietStill' /\ DumpTypes'
    BY <1>0, <2>1 DEF QuietStill, DumpTypes
  <2>3. Balance' /\ DeltaExact'
    BY <1>0, <2>1 DEF Balance, DeltaExact, delta
  <2>. QED BY <2>2, <2>3 DEF DeltaInv
<1>5. CASE DumpCell
  <2>1. /\ quiet' = quiet /\ hits' = hits /\ between' = between /\ dumps' = dumps
        /\ dumping' = dumping /\ lo' = lo /\ todo' = todo
    BY <1>5 DEF DumpCell, cpuVars
  <2>2. QuietStill' /\ DumpTypes'
    BY <1>0, <2>1 DEF QuietStill, DumpTypes
  <2>3. Balance' /\ DeltaExact'
    BY <1>0, <2>1 DEF Balance, DeltaExact, delta
  <2>. QED BY <2>2, <2>3 DEF DeltaInv
<1>6. CASE DumpEnd
  <2>. DEFINE new == [sum |-> [k \in KeySet |-> SumOverCpus(copy, k)], quiet |-> quiet]
  <2>1. /\ dumping /\ dumping' = FALSE /\ quiet' = quiet /\ hits' = hits
        /\ between' = between /\ dumps' = Append(dumps, new)
    BY <1>6 DEF DumpEnd, cpuVars
  <2>2. new \in Dump
    <3>1. copy \in [Cpus -> [KeySet -> Nat]]
      BY DEF CountInv, CellTypes
    <3>2. \A k \in KeySet : SumOverCpus(copy, k) \in Nat
      BY <3>1, SumSame
    <3>. QED BY <1>0, <3>2 DEF Dump, DumpTypes
  <2>3. quiet => \A k \in KeySet : new.sum[k] = SumOverCpus(hits, k)
    <3>1. \A k \in KeySet : new.sum[k] = SumOverCpus(copy, k)
      OBVIOUS
    <3>. QED BY <1>0, <1>6, <3>1, QuietCopy
  <2>4. new.quiet = quiet
    OBVIOUS
  <2>. HIDE DEF new
  <2>5. /\ dumps \in Seq(Dump) /\ Len(dumps) \in Nat /\ Len(dumps) < 2
        /\ between \in [KeySet -> Nat]
    BY <1>0, <2>1 DEF DumpTypes
  <2>6. /\ dumps' \in Seq(Dump) /\ Len(dumps') = Len(dumps) + 1
        /\ dumps'[Len(dumps) + 1] = new
        /\ \A i \in 1 .. Len(dumps) : dumps'[i] = dumps[i]
    BY <2>1, <2>2, <2>5, AppendProperties
  <2>7. QuietStill'
    BY <2>1 DEF QuietStill
  <2>8. DumpTypes'
    BY <1>0, <2>1, <2>5, <2>6 DEF DumpTypes
  <2>9. CASE Len(dumps) = 0
    <3>1. Len(dumps') = 1 /\ dumps'[1] = new
      BY <2>6, <2>9
    <3>2. ASSUME quiet, NEW k \in KeySet
          PROVE  between'[k] + new.sum[k] = SumOverCpus(hits', k)
      <4>1. between[k] = 0
        BY <1>0, <2>9 DEF Balance
      <4>2. new.sum[k] = SumOverCpus(hits, k) /\ SumOverCpus(hits, k) \in Nat
        BY <1>0, <2>3, <3>2, SumSame
      <4>. QED BY <2>1, <4>1, <4>2
    <3>3. Balance'
      BY <2>1, <2>4, <3>1, <3>2 DEF Balance
    <3>4. DeltaExact'
      BY <3>1 DEF DeltaExact
    <3>. QED BY <2>7, <2>8, <3>3, <3>4 DEF DeltaInv
  <2>10. CASE Len(dumps) = 1
    <3>1. Len(dumps') = 2 /\ dumps'[1] = dumps[1] /\ dumps'[2] = new
      BY <2>6, <2>10
    <3>2. Balance'
      BY <3>1 DEF Balance
    <3>3. ASSUME dumps[1].quiet, quiet, NEW k \in KeySet
          PROVE  new.sum[k] - dumps[1].sum[k] = between[k]
      <4>1. between[k] + dumps[1].sum[k] = SumOverCpus(hits, k)
        BY <1>0, <2>10, <3>3 DEF Balance
      <4>2. new.sum[k] = SumOverCpus(hits, k)
        BY <2>3, <3>3
      <4>3. dumps[1] \in Dump
        <5>1. 1 \in 1 .. Len(dumps)
          BY <2>10
        <5>. QED BY <2>5, <5>1, ElementOfSeq
      <4>4. dumps[1].sum[k] \in Nat /\ between[k] \in Nat
        BY <2>5, <4>3 DEF Dump
      <4>. QED BY <4>1, <4>2, <4>4
    <3>4. DeltaExact'
      BY <2>1, <2>4, <3>1, <3>3 DEF DeltaExact, delta
    <3>. QED BY <2>7, <2>8, <3>2, <3>4 DEF DeltaInv
  <2>11. Len(dumps) = 0 \/ Len(dumps) = 1
    <3>1. \A n \in Nat : n < 2 => n = 0 \/ n = 1
      OBVIOUS
    <3>. QED BY <2>5, <3>1, Zenon
  <2>. QED BY <2>9, <2>10, <2>11
<1>7. CASE UNCHANGED counterVars
  <2>1. /\ quiet' = quiet /\ hits' = hits /\ between' = between /\ dumps' = dumps
        /\ dumping' = dumping /\ lo' = lo /\ todo' = todo
    BY <1>7 DEF counterVars, cpuVars, dumpVars, cursor
  <2>2. QuietStill' /\ DumpTypes'
    BY <1>0, <2>1 DEF QuietStill, DumpTypes
  <2>3. Balance' /\ DeltaExact'
    BY <1>0, <2>1 DEF Balance, DeltaExact, delta
  <2>. QED BY <2>2, <2>3 DEF DeltaInv
<1>. QED BY <1>1, <1>2, <1>3, <1>4, <1>5, <1>6, <1>7 DEF CountersNext

\* What run.sh reports for a counter is what was counted between its two dumps,
\* if no frame was in flight during either, for any number of CPUs.
THEOREM DeltaExactSafe == CountersSpec => []DeltaExact
<1>1. CountersInit => DeltaInv
  <2>. SUFFICES ASSUME CountersInit PROVE DeltaInv
    OBVIOUS
  <2>1. Len(dumps) = 0 /\ dumps \in Seq(Dump)
    BY DEF CountersInit
  <2>2. QuietStill /\ DumpTypes
    BY <2>1 DEF CountersInit, QuietStill, DumpTypes
  <2>3. Balance /\ DeltaExact
    BY <2>1 DEF CountersInit, Balance, DeltaExact
  <2>. QED BY <2>2, <2>3 DEF DeltaInv
<1>2. DeltaInv => DeltaExact
  BY DEF DeltaInv
<1>. QED BY <1>1, <1>2, CountInit, CountStep, DeltaStep, PTL DEF CountersSpec
=============================================================================
