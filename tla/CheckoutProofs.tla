--------------------------- MODULE CheckoutProofs ---------------------------
(* Where the commands of a chat run, for any size.  First the background       *)
(* shells: any number of tasks and of callers of Close.  Then the checkout of  *)
(* a chat of its own: any number of commits, and of steps that fail, damages   *)
(* and restarts.                                                               *)
EXTENDS TaskManager, SessionWorktree, TLAPS

-----------------------------------------------------------------------------
(* Background shells. *)

(***************************************************************************)
(* The inductive invariant.                                                *)
(***************************************************************************)

\* A task that has not begun, or never got a process, has none.
NoProcessYet(t) ==
    /\ runner[t] \in {"off", "launching", "refused"} => living[t] = {}
    /\ runner[t] = "off" => logFile[t] = "none"

\* The goroutine leaves neither a shell, nor a holder of its output, nor an open log
\* behind.
EndsClean(t) ==
    /\ runner[t] \in {"draining", "drained", "over"} => "shell" \notin living[t]
    /\ runner[t] \in {"drained", "over"} => living[t] \subseteq {"quiet"}
    /\ runner[t] \in {"refused", "drained", "over"} => logFile[t] # "open"

\* Only the goroutine gives a verdict other than "cancelled", as its last step,
\* and only a log that it has left is removed.
LastStep(t) ==
    /\ verdictOf[t] \in {"completed", "failed"} => runner[t] = "over"
    /\ logFile[t] = "removed" => runner[t] = "over"

\* Only a cancellation or the end of the goroutine ends the context of a task, and a
\* cancellation that saw no process came before the goroutine had noted one.
Cancelling(t) ==
    /\ runner[t] = "over" => verdictOf[t] \in Verdicts
    /\ canceller[t] # "none" => verdictOf[t] = "cancelled"
    /\ t \in ctxOver => verdictOf[t] = "cancelled" \/ runner[t] = "over"
    /\ runner[t] \in {"killing", "waiting", "draining", "drained"} => t \in started

\* Of a cancelled command nothing runs, or a kill is still to come: by its goroutine
\* before it waits, or else by the canceller.
CancelledClean(t) ==
    t \in Reached /\ verdictOf[t] = "cancelled"
        /\ runner[t] \in {"waiting", "draining", "drained", "over"} =>
            living[t] = {} \/ canceller[t] \in {"contextKill", "kill"}

Booked(t) == NoProcessYet(t) /\ EndsClean(t) /\ LastStep(t) /\ Cancelling(t) /\ CancelledClean(t)
Books == \A t \in Procs : Booked(t)

\* A task is listed until its goroutine is over, so a call of Close finds it,
\* and the gate keeps later ones out.
Alive(t) == runner[t] \notin {"off", "over"}
Found ==
    /\ \A t \in Procs : Alive(t) => t \in listed
    /\ closer.pc # "off" => shutGate
    /\ closer.pc \in {"cancelling", "waiting"} =>
            \A t \in Procs : Alive(t) => t \in closer.all
    /\ closer.pc = "returned" => observed = {} /\ \A t \in Procs : ~Alive(t)

PInv == ProcTypeOK /\ Books /\ Found

-----------------------------------------------------------------------------

LEMMA InitHolds == ProcInit => PInv
  <1> SUFFICES ASSUME ProcInit PROVE PInv
    OBVIOUS
  <1>1. ProcTypeOK
    BY DEF ProcInit, ProcTypeOK, NoCloser, RunnerSteps, Verdicts
  <1>2. Books
    BY DEF ProcInit, Books, Booked, NoProcessYet, EndsClean, LastStep, Cancelling, CancelledClean
  <1>3. Found
    BY DEF ProcInit, Found, Alive, NoCloser
  <1> QED BY <1>1, <1>2, <1>3 DEF PInv

\* A kill leaves nobody of a command that it reaches, and never brings a process back.
LEMMA KillLeaves ==
  ASSUME NEW t \in Procs, ProcTypeOK, Kill(t)
  PROVE  /\ living' \in [Procs -> SUBSET ({"shell"} \union Descendants)]
         /\ \A u \in Procs \ {t} : living'[u] = living[u]
         /\ "shell" \notin living'[t]
         /\ "shell" \notin living[t] => living'[t] \subseteq living[t]
         /\ t \in Reached => living'[t] = {}
         /\ UNCHANGED exitOK
  <1>1. PICK left \in Survivors(t) : living' = [living EXCEPT ![t] = left]
    BY DEF Kill
  <1>2. /\ left \subseteq Descendants \/ ("shell" \notin living[t] /\ left \subseteq living[t])
        /\ "shell" \notin living[t] => left \subseteq living[t]
        /\ t \in Reached => left = {}
    BY DEF Survivors
  <1>3. living[t] \subseteq {"shell"} \union Descendants
    BY DEF ProcTypeOK
  <1>4. left \subseteq Descendants
    BY <1>2, <1>3
  <1> QED BY <1>1, <1>2, <1>4 DEF Kill, ProcTypeOK, Descendants

LEMMA TypeStep == ProcTypeOK /\ [ProcNext]_procVars => ProcTypeOK'
  <1> SUFFICES ASSUME ProcTypeOK, [ProcNext]_procVars
               PROVE  ProcTypeOK'
    OBVIOUS
  <1> USE DEF ProcTypeOK, Verdicts, RunnerSteps, NoCloser
  <1>1. ASSUME NEW t \in Procs, StartProc(t) PROVE ProcTypeOK'
    BY <1>1 DEF StartProc, Moves, osVars, closeVars
  <1>2. ASSUME NEW t \in Procs, RunStep(t) PROVE ProcTypeOK'
    <2>1. CASE LaunchOK(t)
      BY <2>1 DEF LaunchOK, Moves, closeVars
    <2>2. CASE LaunchFails(t)
      BY <2>2 DEF LaunchFails, LogCloses, Moves, osVars, closeVars
    <2>3. CASE Refused(t)
      BY <2>3 DEF Refused, Moves, osVars, closeVars
    <2>4. CASE Launched(t)
      BY <2>4 DEF Launched, AfterLaunch, Moves, osVars, closeVars
    <2>5. CASE RunKills(t)
      BY <2>5, KillLeaves DEF RunKills, Moves, closeVars
    <2>6. CASE ShellReaped(t)
      BY <2>6 DEF ShellReaped, Moves, closeVars
    <2>7. CASE Drained(t)
      BY <2>7 DEF Drained, LogCloses, Moves, osVars, closeVars
    <2>8. CASE Settled(t)
      BY <2>8 DEF Settled, SettledAs, Moves, osVars, closeVars
    <2> QED BY <1>2, <2>1, <2>2, <2>3, <2>4, <2>5, <2>6, <2>7, <2>8 DEF RunStep
  <1>3. ASSUME NEW t \in Procs, Observe(t) PROVE ProcTypeOK'
    BY <1>3 DEF Observe, osVars, runVars, closeVars
  <1>4. ASSUME NEW t \in Procs, ShellExits(t) \/ DescendantEnds(t) PROVE ProcTypeOK'
    <2>1. CASE ShellExits(t)
      <3>1. PICK left \in SUBSET Descendants : living' = [living EXCEPT ![t] = left]
        BY <2>1 DEF ShellExits
      <3>2. living' \in [Procs -> SUBSET ({"shell"} \union Descendants)]
        BY <3>1
      <3> QED BY <2>1, <3>2 DEF ShellExits, runVars, closeVars
    <2>2. CASE DescendantEnds(t)
      <3>1. living' \in [Procs -> SUBSET ({"shell"} \union Descendants)]
        BY <2>2 DEF DescendantEnds
      <3> QED BY <2>2, <3>1 DEF DescendantEnds, runVars, closeVars
    <2> QED BY <1>4, <2>1, <2>2
  <1>5. ASSUME NEW t \in Procs, ContextKills(t) PROVE ProcTypeOK'
    BY <1>5, KillLeaves DEF ContextKills, runVars, closeVars
  <1>6. ASSUME NEW t \in Procs, CancelBegins(t) \/ CloseCancels(t) PROVE ProcTypeOK'
    BY <1>6 DEF CancelBegins, CloseCancels, CancelWins, osVars, closeVars
  <1>7. ASSUME NEW t \in Procs, CancelStep(t) PROVE ProcTypeOK'
    <2>1. CASE CancelContext(t)
      BY <2>1 DEF CancelContext, osVars, closeVars
    <2>2. CASE CancelKills(t)
      BY <2>2, KillLeaves DEF CancelKills, runVars, closeVars
    <2> QED BY <1>7, <2>1, <2>2 DEF CancelStep
  <1>8. ASSUME NEW t \in Procs, CleanupOne(t) PROVE ProcTypeOK'
    BY <1>8 DEF CleanupOne, osVars, closeVars
  <1>9. CASE CloseBegins \/ CloseWaits \/ CloseReturns \/ CloseTimesOut
    <2>1. CASE CloseBegins
      BY <2>1 DEF CloseBegins, osVars, runVars
    <2>2. CASE CloseWaits \/ CloseReturns \/ CloseTimesOut
      BY <2>2 DEF CloseWaits, CloseReturns, CloseTimesOut, osVars, runVars
    <2> QED BY <1>9, <2>1, <2>2
  <1>10. CASE UNCHANGED procVars
    BY <1>10 DEF procVars, osVars, runVars, closeVars
  <1> QED
    BY <1>1, <1>2, <1>3, <1>4, <1>5, <1>6, <1>7, <1>8, <1>9, <1>10 DEF ProcNext

(***************************************************************************)
(* What one step does to one task.                                         *)
(***************************************************************************)

\* The goroutine's own steps keep the books of its task and of the others.
LEMMA RunBooks ==
  ASSUME NEW t \in Procs, ProcTypeOK, Books, RunStep(t)
  PROVE  Books'
  <1> SUFFICES ASSUME NEW u \in Procs PROVE Booked(u)'
    BY DEF Books
  <1>a. Booked(u)
    BY DEF Books
  <1> USE DEF Booked, NoProcessYet, EndsClean, LastStep, Cancelling, CancelledClean, ProcTypeOK,
             Moves, Verdicts
  <1>1. CASE LaunchOK(t)
    BY <1>1, <1>a DEF LaunchOK
  <1>2. CASE LaunchFails(t)
    BY <1>2, <1>a DEF LaunchFails, LogCloses, osVars
  <1>3. CASE Refused(t)
    BY <1>3, <1>a DEF Refused, osVars
  <1>4. CASE Launched(t)
    BY <1>4, <1>a DEF Launched, AfterLaunch, osVars
  <1>5. CASE RunKills(t)
    <2>1. /\ runner[t] = "killing" /\ runner' = [runner EXCEPT ![t] = "waiting"]
          /\ UNCHANGED <<verdictOf, started, ctxOver, logFile, canceller>>
      BY <1>5 DEF RunKills
    <2>2. /\ \A v \in Procs \ {t} : living'[v] = living[v]
          /\ t \in Reached => living'[t] = {}
      BY <1>5, KillLeaves DEF RunKills
    <2>3. CASE u # t
      BY <2>1, <2>2, <2>3, <1>a
    <2>4. CASE u = t
      BY <2>1, <2>2, <2>4, <1>a
    <2> QED BY <2>3, <2>4
  <1>6. CASE ShellReaped(t)
    BY <1>6, <1>a DEF ShellReaped
  <1>7. CASE Drained(t)
    <2>1. /\ runner[t] = "draining" /\ runner' = [runner EXCEPT ![t] = "drained"]
          /\ logFile' = [logFile EXCEPT ![t] = IF @ = "open" THEN "closed" ELSE @]
          /\ UNCHANGED <<living, verdictOf, started, ctxOver, canceller>>
          /\ "holder" \notin living[t]
      BY <1>7 DEF Drained, LogCloses, osVars
    <2>2. CASE u # t
      BY <2>1, <2>2, <1>a
    <2>3. CASE u = t
      <3>1. living[t] \subseteq {"quiet"}
        BY <2>1, <2>3, <1>a DEF Descendants
      <3> QED BY <2>1, <2>3, <3>1, <1>a
    <2> QED BY <2>2, <2>3
  <1>8. CASE Settled(t)
    BY <1>8, <1>a DEF Settled, SettledAs, osVars
  <1> QED BY <1>1, <1>2, <1>3, <1>4, <1>5, <1>6, <1>7, <1>8 DEF RunStep

LEMMA BooksStep == ProcTypeOK /\ Books /\ [ProcNext]_procVars => Books'
  <1> SUFFICES ASSUME ProcTypeOK, Books, [ProcNext]_procVars,
                      NEW u \in Procs
               PROVE  Booked(u)'
    BY DEF Books
  <1>a. Booked(u)
    BY DEF Books
  <1> USE DEF Booked, NoProcessYet, EndsClean, LastStep, Cancelling, CancelledClean, ProcTypeOK,
             Verdicts
  <1>1. ASSUME NEW t \in Procs, StartProc(t) PROVE Booked(u)'
    BY <1>1, <1>a DEF StartProc, Moves, osVars
  <1>2. ASSUME NEW t \in Procs, RunStep(t) PROVE Booked(u)'
    BY <1>2, RunBooks DEF Books
  <1>3. ASSUME NEW t \in Procs, Observe(t) PROVE Booked(u)'
    BY <1>3, <1>a DEF Observe, osVars, runVars
  <1>4. ASSUME NEW t \in Procs, ShellExits(t) \/ DescendantEnds(t)
        PROVE Booked(u)'
    BY <1>4, <1>a DEF ShellExits, DescendantEnds, Descendants, runVars
  <1>5. ASSUME NEW t \in Procs, ContextKills(t) PROVE Booked(u)'
    BY <1>5, <1>a, KillLeaves DEF ContextKills, runVars
  <1>6. ASSUME NEW t \in Procs, CancelBegins(t) \/ CloseCancels(t)
        PROVE Booked(u)'
    BY <1>6, <1>a DEF CancelBegins, CloseCancels, CancelWins, osVars
  <1>7. ASSUME NEW t \in Procs, CancelStep(t) PROVE Booked(u)'
    <2>1. CASE CancelContext(t)
      BY <2>1, <1>a DEF CancelContext, osVars
    <2>2. CASE CancelKills(t)
      BY <2>2, <1>a, KillLeaves DEF CancelKills, runVars
    <2> QED BY <1>7, <2>1, <2>2 DEF CancelStep
  <1>8. ASSUME NEW t \in Procs, CleanupOne(t) PROVE Booked(u)'
    BY <1>8, <1>a DEF CleanupOne, MayClean, IsDone, osVars
  <1>9. CASE CloseBegins \/ CloseWaits \/ CloseReturns \/ CloseTimesOut
    BY <1>9, <1>a DEF CloseBegins, CloseWaits, CloseReturns, CloseTimesOut, osVars, runVars
  <1>10. CASE UNCHANGED procVars
    BY <1>10, <1>a DEF procVars, osVars, runVars
  <1> QED
    BY <1>1, <1>2, <1>3, <1>4, <1>5, <1>6, <1>7, <1>8, <1>9, <1>10 DEF ProcNext

\* No step but a start brings a task to life, and a start is seen by everybody.
LEMMA OnlyStartRevives ==
  ASSUME ProcTypeOK, [ProcNext]_procVars, NEW u \in Procs, Alive(u)', ~Alive(u)
  PROVE  StartProc(u)
  <1> USE DEF Alive
  <1>1. ASSUME NEW t \in Procs, StartProc(t) PROVE StartProc(u)
    BY <1>1 DEF StartProc, Moves, ProcTypeOK
  <1>2. ASSUME NEW t \in Procs, RunStep(t) PROVE FALSE
    BY <1>2 DEF RunStep, LaunchOK, LaunchFails, Refused, Launched, RunKills, ShellReaped,
                Drained, Settled, Moves, ProcTypeOK
  <1>3. ASSUME runner' = runner PROVE FALSE
    BY <1>3
  <1>4. ASSUME NEW t \in Procs,
               Observe(t) \/ ShellExits(t) \/ DescendantEnds(t) \/ ContextKills(t)
                \/ CancelBegins(t) \/ CancelStep(t) \/ CleanupOne(t) \/ CloseCancels(t)
        PROVE runner' = runner
    BY <1>4 DEF Observe, ShellExits, DescendantEnds, ContextKills, CancelBegins, CancelStep,
                CancelContext, CancelKills, CleanupOne, CloseCancels, runVars
  <1>5. ASSUME CloseBegins \/ CloseWaits \/ CloseReturns \/ CloseTimesOut
        PROVE runner' = runner
    BY <1>5 DEF CloseBegins, CloseWaits, CloseReturns, CloseTimesOut, runVars
  <1>6. ASSUME UNCHANGED procVars PROVE runner' = runner
    BY <1>6 DEF procVars, runVars
  <1> QED
    BY <1>1, <1>2, <1>3, <1>4, <1>5, <1>6 DEF ProcNext

LEMMA FoundStep == PInv /\ [ProcNext]_procVars => Found'
  <1> SUFFICES ASSUME PInv, [ProcNext]_procVars PROVE Found'
    OBVIOUS
  <1>a. ProcTypeOK /\ Found
    BY DEF PInv
  <1>b. ASSUME NEW u \in Procs, Alive(u)', ~Alive(u)
        PROVE ~shutGate /\ u \in listed' /\ UNCHANGED closeVars
    BY <1>a, <1>b, OnlyStartRevives DEF StartProc
  <1>1. ASSUME NEW t \in Procs, StartProc(t) PROVE Found'
    <2>1. /\ ~shutGate /\ UNCHANGED <<shutGate, closer>> /\ listed \subseteq listed'
      BY <1>1 DEF StartProc, closeVars
    <2>2. closer.pc = "off"
      BY <1>a, <2>1 DEF Found
    <2>3. \A u \in Procs : Alive(u)' => u \in listed'
      BY <1>a, <1>b, <2>1 DEF Found
    <2> QED BY <2>1, <2>2, <2>3 DEF Found
  <1>2. ASSUME closer'.pc = closer.pc, closer'.all = closer.all, shutGate' = shutGate,
               listed' = listed,
               observed' \subseteq observed, \A u \in Procs : Alive(u)' => Alive(u)
        PROVE Found'
    BY <1>2, <1>a DEF Found
  <1>3. ASSUME \A t \in Procs : ~StartProc(t)
        PROVE  \A u \in Procs : Alive(u)' => Alive(u)
    BY <1>3, <1>a, OnlyStartRevives
  <1>4. ASSUME NEW t \in Procs, RunStep(t) PROVE Found'
    BY <1>4, <1>2, <1>a DEF RunStep, LaunchOK, LaunchFails, Refused, Launched, RunKills,
          ShellReaped, Drained, Settled, Moves, ProcTypeOK, Alive, closeVars
  <1>5. ASSUME NEW t \in Procs,
               Observe(t) \/ ShellExits(t) \/ DescendantEnds(t) \/ ContextKills(t)
                \/ CancelBegins(t) \/ CancelStep(t)
        PROVE Found'
    BY <1>5, <1>2 DEF Observe, ShellExits, DescendantEnds, ContextKills, CancelBegins, CancelStep,
                CancelContext, CancelKills, runVars, closeVars, Alive
  <1>6. ASSUME NEW t \in Procs, CleanupOne(t) PROVE Found'
    <2>1. ~Alive(t) /\ listed' = listed \ {t} /\ runner' = runner
          /\ UNCHANGED <<shutGate, closer, observed>>
      BY <1>6 DEF CleanupOne, MayClean, IsDone, Alive, closeVars
    <2> QED BY <2>1, <1>a DEF Found, Alive
  <1>7. CASE CloseBegins
    BY <1>7, <1>a DEF CloseBegins, Found, Alive, runVars
  <1>8. CASE CloseWaits
    BY <1>8, <1>a DEF CloseWaits, Found, Alive, runVars, ProcTypeOK
  <1>9. CASE CloseReturns
    BY <1>9, <1>a DEF CloseReturns, MayReturn, IsDone, NoCloser, Found, Alive, runVars
  <1>10. CASE CloseTimesOut
    BY <1>10, <1>a DEF CloseTimesOut, NoCloser, Found, Alive, runVars
  <1>11. ASSUME NEW t \in Procs, CloseCancels(t) PROVE Found'
    <2>1. closer'.pc = closer.pc /\ closer'.all = closer.all
      BY <1>11, <1>a DEF CloseCancels, ProcTypeOK
    <2> QED BY <2>1, <1>11, <1>2 DEF CloseCancels, Alive
  <1>12. CASE UNCHANGED procVars
    BY <1>12, <1>2 DEF procVars, runVars, closeVars, Alive
  <1> QED
    BY <1>1, <1>4, <1>5, <1>6, <1>7, <1>8, <1>9, <1>10, <1>11, <1>12 DEF ProcNext

\* The tasks, the calls and what the operating system runs keep their types, and
\* the invariant holds whatever the schedule.
THEOREM ProcTypeCorrect == ProcSpec => []PInv
  <1>1. PInv /\ [ProcNext]_procVars => PInv'
    BY TypeStep, BooksStep, FoundStep DEF PInv
  <1> QED BY InitHolds, <1>1, PTL DEF ProcSpec

\* What the teardown of a project relies on: a Close that returned is a barrier,
\* and no log is removed under a command that still writes it.
THEOREM TeardownsAreSafe == ProcSpec => []TeardownIsSafe
  <1>1. ASSUME PInv PROVE CloseIsBarrier
    <2> SUFFICES ASSUME closer.pc = "returned", NEW t \in Procs
                 PROVE  /\ living[t] \subseteq {"quiet"} /\ logFile[t] # "open"
                        /\ t \in Reached /\ verdictOf[t] = "cancelled" /\ living[t] # {} =>
                                canceller[t] \in {"contextKill", "kill"}
      BY <1>1 DEF CloseIsBarrier, PInv, Found
    <2>1. runner[t] \in {"off", "over"}
      BY <1>1 DEF PInv, Found, Alive
    <2> QED BY <1>1, <2>1 DEF PInv, Books, Booked, NoProcessYet, EndsClean, CancelledClean
  <1>2. ASSUME PInv PROVE LogOutlivesWriters
    BY <1>2 DEF PInv, Books, Booked, EndsClean, LastStep, LogOutlivesWriters, IsDone
  <1>3. PInv => TeardownIsSafe
    BY <1>1, <1>2 DEF TeardownIsSafe
  <1> QED BY ProcTypeCorrect, <1>3, PTL

\* Whoever cancels a task and however its shell ends, its first verdict stands.
THEOREM FirstVerdictStands == ProcSpec => VerdictStands
  <1>1. ASSUME PInv, [ProcNext]_procVars, NEW u \in Procs, verdictOf[u] \in Verdicts
        PROVE verdictOf'[u] = verdictOf[u]
    <2> USE DEF Verdicts
    <2>a. verdictOf \in [Procs -> {"none", "running"} \union Verdicts]
      BY <1>1 DEF PInv, ProcTypeOK
    <2>b. verdictOf[u] # "cancelled" => runner[u] = "over"
      BY <1>1 DEF PInv, Books, Booked, LastStep
    <2>1. ASSUME NEW t \in Procs, StartProc(t) PROVE verdictOf'[u] = verdictOf[u]
      BY <1>1, <2>1, <2>a DEF StartProc
    <2>2. ASSUME NEW t \in Procs, Refused(t) PROVE verdictOf'[u] = verdictOf[u]
      BY <1>1, <2>2, <2>a, <2>b DEF Refused, Moves
    <2>3. ASSUME NEW t \in Procs, Settled(t) PROVE verdictOf'[u] = verdictOf[u]
      BY <1>1, <2>3, <2>a, <2>b DEF Settled, SettledAs, Moves
    <2>4. ASSUME NEW t \in Procs, RunStep(t), ~Refused(t), ~Settled(t)
          PROVE verdictOf' = verdictOf
      BY <2>4 DEF RunStep, LaunchOK, LaunchFails, Launched, RunKills, ShellReaped, Drained
    <2>5. ASSUME NEW t \in Procs, CancelBegins(t) \/ CloseCancels(t)
          PROVE verdictOf'[u] = verdictOf[u]
      BY <1>1, <2>5, <2>a DEF CancelBegins, CloseCancels, CancelWins
    <2>6. ASSUME NEW t \in Procs,
                 Observe(t) \/ ShellExits(t) \/ DescendantEnds(t) \/ ContextKills(t)
                  \/ CancelStep(t) \/ CleanupOne(t)
          PROVE verdictOf' = verdictOf
      BY <2>6 DEF Observe, ShellExits, DescendantEnds, ContextKills, CancelStep, CancelContext,
                  CancelKills, CleanupOne, runVars
    <2>7. ASSUME CloseBegins \/ CloseWaits \/ CloseReturns \/ CloseTimesOut
          PROVE verdictOf' = verdictOf
      BY <2>7 DEF CloseBegins, CloseWaits, CloseReturns, CloseTimesOut, runVars
    <2>8. ASSUME UNCHANGED procVars PROVE verdictOf' = verdictOf
      BY <2>8 DEF procVars, runVars
    <2> QED
      BY <1>1, <2>1, <2>2, <2>3, <2>4, <2>5, <2>6, <2>7, <2>8 DEF ProcNext
  <1>2. PInv /\ [ProcNext]_procVars =>
          [\A t \in Procs : verdictOf[t] \in Verdicts => verdictOf'[t] = verdictOf[t]]_procVars
    BY <1>1
  <1> QED BY ProcTypeCorrect, <1>2, PTL DEF ProcSpec, VerdictStands

-----------------------------------------------------------------------------
(* The checkout of a chat. *)

\* The type invariant, apart for files, flags and records.
FilesOK ==
    /\ history \in {"absent", "empty", "used"} /\ record \in {"absent", "good", "bad"}
    /\ tree \in {"absent", "fit", "unfit"} /\ ahead \in 0..MaxCommits /\ troubles \in 0..MaxTroubles
    /\ removal \in {"never", "now", "earlier"}
FlagsOK ==
    /\ branch \in BOOLEAN /\ dirty \in BOOLEAN
    /\ open \in BOOLEAN /\ used \in BOOLEAN /\ path \in BOOLEAN /\ wtError \in BOOLEAN
    /\ manager \in BOOLEAN /\ given \in BOOLEAN /\ lateCommit \in BOOLEAN
    /\ shell \in BOOLEAN /\ stray \in BOOLEAN

Turn == [step : {"none", "entered", "armed", "rounds"}, dir : {"none", "own", "project"},
         stopped : BOOLEAN, busy : BOOLEAN]
Work == [kind : {"none", "create", "delete", "prune"},
         step : {"none", "add", "note", "list", "open", "history", "look", "close", "again",
                 "tree", "branch", "record", "forget", "unlist"},
         look : 0..MaxCommits]
RecordsOK == agent \in Turn /\ chore \in Work

\* The records of the turn and of the chore.
AgentOK ==
    /\ agent.step = "none" => agent = NoAgent
    /\ agent.busy => agent.step = "rounds"
    /\ agent.step \in {"none", "entered"} => agent.dir = "none"

ChoreOK ==
    /\ chore.kind = "none" => chore.step = "none"
    /\ chore.step \in {"add", "note", "list", "open"} => chore.kind = "create"
    /\ chore.step = "unlist" => chore.kind = "prune"

\* A chat that is created is not open, and nothing works in its checkout yet.
CreateOK ==
    /\ chore.kind = "create" => ~open /\ agent = NoAgent /\ ~manager /\ ~shell /\ ~stray
    /\ chore.step \in {"add", "note"} => ahead = 0 /\ ~given
    /\ chore.step \in {"add", "note", "list", "open"} => removal = "never"
    /\ chore.step \in {"list", "open"} => record # "absent" /\ path

\* A removal has stopped the turn, and closed the shells before its last look.
RemovalOK ==
    /\ chore.kind \in {"delete", "prune"} => agent.step = "none" \/ agent.stopped
    /\ chore.step \in {"again", "tree", "branch", "record", "forget"} => ~manager
    /\ chore.step \in {"branch", "record"} => removal = "now"
    /\ chore.step \in {"tree", "branch"} => chore.look = ahead \/ lateCommit

\* A checkout that was removed stays away, and only then does its record.
GoneOK ==
    /\ removal # "never" => tree = "absent"
    /\ given /\ record = "absent" => removal # "never"

\* Who has a checkout knows it, or knows that it is damaged.
OpenOK ==
    /\ given /\ removal # "earlier" /\ open => path \/ wtError
    /\ agent.step # "none" /\ ~agent.stopped => open
    /\ manager => path
    /\ shell => manager

\* A turn that met the removal of its chat calls no tool in the project.
ClosedOK ==
    given /\ removal # "earlier" /\ agent.dir = "project" => agent.stopped /\ ~agent.busy

TreeInv ==
    /\ FilesOK /\ FlagsOK /\ RecordsOK
    /\ AgentOK /\ ChoreOK /\ CreateOK /\ RemovalOK /\ GoneOK /\ OpenOK /\ ClosedOK

USE WorktreeAssumption

LEMMA Flags ==
  ASSUME NEW a, NEW b, NEW c, NEW d, NEW e, NEW f, NEW g
  PROVE  {a, b, c, d, e, f, g} \subseteq BOOLEAN
         <=> /\ a \in BOOLEAN /\ b \in BOOLEAN /\ c \in BOOLEAN /\ d \in BOOLEAN
             /\ e \in BOOLEAN /\ f \in BOOLEAN /\ g \in BOOLEAN
  <1> DEFINE S == {a, b, c, d, e, f, g}
  <1>1. a \in S /\ b \in S /\ c \in S /\ d \in S /\ e \in S /\ f \in S /\ g \in S
    OBVIOUS
  <1>2. ASSUME S \subseteq BOOLEAN
        PROVE  /\ a \in BOOLEAN /\ b \in BOOLEAN /\ c \in BOOLEAN /\ d \in BOOLEAN
               /\ e \in BOOLEAN /\ f \in BOOLEAN /\ g \in BOOLEAN
    <2> HIDE DEF S
    <2> QED BY <1>1, <1>2, Zenon
  <1>3. ASSUME a \in BOOLEAN, b \in BOOLEAN, c \in BOOLEAN, d \in BOOLEAN,
               e \in BOOLEAN, f \in BOOLEAN, g \in BOOLEAN, NEW x \in S
        PROVE  x \in BOOLEAN
    <2>1. x = a \/ x = b \/ x = c \/ x = d \/ x = e \/ x = f \/ x = g
      BY <1>3
    <2> HIDE DEF S
    <2> QED BY <2>1, <1>3, Zenon
  <1> HIDE DEF S
  <1>4. S \subseteq BOOLEAN
        <=> /\ a \in BOOLEAN /\ b \in BOOLEAN /\ c \in BOOLEAN /\ d \in BOOLEAN
            /\ e \in BOOLEAN /\ f \in BOOLEAN /\ g \in BOOLEAN
    BY <1>2, <1>3, Zenon
  <1> QED BY <1>4, Zenon DEF S

LEMMA TypeIs == TreeTypeOK <=> FilesOK /\ FlagsOK /\ RecordsOK
  <1>1. {open, used, path, wtError, manager, given, lateCommit} \subseteq BOOLEAN
        <=> /\ open \in BOOLEAN /\ used \in BOOLEAN /\ path \in BOOLEAN /\ wtError \in BOOLEAN
            /\ manager \in BOOLEAN /\ given \in BOOLEAN /\ lateCommit \in BOOLEAN
    BY Flags, Zenon
  <1> QED
    BY <1>1, Zenon DEF TreeTypeOK, FilesOK, FlagsOK, RecordsOK, Turn, Work

\* The parts of the invariant and the auxiliaries are small, and every part may be
\* disturbed by almost every action; they are expanded from here on, so that each
\* step below says which action it is about and names the parts it has preserved.
USE DEF NoAgent, NoChore, ChoreGoes, Trouble, NoTrouble, diskVars, chatVars, shellVars,
        auxVars, Turn, Work, FilesOK, FlagsOK, RecordsOK

LEMMA InitTreeInv == TreeInit => TreeInv
  <1> SUFFICES ASSUME TreeInit PROVE TreeInv
    OBVIOUS
  <1> USE DEF TreeInit
  <1>1. RecordsOK
    OBVIOUS
  <1>2. FilesOK
    OBVIOUS
  <1>3. FlagsOK
    BY Zenon
  <1>4. AgentOK /\ ChoreOK /\ ClosedOK /\ RemovalOK
    BY DEF AgentOK, ChoreOK, ClosedOK, RemovalOK
  <1>5. CreateOK /\ GoneOK /\ OpenOK
    BY DEF CreateOK, GoneOK, OpenOK
  <1> QED BY <1>1, <1>2, <1>3, <1>4, <1>5, Zenon DEF TreeInv

USE DEF TreeInv, AgentOK, ChoreOK, CreateOK, RemovalOK, GoneOK, OpenOK, ClosedOK

-----------------------------------------------------------------------------
(* The creation of a chat. *)

LEMMA AddTreeStep == ASSUME TreeInv, AddTree PROVE TreeInv'
  <1> USE DEF AddTree
  <1>1. FilesOK'                   OBVIOUS
  <1>2. FlagsOK'                   OBVIOUS
  <1>3. RecordsOK'                 OBVIOUS
  <1>4. AgentOK' /\ ClosedOK'      OBVIOUS
  <1>5. ChoreOK' /\ CreateOK'      OBVIOUS
  <1>6. RemovalOK'                 OBVIOUS
  <1>7. GoneOK' /\ OpenOK'         OBVIOUS
  <1> QED BY <1>1, <1>2, <1>3, <1>4, <1>5, <1>6, <1>7, Zenon

LEMMA NoteTreeStep == ASSUME TreeInv, NoteTree PROVE TreeInv'
  <1> USE DEF NoteTree
  <1>1. FilesOK'                   OBVIOUS
  <1>2. FlagsOK'                   OBVIOUS
  <1>3. RecordsOK'                 OBVIOUS
  <1>4. AgentOK' /\ ClosedOK'      OBVIOUS
  <1>5. ChoreOK' /\ CreateOK'      OBVIOUS
  <1>6. RemovalOK'                 OBVIOUS
  <1>7. GoneOK' /\ OpenOK'         OBVIOUS
  <1> QED BY <1>1, <1>2, <1>3, <1>4, <1>5, <1>6, <1>7, Zenon

LEMMA ListChatStep == ASSUME TreeInv, ListChat PROVE TreeInv'
  <1> USE DEF ListChat
  <1>1. FilesOK'                   OBVIOUS
  <1>2. FlagsOK'                   OBVIOUS
  <1>3. RecordsOK'                 OBVIOUS
  <1>4. AgentOK' /\ ClosedOK'      OBVIOUS
  <1>5. ChoreOK' /\ CreateOK'      OBVIOUS
  <1>6. RemovalOK'                 OBVIOUS
  <1>7. GoneOK' /\ OpenOK'         OBVIOUS
  <1> QED BY <1>1, <1>2, <1>3, <1>4, <1>5, <1>6, <1>7, Zenon

LEMMA OpenChatStep == ASSUME TreeInv, OpenChat PROVE TreeInv'
  <1> USE DEF OpenChat
  <1>1. FilesOK'                   OBVIOUS
  <1>2. FlagsOK'                   OBVIOUS
  <1>3. RecordsOK'                 OBVIOUS
  <1>4. AgentOK' /\ ClosedOK'      OBVIOUS
  <1>5. ChoreOK' /\ CreateOK'      OBVIOUS
  <1>6. RemovalOK'                 OBVIOUS
  <1>7. GoneOK' /\ OpenOK'         OBVIOUS
  <1> QED BY <1>1, <1>2, <1>3, <1>4, <1>5, <1>6, <1>7, Zenon

-----------------------------------------------------------------------------
(* A turn, its tool and its shell. *)

LEMMA EnterAgentStep == ASSUME TreeInv, EnterAgent PROVE TreeInv'
  <1> USE DEF EnterAgent, ProjectFree
  <1>1. FilesOK'                   OBVIOUS
  <1>2. FlagsOK'                   OBVIOUS
  <1>3. RecordsOK'                 OBVIOUS
  <1>4. AgentOK' /\ ClosedOK'      OBVIOUS
  <1>5. ChoreOK' /\ CreateOK'      OBVIOUS
  <1>6. RemovalOK'                 OBVIOUS
  <1>7. GoneOK' /\ OpenOK'         OBVIOUS
  <1> QED BY <1>1, <1>2, <1>3, <1>4, <1>5, <1>6, <1>7, Zenon

LEMMA ArmStep == ASSUME TreeInv, Arm PROVE TreeInv'
  <1> USE DEF Arm, OutOfOrder, Usable, Shared, ProjectFree
  <1>1. CASE agent' = NoAgent
    <2> USE <1>1
    <2>1. FilesOK'                 OBVIOUS
    <2>2. FlagsOK'                 OBVIOUS
    <2>3. RecordsOK'               OBVIOUS
    <2>4. AgentOK' /\ ClosedOK'    OBVIOUS
    <2>5. ChoreOK' /\ CreateOK'    OBVIOUS
    <2>6. RemovalOK'               OBVIOUS
    <2>7. GoneOK'                  OBVIOUS
    <2>8. OpenOK'                  OBVIOUS
    <2> QED BY <2>1, <2>2, <2>3, <2>4, <2>5, <2>6, <2>7, <2>8, Zenon
  <1>2. CASE agent' # NoAgent /\ Shared
    <2> USE <1>2
    <2>1. FilesOK'                 OBVIOUS
    <2>2. FlagsOK'                 OBVIOUS
    <2>3. RecordsOK'               OBVIOUS
    <2>4. AgentOK' /\ ClosedOK'    OBVIOUS
    <2>5. ChoreOK' /\ CreateOK'    OBVIOUS
    <2>6. RemovalOK'               OBVIOUS
    <2>7. GoneOK'                  OBVIOUS
    <2>8. OpenOK'
      <3>1. /\ agent.step = "entered" /\ agent'.stopped = agent.stopped
            /\ UNCHANGED <<open, path, wtError, manager, shell, given, removal>>
        OBVIOUS
      <3> HIDE DEF Arm
      <3> QED BY <3>1
    <2> QED BY <2>1, <2>2, <2>3, <2>4, <2>5, <2>6, <2>7, <2>8, Zenon
  <1>3. CASE agent' # NoAgent /\ ~Shared
    <2> USE <1>3
    <2>1. FilesOK'                 OBVIOUS
    <2>2. FlagsOK'                 OBVIOUS
    <2>3. RecordsOK'               OBVIOUS
    <2>4. AgentOK' /\ ClosedOK'    OBVIOUS
    <2>5. ChoreOK' /\ CreateOK'    OBVIOUS
    <2>6. RemovalOK'               OBVIOUS
    <2>7. GoneOK'                  OBVIOUS
    <2>8. OpenOK'                  OBVIOUS
    <2> QED BY <2>1, <2>2, <2>3, <2>4, <2>5, <2>6, <2>7, <2>8, Zenon
  <1> QED BY <1>1, <1>2, <1>3

LEMMA KeepMessageStep == ASSUME TreeInv, KeepMessage PROVE TreeInv'
  <1> USE DEF KeepMessage
  <1>1. FilesOK'                   OBVIOUS
  <1>2. FlagsOK'                   OBVIOUS
  <1>3. RecordsOK'                 OBVIOUS
  <1>4. AgentOK' /\ ClosedOK'      OBVIOUS
  <1>5. ChoreOK' /\ CreateOK'      OBVIOUS
  <1>6. RemovalOK'                 OBVIOUS
  <1>7. GoneOK' /\ OpenOK'         OBVIOUS
  <1> QED BY <1>1, <1>2, <1>3, <1>4, <1>5, <1>6, <1>7, Zenon

LEMMA CallToolStep == ASSUME TreeInv, CallTool PROVE TreeInv'
  <1> USE DEF CallTool, MayCall
  <1>1. FilesOK'                   OBVIOUS
  <1>2. FlagsOK'                   OBVIOUS
  <1>3. RecordsOK'                 OBVIOUS
  <1>4. AgentOK' /\ ClosedOK'      OBVIOUS
  <1>5. ChoreOK' /\ CreateOK'      OBVIOUS
  <1>6. RemovalOK'                 OBVIOUS
  <1>7. GoneOK' /\ OpenOK'         OBVIOUS
  <1> QED BY <1>1, <1>2, <1>3, <1>4, <1>5, <1>6, <1>7, Zenon

LEMMA ToolChangesStep == ASSUME TreeInv, ToolChanges PROVE TreeInv'
  <1> USE DEF ToolChanges, LooseChange, Change
  <1>1. FilesOK'                   OBVIOUS
  <1>2. FlagsOK'                   OBVIOUS
  <1>3. RecordsOK'                 OBVIOUS
  <1>4. AgentOK' /\ ClosedOK'      OBVIOUS
  <1>5. ChoreOK' /\ CreateOK'      OBVIOUS
  <1>6. RemovalOK'                 OBVIOUS
  <1>7. GoneOK' /\ OpenOK'         OBVIOUS
  <1> QED BY <1>1, <1>2, <1>3, <1>4, <1>5, <1>6, <1>7, Zenon

LEMMA ToolStartsShellStep == ASSUME TreeInv, ToolStartsShell PROVE TreeInv'
  <1> USE DEF ToolStartsShell
  <1>1. FilesOK'                   OBVIOUS
  <1>2. FlagsOK'                   OBVIOUS
  <1>3. RecordsOK'                 OBVIOUS
  <1>4. AgentOK' /\ ClosedOK'      OBVIOUS
  <1>5. ChoreOK' /\ CreateOK'      OBVIOUS
  <1>6. RemovalOK'                 OBVIOUS
  <1>7. GoneOK' /\ OpenOK'         OBVIOUS
  <1> QED BY <1>1, <1>2, <1>3, <1>4, <1>5, <1>6, <1>7, Zenon

LEMMA ToolEndsStep == ASSUME TreeInv, ToolEnds PROVE TreeInv'
  <1> USE DEF ToolEnds, MayLeave
  <1>1. FilesOK'                   OBVIOUS
  <1>2. FlagsOK'
    <2>1. stray' \in BOOLEAN         BY Zenon
    <2>2. UNCHANGED <<branch, dirty, open, used, path, wtError, manager, shell, given, lateCommit>>
      BY Zenon
    <2> HIDE DEF ToolEnds
    <2> QED BY <2>1, <2>2, Zenon
  <1>3. RecordsOK'                 OBVIOUS
  <1>4. AgentOK' /\ ClosedOK'      OBVIOUS
  <1>5. ChoreOK' /\ CreateOK'      OBVIOUS
  <1>6. RemovalOK'                 OBVIOUS
  <1>7. GoneOK' /\ OpenOK'         OBVIOUS
  <1> QED BY <1>1, <1>2, <1>3, <1>4, <1>5, <1>6, <1>7, Zenon

LEMMA ShellChangesStep == ASSUME TreeInv, ShellChanges PROVE TreeInv'
  <1> USE DEF ShellChanges, Change
  <1>1. FilesOK'                   OBVIOUS
  <1>2. FlagsOK'                   OBVIOUS
  <1>3. RecordsOK'                 OBVIOUS
  <1>4. AgentOK' /\ ClosedOK'      OBVIOUS
  <1>5. ChoreOK' /\ CreateOK'      OBVIOUS
  <1>6. RemovalOK'                 OBVIOUS
  <1>7. GoneOK' /\ OpenOK'         OBVIOUS
  <1> QED BY <1>1, <1>2, <1>3, <1>4, <1>5, <1>6, <1>7, Zenon

LEMMA ShellEndsStep == ASSUME TreeInv, ShellEnds PROVE TreeInv'
  <1> USE DEF ShellEnds, MayLeave
  <1>1. FilesOK'                   OBVIOUS
  <1>2. FlagsOK'                   OBVIOUS
  <1>3. RecordsOK'                 OBVIOUS
  <1>4. AgentOK' /\ ClosedOK'      OBVIOUS
  <1>5. ChoreOK' /\ CreateOK'      OBVIOUS
  <1>6. RemovalOK'                 OBVIOUS
  <1>7. GoneOK' /\ OpenOK'         OBVIOUS
  <1> QED BY <1>1, <1>2, <1>3, <1>4, <1>5, <1>6, <1>7, Zenon

LEMMA StrayChangesStep == ASSUME TreeInv, StrayChanges PROVE TreeInv'
  <1> USE DEF StrayChanges, LooseChange, Change
  <1>1. FilesOK'                   OBVIOUS
  <1>2. FlagsOK'                   OBVIOUS
  <1>3. RecordsOK'                 OBVIOUS
  <1>4. AgentOK' /\ ClosedOK'      OBVIOUS
  <1>5. ChoreOK' /\ CreateOK'      OBVIOUS
  <1>6. RemovalOK'                 OBVIOUS
  <1>7. GoneOK' /\ OpenOK'         OBVIOUS
  <1> QED BY <1>1, <1>2, <1>3, <1>4, <1>5, <1>6, <1>7, Zenon

LEMMA StrayEndsStep == ASSUME TreeInv, StrayEnds PROVE TreeInv'
  <1> USE DEF StrayEnds
  <1>1. FilesOK'                   OBVIOUS
  <1>2. FlagsOK'                   OBVIOUS
  <1>3. RecordsOK'                 OBVIOUS
  <1>4. AgentOK' /\ ClosedOK'      OBVIOUS
  <1>5. ChoreOK' /\ CreateOK'      OBVIOUS
  <1>6. RemovalOK'                 OBVIOUS
  <1>7. GoneOK' /\ OpenOK'         OBVIOUS
  <1> QED BY <1>1, <1>2, <1>3, <1>4, <1>5, <1>6, <1>7, Zenon

LEMMA StopAgentStep == ASSUME TreeInv, StopAgent PROVE TreeInv'
  <1> USE DEF StopAgent
  <1>1. FilesOK'                   OBVIOUS
  <1>2. FlagsOK'                   OBVIOUS
  <1>3. RecordsOK'                 OBVIOUS
  <1>4. AgentOK' /\ ClosedOK'      OBVIOUS
  <1>5. ChoreOK' /\ CreateOK'      OBVIOUS
  <1>6. RemovalOK'                 OBVIOUS
  <1>7. GoneOK' /\ OpenOK'         OBVIOUS
  <1> QED BY <1>1, <1>2, <1>3, <1>4, <1>5, <1>6, <1>7, Zenon

LEMMA EndAgentStep == ASSUME TreeInv, EndAgent PROVE TreeInv'
  <1> USE DEF EndAgent
  <1>1. FilesOK'                   OBVIOUS
  <1>2. FlagsOK'                   OBVIOUS
  <1>3. RecordsOK'                 OBVIOUS
  <1>4. AgentOK' /\ ClosedOK'      OBVIOUS
  <1>5. ChoreOK' /\ CreateOK'      OBVIOUS
  <1>6. RemovalOK'                 OBVIOUS
  <1>7. GoneOK' /\ OpenOK'         OBVIOUS
  <1> QED BY <1>1, <1>2, <1>3, <1>4, <1>5, <1>6, <1>7, Zenon

-----------------------------------------------------------------------------
(* Deletion and prune. *)

LEMMA BeginDeleteStep == ASSUME TreeInv, BeginDelete PROVE TreeInv'
  <1> USE DEF BeginDelete
  <1>1. FilesOK'                   OBVIOUS
  <1>2. FlagsOK'                   OBVIOUS
  <1>3. RecordsOK'                 OBVIOUS
  <1>4. AgentOK' /\ ClosedOK'      OBVIOUS
  <1>5. ChoreOK' /\ CreateOK'      OBVIOUS
  <1>6. RemovalOK'                 OBVIOUS
  <1>7. GoneOK' /\ OpenOK'         OBVIOUS
  <1> QED BY <1>1, <1>2, <1>3, <1>4, <1>5, <1>6, <1>7, Zenon

LEMMA DeleteHistoryStep == ASSUME TreeInv, DeleteHistory PROVE TreeInv'
  <1> USE DEF DeleteHistory
  <1>1. FilesOK'                   OBVIOUS
  <1>2. FlagsOK'                   OBVIOUS
  <1>3. RecordsOK'                 OBVIOUS
  <1>4. AgentOK' /\ ClosedOK'      OBVIOUS
  <1>5. ChoreOK' /\ CreateOK'      OBVIOUS
  <1>6. RemovalOK'                 OBVIOUS
  <1>7. GoneOK' /\ OpenOK'         OBVIOUS
  <1> QED BY <1>1, <1>2, <1>3, <1>4, <1>5, <1>6, <1>7, Zenon

LEMMA BeginPruneStep == ASSUME TreeInv, BeginPrune PROVE TreeInv'
  <1> USE DEF BeginPrune, Usable
  <1>1. FilesOK'                   OBVIOUS
  <1>2. FlagsOK'                   OBVIOUS
  <1>3. RecordsOK'                 OBVIOUS
  <1>4. AgentOK' /\ ClosedOK'      OBVIOUS
  <1>5. ChoreOK' /\ CreateOK'      OBVIOUS
  <1>6. RemovalOK'                 OBVIOUS
  <1>7. GoneOK' /\ OpenOK'         OBVIOUS
  <1> QED BY <1>1, <1>2, <1>3, <1>4, <1>5, <1>6, <1>7, Zenon

\* The looks of a removal differ in what comes next: the shells are closed first.
LEMMA LookStep ==
  ASSUME TreeInv, NEW next \in {"close", "tree"}, chore.step \in {"look", "again"},
         next = "tree" => ~manager, Look(next), UNCHANGED LookRest
  PROVE  TreeInv'
  <1>1. UNCHANGED <<record, tree, branch, dirty, ahead, open, used, path, manager, shell, stray,
                    agent, given, removal, lateCommit, troubles>>
    BY Zenon DEF LookRest
  <1>2. /\ history' \in {"absent", "empty", "used"}
        /\ wtError' \in BOOLEAN /\ (wtError => wtError')
        /\ \/ chore' = NoChore
           \/ chore' = [chore EXCEPT !.step = next, !.look = ahead]
           \/ chore' = [chore EXCEPT !.step = "forget"] /\ ~path
    BY DEF Look, GivesUp
  <1>3. RecordsOK'
    <2>1. agent' \in Turn
      BY <1>1
    <2>2. chore \in Work /\ ahead \in 0..MaxCommits
      OBVIOUS
    <2> HIDE DEF TreeInv
    <2>3. NoChore \in Work
      OBVIOUS
    <2>4. [chore EXCEPT !.step = next, !.look = ahead] \in Work
      BY <2>2
    <2>5. [chore EXCEPT !.step = "forget"] \in Work
      BY <2>2
    <2> HIDE DEF Work, NoChore
    <2>6. chore' \in Work
      BY <1>2, <2>3, <2>4, <2>5, Zenon
    <2> QED BY <2>1, <2>6, Zenon
  <1>4. FilesOK' /\ FlagsOK'
    BY <1>1, <1>2
  <1>5. AgentOK' /\ ClosedOK' /\ GoneOK' /\ OpenOK'
    BY <1>1, <1>2
  <1>6. chore.kind # "none"
    OBVIOUS
  <1>7. CASE chore' = NoChore
    BY <1>1, <1>3, <1>4, <1>5, <1>7
  <1>8. CASE chore' = [chore EXCEPT !.step = next, !.look = ahead]
    <2>1. chore'.kind = chore.kind /\ chore'.step = next /\ chore'.look = ahead
      BY <1>8
    <2>2. ChoreOK' /\ CreateOK'
      BY <1>1, <1>6, <2>1
    <2>3. RemovalOK'
      BY <1>1, <2>1
    <2> QED BY <1>3, <1>4, <1>5, <2>2, <2>3, Zenon
  <1>9. CASE chore' = [chore EXCEPT !.step = "forget"] /\ ~path
    <2>1. chore'.kind = chore.kind /\ chore'.step = "forget"
      BY <1>9
    <2>2. ChoreOK' /\ CreateOK'
      BY <1>1, <1>6, <2>1
    <2>3. RemovalOK'
      BY <1>1, <1>9, <2>1
    <2> QED BY <1>3, <1>4, <1>5, <2>2, <2>3, Zenon
  <1> QED BY <1>2, <1>7, <1>8, <1>9

LEMMA FirstLookStep == ASSUME TreeInv, FirstLook PROVE TreeInv'
  BY LookStep DEF FirstLook

LEMMA CloseShellsStep == ASSUME TreeInv, CloseShells PROVE TreeInv'
  <1> USE DEF CloseShells, AfterClose, GivesUp
  <1>1. FilesOK'                   OBVIOUS
  <1>2. FlagsOK'                   OBVIOUS
  <1>3. RecordsOK'                 OBVIOUS
  <1>4. AgentOK' /\ ClosedOK'      OBVIOUS
  <1>5. ChoreOK' /\ CreateOK'      OBVIOUS
  <1>6. RemovalOK'                 OBVIOUS
  <1>7. GoneOK' /\ OpenOK'         OBVIOUS
  <1> QED BY <1>1, <1>2, <1>3, <1>4, <1>5, <1>6, <1>7, Zenon

LEMMA SecondLookStep == ASSUME TreeInv, SecondLook PROVE TreeInv'
  BY LookStep DEF SecondLook

LEMMA RemoveTreeStep == ASSUME TreeInv, RemoveTree PROVE TreeInv'
  <1> USE DEF RemoveTree, GivesUp
  <1>1. FilesOK'                   OBVIOUS
  <1>2. FlagsOK'                   OBVIOUS
  <1>3. RecordsOK'                 OBVIOUS
  <1>4. AgentOK' /\ ClosedOK'      OBVIOUS
  <1>5. ChoreOK' /\ CreateOK'      OBVIOUS
  <1>6. RemovalOK'                 OBVIOUS
  <1>7. GoneOK' /\ OpenOK'         OBVIOUS
  <1> QED BY <1>1, <1>2, <1>3, <1>4, <1>5, <1>6, <1>7, Zenon

LEMMA DropBranchStep == ASSUME TreeInv, DropBranch PROVE TreeInv'
  <1> USE DEF DropBranch
  <1>1. FilesOK'                   OBVIOUS
  <1>2. FlagsOK'                   OBVIOUS
  <1>3. RecordsOK'                 OBVIOUS
  <1>4. AgentOK' /\ ClosedOK'      OBVIOUS
  <1>5. ChoreOK' /\ CreateOK'      OBVIOUS
  <1>6. RemovalOK'                 OBVIOUS
  <1>7. GoneOK' /\ OpenOK'         OBVIOUS
  <1> QED BY <1>1, <1>2, <1>3, <1>4, <1>5, <1>6, <1>7, Zenon

LEMMA RemoveRecordStep == ASSUME TreeInv, RemoveRecord PROVE TreeInv'
  <1> USE DEF RemoveRecord
  <1>1. FilesOK'                   OBVIOUS
  <1>2. FlagsOK'                   OBVIOUS
  <1>3. RecordsOK'                 OBVIOUS
  <1>4. AgentOK' /\ ClosedOK'      OBVIOUS
  <1>5. ChoreOK' /\ CreateOK'      OBVIOUS
  <1>6. RemovalOK'                 OBVIOUS
  <1>7. GoneOK' /\ OpenOK'         OBVIOUS
  <1> QED BY <1>1, <1>2, <1>3, <1>4, <1>5, <1>6, <1>7, Zenon

LEMMA ForgetChatStep == ASSUME TreeInv, ForgetChat PROVE TreeInv'
  <1> USE DEF ForgetChat
  <1>1. FilesOK'                   OBVIOUS
  <1>2. FlagsOK'                   OBVIOUS
  <1>3. RecordsOK'                 OBVIOUS
  <1>4. AgentOK' /\ ClosedOK'      OBVIOUS
  <1>5. ChoreOK' /\ CreateOK'      OBVIOUS
  <1>6. RemovalOK'                 OBVIOUS
  <1>7. GoneOK' /\ OpenOK'         OBVIOUS
  <1> QED BY <1>1, <1>2, <1>3, <1>4, <1>5, <1>6, <1>7, Zenon

LEMMA UnlistStep == ASSUME TreeInv, Unlist PROVE TreeInv'
  <1> USE DEF Unlist
  <1>1. FilesOK'                   OBVIOUS
  <1>2. FlagsOK'                   OBVIOUS
  <1>3. RecordsOK'                 OBVIOUS
  <1>4. AgentOK' /\ ClosedOK'      OBVIOUS
  <1>5. ChoreOK' /\ CreateOK'      OBVIOUS
  <1>6. RemovalOK'                 OBVIOUS
  <1>7. GoneOK' /\ OpenOK'         OBVIOUS
  <1> QED BY <1>1, <1>2, <1>3, <1>4, <1>5, <1>6, <1>7, Zenon

-----------------------------------------------------------------------------
(* From outside, and the next start. *)

LEMMA DamageStep == ASSUME TreeInv, Damage PROVE TreeInv'
  <1> USE DEF Damage
  <1>1. FilesOK'                   OBVIOUS
  <1>2. FlagsOK'                   OBVIOUS
  <1>3. RecordsOK'                 OBVIOUS
  <1>4. AgentOK' /\ ClosedOK'      OBVIOUS
  <1>5. ChoreOK' /\ CreateOK'      OBVIOUS
  <1>6. RemovalOK'                 OBVIOUS
  <1>7. GoneOK' /\ OpenOK'         OBVIOUS
  <1> QED BY <1>1, <1>2, <1>3, <1>4, <1>5, <1>6, <1>7, Zenon

LEMMA StartAgainStep == ASSUME TreeInv, StartAgain PROVE TreeInv'
  <1> USE DEF StartAgain, Usable
  <1>1. FilesOK'                   OBVIOUS
  <1>2. FlagsOK'                   OBVIOUS
  <1>3. RecordsOK'                 OBVIOUS
  <1>4. AgentOK' /\ ClosedOK'      OBVIOUS
  <1>5. ChoreOK' /\ CreateOK'      OBVIOUS
  <1>6. RemovalOK'                 OBVIOUS
  <1>7. GoneOK' /\ OpenOK'         OBVIOUS
  <1> QED BY <1>1, <1>2, <1>3, <1>4, <1>5, <1>6, <1>7, Zenon

LEMMA TreeStutter == ASSUME TreeInv, UNCHANGED treeVars PROVE TreeInv'
  <1> USE DEF treeVars
  <1>1. FilesOK' /\ FlagsOK' /\ RecordsOK'
    OBVIOUS
  <1>2. AgentOK' /\ ClosedOK' /\ ChoreOK' /\ CreateOK'
    OBVIOUS
  <1>3. RemovalOK' /\ GoneOK' /\ OpenOK'
    OBVIOUS
  <1> QED BY <1>1, <1>2, <1>3, Zenon

-----------------------------------------------------------------------------
(* The theorems. *)

\* The inductive invariant: what each step of a creation, a turn and a removal
\* knows of the checkout, its branch, its record and its shells.
THEOREM TreeInvariant == TreeSpec => []TreeInv
  <1> HIDE DEF TreeInv
  <1>1. TreeInv /\ [TreeNext]_treeVars => TreeInv'
    BY AddTreeStep, NoteTreeStep, ListChatStep, OpenChatStep, EnterAgentStep, ArmStep,
       KeepMessageStep, CallToolStep, ToolChangesStep, ToolStartsShellStep, ToolEndsStep,
       ShellChangesStep, ShellEndsStep, StrayChangesStep, StrayEndsStep, StopAgentStep,
       EndAgentStep, BeginDeleteStep, DeleteHistoryStep, BeginPruneStep, FirstLookStep,
       CloseShellsStep, SecondLookStep, RemoveTreeStep, DropBranchStep, RemoveRecordStep,
       ForgetChatStep, UnlistStep, DamageStep, StartAgainStep, TreeStutter, Zenon DEF TreeNext
  <1> QED BY <1>1, InitTreeInv, PTL DEF TreeSpec

\* The files, the chat, its turn and its removal keep their types.
THEOREM TreeTypeCorrect == TreeSpec => []TreeTypeOK
  <1>1. TreeInv => TreeTypeOK
    BY TypeIs, Zenon
  <1> HIDE DEF TreeInv
  <1> QED BY <1>1, TreeInvariant, PTL

\* However creation, turns, removals, damages and restarts interleave, no tool
\* of a chat that was given a checkout works in the directory of the project.
THEOREM AlwaysFailsClosed == TreeSpec => []FailsClosed
  <1>1. TreeInv => FailsClosed
    BY DEF FailsClosed
  <1> HIDE DEF TreeInv
  <1> QED BY <1>1, TreeInvariant, PTL

\* For any number of commits: a branch that is dropped has none, unless a tool that
\* was told to stop, or a process left behind, committed after the last look.
THEOREM CommitsAlwaysStay == TreeSpec => CommitsStay
  <1>1. ASSUME TreeInv, [TreeNext]_treeVars, branch, ~branch'
        PROVE  ahead = 0 \/ lateCommit
    <2>1. NoteTree \/ DropBranch
      BY <1>1, Zenon DEF TreeNext, treeVars, AddTree, NoteTree, ListChat, OpenChat, EnterAgent, Arm,
         KeepMessage, CallTool, ToolChanges, ToolStartsShell, ToolEnds, ShellChanges, ShellEnds,
         StrayChanges, StrayEnds, StopAgent, EndAgent, BeginDelete, DeleteHistory, BeginPrune,
         FirstLook, CloseShells, SecondLook, LookRest, RemoveTree, DropBranch, RemoveRecord,
         ForgetChat, Unlist, Damage, StartAgain
    <2>2. CASE NoteTree
      BY <1>1, <2>2 DEF NoteTree
    <2>3. CASE DropBranch
      BY <1>1, <2>3 DEF DropBranch
    <2> QED BY <2>1, <2>2, <2>3
  <1> HIDE DEF TreeInv
  <1> QED BY <1>1, TreeInvariant, PTL DEF TreeSpec, CommitsStay
=============================================================================
