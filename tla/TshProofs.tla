----------------------------- MODULE TshProofs -----------------------------
(***************************************************************************)
(* Theorems about Tsh for every number of slots, every set of pids, every  *)
(* choice of commands, keys and faults.                                    *)
(*                                                                         *)
(* The first part is about the helper routines of the job list: what they  *)
(* return and change, for every table.  Each of them searches for a first  *)
(* slot or a largest job id, so the existence of these comes first.  It is *)
(* proved by the least-element principle: the library proves < on Nat      *)
(* well-founded, and a statement about 1..n is shown by taking the least n *)
(* that refutes it.                                                        *)
(***************************************************************************)
EXTENDS Tsh, WellFoundedInduction, TLAPS

LEMMA LessThanOnNat ==
  OpToRel(<, Nat) = {ss \in Nat \X Nat : ss[1] < ss[2]}
BY DEF OpToRel

(* Every non-empty set of naturals has a least element. *)
LEMMA LeastElement ==
  ASSUME NEW T \in SUBSET Nat, T # {}
  PROVE  \E x \in T : \A y \in T : x <= y
<1> DEFINE R == {ss \in Nat \X Nat : ss[1] < ss[2]}
<1>1. IsWellFoundedOn(R, Nat)
  BY LessThanOnNat, NatLessThanWellFounded
<1>2. T \subseteq Nat
  OBVIOUS
<1>3. \E x \in T : \A y \in T : ~ (<<y, x>> \in R)
  <2> HIDE DEF R
  <2> QED BY <1>1, <1>2, WFMin
<1>4. PICK x \in T : \A y \in T : ~ (<<y, x>> \in R)
  BY <1>3
<1>5. ASSUME NEW y \in T PROVE x <= y
  <2>1. x \in Nat /\ y \in Nat
    BY <1>2
  <2>2. ~ (<<y, x>> \in R)
    BY <1>4
  <2>3. ~ (y < x)
    BY <2>1, <2>2
  <2> QED BY <2>1, <2>3
<1> QED BY <1>5

(* First(S) is a slot of S, NULL exactly when S is empty. *)
LEMMA FirstSlot ==
  ASSUME NEW S \in SUBSET Slots
  PROVE  /\ S # {} => First(S) \in S /\ First(S) # NoSlot
         /\ S = {} => First(S) = NoSlot
<1>1. CASE S = {}
  BY <1>1 DEF First
<1>2. CASE S # {}
  <2>1. S \in SUBSET Nat
    BY MaxJobsAssumption DEF Slots
  <2>2. \E x \in S : \A y \in S : x <= y
    BY <1>2, <2>1, LeastElement
  <2>3. Min(S) \in S
    BY <2>2 DEF Min
  <2>4. First(S) \in S
    BY <1>2, <2>3 DEF First
  <2>5. First(S) # NoSlot
    BY <2>4, MaxJobsAssumption DEF Slots, NoSlot
  <2> QED BY <1>2, <2>4, <2>5
<1> QED BY <1>1, <1>2

(* maxjid is a job id in use or 0, and no job id is larger. *)
LEMMA MaxjidBound ==
  ASSUME NEW t \in [Slots -> Job]
  PROVE  /\ maxjid(t) \in Nat /\ maxjid(t) \in JidsIn(t) \cup {0}
         /\ \A i \in Slots : t[i].jid <= maxjid(t)
<1> DEFINE Upto(n) == {t[i].jid : i \in {j \in Slots : j <= n}} \cup {0}
           HasMax(n) == \E m \in Upto(n) : \A x \in Upto(n) : m >= x
           Bad == {n \in 0 .. MAXJOBS : ~ HasMax(n)}
<1>0. \A i \in Slots : t[i].jid \in Nat
  BY DEF Job
<1>1. Bad = {}
  <2> SUFFICES ASSUME Bad # {} PROVE FALSE
    OBVIOUS
  <2>1. Bad \in SUBSET Nat
    BY MaxJobsAssumption
  <2>2. PICK n \in Bad : \A k \in Bad : n <= k
    <3> HIDE DEF Bad
    <3> QED BY <2>1, LeastElement
  <2>3. CASE n = 0
    <3>1. Upto(0) = {0}
      BY MaxJobsAssumption DEF Slots
    <3>2. HasMax(0)
      BY <3>1
    <3> QED BY <2>2, <2>3, <3>2
  <2>4. CASE n # 0
    <3>1. n \in 1 .. MAXJOBS /\ n - 1 \in 0 .. MAXJOBS /\ n \in Slots
      BY <2>2, <2>4, MaxJobsAssumption DEF Slots
    <3>2. n - 1 \notin Bad
      <4>1. ~ (n <= n - 1)
        BY <3>1
      <4> HIDE DEF Bad
      <4> QED BY <2>2, <4>1
    <3>3. HasMax(n - 1)
      BY <3>1, <3>2
    <3>4. PICK m \in Upto(n - 1) : \A x \in Upto(n - 1) : m >= x
      BY <3>3
    <3>5. Upto(n) = Upto(n - 1) \cup {t[n].jid}
      <4>1. {j \in Slots : j <= n} = {j \in Slots : j <= n - 1} \cup {n}
        BY <3>1, MaxJobsAssumption DEF Slots
      <4> QED BY <4>1
    <3>6. \A x \in Upto(n) : x \in Nat
      BY <1>0
    <3>7. m \in Nat /\ t[n].jid \in Nat
      BY <1>0, <3>1, <3>4
    <3>8. HasMax(n)
      <4> HIDE DEF Upto
      <4>1. CASE m >= t[n].jid
        BY <4>1, <3>4, <3>5
      <4>2. CASE t[n].jid > m
        <5>1. \A x \in Upto(n - 1) : x \in Nat
          BY <3>5, <3>6
        <5>2. \A x \in Upto(n) : t[n].jid >= x
          BY <4>2, <3>4, <3>5, <3>7, <5>1
        <5> QED BY <5>2, <3>5
      <4> QED BY <4>1, <4>2, <3>7
    <3> QED BY <3>8, <2>2
  <2> QED BY <2>3, <2>4
<1>2. HasMax(MAXJOBS)
  BY <1>1, MaxJobsAssumption
<1>3. Upto(MAXJOBS) = JidsIn(t) \cup {0}
  <2>1. {j \in Slots : j <= MAXJOBS} = Slots
    BY MaxJobsAssumption DEF Slots
  <2> QED BY <2>1 DEF JidsIn
<1>4. /\ maxjid(t) \in JidsIn(t) \cup {0}
      /\ \A x \in JidsIn(t) \cup {0} : maxjid(t) >= x
  <2> HIDE DEF Upto
  <2> QED BY <1>2, <1>3 DEF maxjid, Max
<1>5. JidsIn(t) \subseteq Nat
  BY <1>0 DEF JidsIn
<1>6. \A i \in Slots : t[i].jid \in JidsIn(t)
  BY DEF JidsIn
<1> QED BY <1>4, <1>5, <1>6

(* It is one of them, or 0. *)
LEMMA MaxjidReached ==
  ASSUME NEW t \in [Slots -> Job]
  PROVE  maxjid(t) = 0 \/ \E i \in Slots : maxjid(t) = t[i].jid
BY MaxjidBound DEF JidsIn

(* fgpid returns the pid of a foreground slot, 0 if there is none. *)
LEMMA FgpidFindsFg ==
  ASSUME NEW t \in [Slots -> Job]
  PROVE  /\ fgpid(t) \in Pids \cup {NoPid}
         /\ FgSlots(t) # {} => \E i \in FgSlots(t) : fgpid(t) = t[i].pid
         /\ FgSlots(t) = {} => fgpid(t) = NoPid
<1>1. FgSlots(t) \in SUBSET Slots
  BY DEF FgSlots
<1>2. FgSlots(t) # {} => First(FgSlots(t)) \in FgSlots(t)
  BY <1>1, FirstSlot
<1> QED BY <1>1, <1>2 DEF fgpid, Job

(* getjobpid finds the pid if it is in the list; pid 0 never is. *)
LEMMA GetjobpidFinds ==
  ASSUME NEW t \in [Slots -> Job], NEW p \in Pids \cup {NoPid}
  PROVE  /\ getjobpid(t, p) \in Slots \cup {NoSlot}
         /\ getjobpid(t, p) # NoSlot =>
              getjobpid(t, p) \in Slots /\ t[getjobpid(t, p)].pid = p /\ p \in Pids
         /\ p \in Pids /\ (\E i \in Slots : t[i].pid = p) => getjobpid(t, p) # NoSlot
<1>1. SlotsWithPid(t, p) \in SUBSET Slots
  BY DEF SlotsWithPid
<1>2. /\ SlotsWithPid(t, p) # {} => First(SlotsWithPid(t, p)) \in SlotsWithPid(t, p)
                                   /\ First(SlotsWithPid(t, p)) # NoSlot
      /\ SlotsWithPid(t, p) = {} => First(SlotsWithPid(t, p)) = NoSlot
  BY <1>1, FirstSlot
<1>3. p \in Pids => ~ (p < 1)
  BY PidsAssumption
<1>4. p = NoPid => p < 1
  BY DEF NoPid
<1> QED BY <1>1, <1>2, <1>3, <1>4 DEF getjobpid, SlotsWithPid, NoSlot

(* addjob fills one free slot, or leaves a full list as it is. *)
LEMMA AddjobEffect ==
  ASSUME NEW t \in [Slots -> Job], NEW p \in Pids, NEW k \in States, NEW j \in Nat
  PROVE  /\ addjob(t, p, k, j) \in [Slots -> Job]
         /\ jidAfterAdd(t, j) \in Nat
         /\ \/ addjob(t, p, k, j) = t
            \/ \E i \in Slots :
                 /\ t[i].pid = NoPid
                 /\ addjob(t, p, k, j) =
                      [t EXCEPT ![i] = [pid |-> p, jid |-> j, state |-> k]]
<1>1. SlotsWithPid(t, NoPid) \in SUBSET Slots
  BY DEF SlotsWithPid
<1>2. HasRoom(t) => /\ First(SlotsWithPid(t, NoPid)) \in Slots
                    /\ t[First(SlotsWithPid(t, NoPid))].pid = NoPid
  BY <1>1, FirstSlot DEF HasRoom, SlotsWithPid
<1>3. [pid |-> p, jid |-> j, state |-> k] \in Job
  BY DEF Job
<1>4. jidAfterAdd(t, j) \in Nat
  BY MaxJobsAssumption DEF jidAfterAdd
<1> QED BY <1>2, <1>3, <1>4 DEF addjob

(* deletejob clears one slot of that pid, or finds none. *)
LEMMA DeletejobEffect ==
  ASSUME NEW t \in [Slots -> Job], NEW p \in Pids \cup {NoPid}, NEW j \in Nat
  PROVE  /\ deletejob(t, p) \in [Slots -> Job]
         /\ jidAfterDelete(t, p, j) \in Nat
         /\ \/ deletejob(t, p) = t /\ (p \in Pids => \A i \in Slots : t[i].pid # p)
            \/ /\ p \in Pids
               /\ \E i \in Slots : /\ t[i].pid = p
                                   /\ deletejob(t, p) = [t EXCEPT ![i] = clearjob]
<1>1. clearjob \in Job
  BY DEF clearjob, Job, States
<1>2. deletejob(t, p) \in [Slots -> Job]
  BY <1>1, GetjobpidFinds DEF deletejob
<1>3. jidAfterDelete(t, p, j) \in Nat
  BY <1>2, MaxjidBound DEF jidAfterDelete
<1>4. \/ deletejob(t, p) = t /\ (p \in Pids => \A i \in Slots : t[i].pid # p)
      \/ /\ p \in Pids
         /\ \E i \in Slots : /\ t[i].pid = p
                             /\ deletejob(t, p) = [t EXCEPT ![i] = clearjob]
  BY GetjobpidFinds DEF deletejob
<1> QED BY <1>2, <1>3, <1>4

(* Setting a state changes that slot's state only. *)
LEMMA SetstateEffect ==
  ASSUME NEW t \in [Slots -> Job], NEW i \in Slots, NEW k \in States
  PROVE  /\ setstate(t, i, k) \in [Slots -> Job]
         /\ \A n \in Slots : setstate(t, i, k)[n] =
              IF n = i THEN [pid |-> t[i].pid, jid |-> t[i].jid, state |-> k] ELSE t[n]
BY DEF setstate, Job

LEMMA SetstatePids ==
  ASSUME NEW t \in [Slots -> Job], NEW i \in Slots, NEW k \in States, NEW n \in Slots
  PROVE  setstate(t, i, k)[n].pid = t[n].pid
BY DEF setstate, Job

-----------------------------------------------------------------------------
(* What main's local variables hold where main uses them. *)
Locals ==
  /\ pc \in {"cont", "set", "reread"} => slot \in Slots
  /\ pc \in {"fork", "addjob", "unblock", "cont", "set"} => kind \in {"FG", "BG"}
  /\ pc \in {"addjob", "unblock"} => cur \in Pids

TypeInv == TypeOK /\ Locals

LEMMA FrameTypes ==
  /\ Idle \in Frame
  /\ \A f \in Frame, l \in {"waitpid", "fgpid", "mark"} : [f EXCEPT !.at = l] \in Frame
BY DEF Idle, Frame, NoPid, Signals

LEMMA TypeInit == Init => TypeInv
BY FrameTypes, MaxJobsAssumption
   DEF Init, TypeInv, TypeOK, Locals, initjobs, clearjob, Job, States, MainLabels,
       ProcStates, NoPid, NoSlot

(* Steps of main that touch neither the table nor the children. *)
LEMMA TypeMain ==
  ASSUME TypeInv, [Main]_vars
  PROVE  TypeInv'
<1> USE DEF TypeInv, TypeOK, Locals, table, main, frames, mask, procs, At, ReturnToPrompt
<1>1. ASSUME NEW k \in {"FG", "BG"}, EvalRun(k) PROVE TypeInv'
  BY <1>1 DEF EvalRun, MainLabels
<1>2. CASE Fork
  BY <1>2 DEF Fork, MainLabels, Unused, ProcStates
<1>3. CASE ForkFails
  BY <1>3 DEF ForkFails, MainLabels, NoPid, NoSlot
<1>4. CASE AddJob
  <2>1. kind \in States
    BY <1>4 DEF AddJob, States
  <2>2. addjob(jobs, cur, kind, nextjid) \in [Slots -> Job] /\ jidAfterAdd(jobs, nextjid) \in Nat
    BY <1>4, <2>1, AddjobEffect DEF AddJob
  <2> QED BY <1>4, <2>2 DEF AddJob, MainLabels
<1>5. CASE Unblock
  BY <1>5 DEF Unblock, MainLabels, NoPid, NoSlot
<1>6. CASE WaitfgReturns
  BY <1>6 DEF WaitfgReturns, MainLabels, NoPid, NoSlot
<1>7. CASE BlankLine \/ Quit
  BY <1>7 DEF BlankLine, Quit, MainLabels
<1>8. ASSUME NEW k \in {"FG", "BG"}, BgFgLookup(k) PROVE TypeInv'
  <2>1. Lookups \subseteq Slots
    <3>1. \A j : getjobjid(jobs, j) \in Slots \cup {NoSlot}
      BY FirstSlot DEF getjobjid, SlotsWithJid
    <3>2. \A p \in Pids : getjobpid(jobs, p) \in Slots \cup {NoSlot}
      BY GetjobpidFinds
    <3> QED BY <3>1, <3>2 DEF Lookups
  <2>2. slot' \in Slots /\ cur' \in Pids \cup {NoPid}
    BY <1>8, <2>1 DEF BgFgLookup, Job
  <2> QED BY <1>8, <2>2 DEF BgFgLookup, MainLabels
<1>9. CASE BgFgCont
  <2>1. UNCHANGED <<kind, cur, slot, table, frames, blocked>> /\ pc' = "set" /\ pc = "cont"
    BY <1>9 DEF BgFgCont
  <2>2. /\ pending' \subseteq Signals /\ proc' \in [Pids -> ProcStates]
        /\ unseen' \subseteq Pids /\ psig' \in [Pids -> SUBSET {"INT", "TSTP"}]
    <3>1. CASE UNCHANGED <<procs, pending>>
      BY <3>1
    <3>2. CASE Continue(cur)
      <4>1. proc' \in [Pids -> ProcStates]
        BY <3>2 DEF Continue, ProcStates
      <4>2. pending' \subseteq Signals
        BY <3>2 DEF Continue, Signals
      <4>3. unseen' \subseteq Pids /\ psig' \in [Pids -> SUBSET {"INT", "TSTP"}]
        BY <3>2 DEF Continue
      <4> QED BY <4>1, <4>2, <4>3
    <3> QED BY <1>9, <3>1, <3>2 DEF BgFgCont
  <2> QED BY <2>1, <2>2 DEF MainLabels
<1>10. CASE BgFgSet
  <2>1. setstate(jobs, slot, kind) \in [Slots -> Job]
    BY <1>10, SetstateEffect DEF BgFgSet, States
  <2> QED BY <1>10, <2>1 DEF BgFgSet, MainLabels, NoPid, NoSlot
<1>11. CASE BgFgReread
  BY <1>11 DEF BgFgReread, MainLabels, Job
<1>12. CASE UNCHANGED vars
  BY <1>12 DEF vars
<1> QED BY <1>1, <1>2, <1>3, <1>4, <1>5, <1>6, <1>7, <1>8, <1>9, <1>10, <1>11, <1>12
        DEF Main

LEMMA TypeHandlers ==
  ASSUME TypeInv, Handlers
  PROVE  TypeInv'
<1> USE DEF TypeInv, TypeOK, Locals, table, main, frames, mask, procs, Step, Return, Goto
<1>0. ASSUME NextChild PROVE running' \in Signals \cup {"main"} /\ handler' \in [Signals -> Frame]
  BY <1>0 DEF NextChild, Frame, Idle, NoPid, Signals
<1>1. ASSUME NEW s \in Signals, Catch(s) PROVE TypeInv'
  BY <1>1 DEF Catch, Frame, Idle, NoPid, Signals
<1>2. ASSUME NEW s \in Signals, FindFg(s) PROVE TypeInv'
  <2>1. CASE fgpid(jobs) # NoPid
    <3>1. fgpid(jobs) \in Pids \cup {NoPid} /\ handler[s] \in Frame
      BY FgpidFindsFg
    <3>2. [handler[s] EXCEPT !.at = "kill", !.fg = fgpid(jobs)] \in Frame
      BY <3>1 DEF Frame
    <3>3. handler' = [handler EXCEPT ![s] = [handler[s] EXCEPT !.at = "kill", !.fg = fgpid(jobs)]]
      BY <1>2, <2>1 DEF FindFg
    <3>4. handler' \in [Signals -> Frame]
      BY <3>2, <3>3
    <3> QED BY <1>2, <2>1, <3>4 DEF FindFg
  <2>2. CASE fgpid(jobs) = NoPid /\ s = "CHLD"
    BY <1>0, <1>2, <2>2 DEF FindFg
  <2>3. CASE fgpid(jobs) = NoPid /\ s # "CHLD"
    BY <1>2, <2>3, FrameTypes DEF FindFg, Frame
  <2> QED BY <2>1, <2>2, <2>3
<1>3. ASSUME NEW s \in Signals, KillFg(s) PROVE TypeInv'
  <2>1. psig' \in [Pids -> SUBSET {"INT", "TSTP"}]
    BY <1>3 DEF KillFg, Signalled, SignalOf, Signals
  <2>2. running' \in Signals \cup {"main"} /\ handler' \in [Signals -> Frame]
    <3>1. CASE Return(s)
      BY <3>1, FrameTypes DEF Frame
    <3>2. CASE Goto(s, "mark")
      <4>1. [handler[s] EXCEPT !.at = "mark"] \in Frame
        BY FrameTypes
      <4> QED BY <3>2, <4>1
    <3> QED BY <1>3, <3>1, <3>2 DEF KillFg
  <2> QED BY <1>3, <2>1, <2>2 DEF KillFg
<1>4. CASE ChldWait
  <2>1. PICK p \in Waitable :
       /\ handler' = [handler EXCEPT !["CHLD"] =
            [@ EXCEPT !.at = IF proc[p] = "exited" THEN "delete" ELSE "fgpid",
                      !.how = ReportedAs(p), !.pid = p]]
       /\ proc' = IF p \in Zombies THEN [proc EXCEPT ![p] = "gone"] ELSE proc
       /\ unseen' = unseen \ {p}
    BY <1>4 DEF ChldWait
  <2>2. p \in Pids
    BY DEF Waitable, Zombies
  <2>3. handler' \in [Signals -> Frame]
    <3> DEFINE f == [handler["CHLD"] EXCEPT
                       !.at = IF proc[p] = "exited" THEN "delete" ELSE "fgpid",
                       !.how = ReportedAs(p), !.pid = p]
    <3>1. handler["CHLD"] \in Frame
      BY DEF Signals
    <3>2. ReportedAs(p) \in {"exited", "killed", "stopped"}
      BY DEF ReportedAs
    <3>3. f \in Frame
      BY <2>2, <3>1, <3>2 DEF Frame
    <3>4. handler' = [handler EXCEPT !["CHLD"] = f]
      BY <2>1
    <3> HIDE DEF f
    <3> QED BY <3>3, <3>4
  <2>4. proc' \in [Pids -> ProcStates] /\ unseen' \subseteq Pids
    BY <2>1, <2>2 DEF ProcStates
  <2> QED BY <1>4, <2>3, <2>4 DEF ChldWait
<1>5. CASE ChldReturn
  BY <1>5, FrameTypes DEF ChldReturn, Frame
<1>6. CASE ChldDelete
  <2>1. handler["CHLD"].pid \in Pids \cup {NoPid}
    BY DEF Frame, Signals
  <2> QED BY <1>0, <1>6, <2>1, DeletejobEffect DEF ChldDelete
<1>7. CASE MarkStopped
  <2>1. handler["CHLD"].fg \in Pids \cup {NoPid}
    BY DEF Frame, Signals
  <2>2. getjobpid(jobs, handler["CHLD"].fg) \in Slots \cup {NoSlot}
    BY <2>1, GetjobpidFinds
  <2>3. setstate(jobs, getjobpid(jobs, handler["CHLD"].fg), "ST") \in [Slots -> Job]
    <3>1. CASE getjobpid(jobs, handler["CHLD"].fg) \in Slots
      BY <3>1, SetstateEffect DEF States
    <3>2. CASE getjobpid(jobs, handler["CHLD"].fg) \notin Slots
      BY <3>2 DEF setstate
    <3> QED BY <3>1, <3>2
  <2> QED BY <1>0, <1>7, <2>3 DEF MarkStopped
<1>8. CASE MarkKilled
  <2>1. handler["CHLD"].fg \in Pids \cup {NoPid}
    BY DEF Frame, Signals
  <2> QED BY <1>0, <1>8, <2>1, DeletejobEffect DEF MarkKilled
<1> QED BY <1>1, <1>2, <1>3, <1>4, <1>5, <1>6, <1>7, <1>8 DEF Handlers

LEMMA TypeOthers ==
  ASSUME TypeInv,
         Sigquit \/ (\E s \in Keys : Key(s)) \/ (\E p \in Pids : Child(p))
  PROVE  TypeInv'
<1> USE DEF TypeInv, TypeOK, Locals, table, main, frames, mask, procs
<1>1. CASE Sigquit
  BY <1>1 DEF Sigquit, MainLabels
<1>2. ASSUME NEW s \in Keys, Key(s) PROVE TypeInv'
  BY <1>2, KeysAssumption DEF Key, Signals
<1>3. ASSUME NEW p \in Pids, Child(p) PROVE TypeInv'
  <2>1. CASE Exec(p)
    BY <2>1 DEF Exec, ProcStates
  <2>2. CASE Ends(p, "exited") \/ Ends(p, "killed")
    BY <2>2 DEF Ends, ProcStates, Signals
  <2>3. CASE Stops(p)
    BY <2>3 DEF Stops, ProcStates, Signals
  <2> QED BY <1>3, <2>1, <2>2, <2>3 DEF Child, Exits, Dies
<1> QED BY <1>1, <1>2, <1>3

LEMMA TypeNext == TypeInv /\ [Next]_vars => TypeInv'
<1>1. TypeInv /\ UNCHANGED vars => TypeInv'
  BY TypeMain
<1> QED BY <1>1, TypeMain, TypeHandlers, TypeOthers DEF Next

(* The state of the shell is always well formed; in particular no step     *)
(* leaves the job list without its MAXJOBS slots or with a job id that is  *)
(* not a number.                                                           *)
THEOREM TypeCorrect == Spec => []TypeOK
<1>1. TypeInv => TypeOK
  BY DEF TypeInv
<1> QED BY <1>1, TypeInit, TypeNext, PTL DEF Spec

-----------------------------------------------------------------------------
(* At most one job is in the foreground.  The strengthening says where the *)
(* shell is while there is one: from the prompt to addjob and in do_bgfg   *)
(* before the assignment there is none, and between addjob and the return  *)
(* of waitfg it is the job that waitfg is called for.                      *)
FgInv ==
  /\ OneFG
  /\ pc \in {"read", "fork", "addjob", "cont", "set"} => FgSlots(jobs) = {}
  /\ pc = "unblock" /\ kind = "BG" => FgSlots(jobs) = {}
  /\ pc \in {"unblock", "waitfg"} => \A i \in FgSlots(jobs) : jobs[i].pid = cur
  /\ pc = "reread" => FgSlots(jobs) \subseteq {slot}

LEMMA FgInit == Init => FgInv
BY DEF Init, FgInv, OneFG, FgSlots, initjobs, clearjob

(* Outside main, a job only ever leaves the foreground. *)
LEMMA FgOnlyShrinks ==
  ASSUME TypeInv, Handlers \/ (\E s \in Keys : Key(s)) \/ (\E p \in Pids : Child(p))
  PROVE  /\ UNCHANGED main
         /\ FgSlots(jobs') \subseteq FgSlots(jobs)
         /\ \A i \in FgSlots(jobs') : jobs'[i].pid = jobs[i].pid
<1> USE DEF table
<1>1. CASE UNCHANGED <<table, main>>
  BY <1>1
<1>2. CASE ChldDelete \/ MarkKilled
  <2>1. /\ handler["CHLD"].pid \in Pids \cup {NoPid}
        /\ handler["CHLD"].fg \in Pids \cup {NoPid}
        /\ jobs \in [Slots -> Job] /\ nextjid \in Nat
    BY DEF TypeInv, TypeOK, Frame, Signals
  <2>2. PICK p \in Pids \cup {NoPid} : jobs' = deletejob(jobs, p)
    BY <1>2, <2>1 DEF ChldDelete, MarkKilled
  <2>3. jobs' = jobs \/ \E i \in Slots : jobs' = [jobs EXCEPT ![i] = clearjob]
    BY <2>1, <2>2, DeletejobEffect
  <2>4. UNCHANGED main
    BY <1>2 DEF ChldDelete, MarkKilled
  <2> QED BY <2>1, <2>3, <2>4 DEF FgSlots, clearjob
<1>3. CASE MarkStopped
  <2>1. handler["CHLD"].fg \in Pids \cup {NoPid} /\ jobs \in [Slots -> Job]
    BY DEF TypeInv, TypeOK, Frame, Signals
  <2> DEFINE n == getjobpid(jobs, handler["CHLD"].fg)
  <2>2. jobs' = setstate(jobs, n, "ST") /\ UNCHANGED main
    BY <1>3 DEF MarkStopped
  <2>3. n \in Slots \cup {NoSlot}
    BY <2>1, GetjobpidFinds
  <2> HIDE DEF n
  <2>4. CASE n \in Slots
    <3>1. \A m \in Slots : jobs'[m] =
            IF m = n THEN [pid |-> jobs[n].pid, jid |-> jobs[n].jid, state |-> "ST"] ELSE jobs[m]
      <4>1. "ST" \in States
        BY DEF States
      <4>2. \A m \in Slots : setstate(jobs, n, "ST")[m] =
              IF m = n THEN [pid |-> jobs[n].pid, jid |-> jobs[n].jid, state |-> "ST"] ELSE jobs[m]
        BY <2>1, <2>4, <4>1, SetstateEffect
      <4> QED BY <2>2, <4>2
    <3>2. \A m \in Slots : jobs'[m].pid = jobs[m].pid
                            /\ (jobs'[m].state = "FG" => jobs[m].state = "FG")
      BY <3>1
    <3> QED BY <2>2, <3>2 DEF FgSlots
  <2>5. CASE n \notin Slots
    BY <2>1, <2>2, <2>5 DEF FgSlots, setstate
  <2> QED BY <2>4, <2>5
<1>4. ASSUME NEW s \in Signals, Catch(s) \/ FindFg(s) \/ KillFg(s)
      PROVE  UNCHANGED <<table, main>>
  BY <1>4 DEF Catch, FindFg, KillFg
<1>5. ChldWait \/ ChldReturn => UNCHANGED <<table, main>>
  BY DEF ChldWait, ChldReturn
<1>6. ASSUME NEW p \in Pids, Child(p) PROVE UNCHANGED <<table, main>>
  BY <1>6 DEF Child, Exec, Exits, Dies, Stops, Ends
<1>7. (\E s \in Keys : Key(s)) => UNCHANGED <<table, main>>
  BY DEF Key
<1> QED BY <1>1, <1>2, <1>3, <1>4, <1>5, <1>6, <1>7 DEF Handlers

LEMMA FgMain ==
  ASSUME TypeInv, FgInv, Main
  PROVE  FgInv'
<1> USE DEF FgInv, OneFG, At, ReturnToPrompt, table
<1>0. jobs \in [Slots -> Job] /\ FgSlots(jobs) \subseteq Slots
  BY DEF TypeInv, TypeOK, FgSlots
<1>1. ASSUME NEW k \in {"FG", "BG"}, EvalRun(k) PROVE FgInv'
  BY <1>1 DEF EvalRun
<1>2. CASE Fork \/ ForkFails \/ BlankLine \/ Quit
  BY <1>2 DEF Fork, ForkFails, BlankLine, Quit
<1>3. CASE AddJob
  <2>1. cur \in Pids /\ kind \in States /\ nextjid \in Nat
    BY <1>3 DEF AddJob, TypeInv, TypeOK, Locals, States
  <2>2. \/ jobs' = jobs
        \/ \E i \in Slots :
             jobs' = [jobs EXCEPT ![i] = [pid |-> cur, jid |-> nextjid, state |-> kind]]
    BY <1>0, <1>3, <2>1, AddjobEffect DEF AddJob
  <2>3. pc' = "unblock" /\ cur' = cur /\ kind' = kind /\ FgSlots(jobs) = {}
    BY <1>3 DEF AddJob
  <2> QED BY <1>0, <2>2, <2>3 DEF FgSlots
<1>4. CASE Unblock
  <2>1. kind = "FG" \/ kind = "BG"
    BY <1>4 DEF Unblock, TypeInv, Locals
  <2> QED BY <1>4, <2>1 DEF Unblock
<1>5. CASE WaitfgReturns
  <2>1. FgSlots(jobs) = {}
    BY <1>0, <1>5, FgpidFindsFg DEF WaitfgReturns
  <2> QED BY <1>5, <2>1 DEF WaitfgReturns
<1>6. ASSUME NEW k \in {"FG", "BG"}, BgFgLookup(k) PROVE FgInv'
  BY <1>6 DEF BgFgLookup
<1>7. CASE BgFgCont
  BY <1>7 DEF BgFgCont
<1>8. CASE BgFgSet
  <2>1. slot \in Slots /\ kind \in States /\ FgSlots(jobs) = {}
    BY <1>8 DEF BgFgSet, TypeInv, Locals, States
  <2>2. jobs' = setstate(jobs, slot, kind)
    BY <1>8 DEF BgFgSet
  <2>3. FgSlots(jobs') \subseteq {slot} /\ (kind = "BG" => FgSlots(jobs') = {})
    <3>1. \A n \in Slots : jobs'[n] =
            IF n = slot THEN [pid |-> jobs[slot].pid, jid |-> jobs[slot].jid, state |-> kind]
                        ELSE jobs[n]
      BY <1>0, <2>1, <2>2, SetstateEffect
    <3>2. \A n \in Slots : jobs'[n].state = IF n = slot THEN kind ELSE jobs[n].state
      BY <3>1
    <3> QED BY <2>1, <3>2 DEF FgSlots
  <2>4. kind \in {"FG", "BG"}
    BY <1>8 DEF BgFgSet, TypeInv, Locals
  <2> QED BY <1>8, <2>3, <2>4 DEF BgFgSet
<1>9. CASE BgFgReread
  BY <1>9 DEF BgFgReread
<1> QED BY <1>1, <1>2, <1>3, <1>4, <1>5, <1>6, <1>7, <1>8, <1>9 DEF Main

LEMMA FgNext == TypeInv /\ FgInv /\ [Next]_vars => FgInv'
<1> SUFFICES ASSUME TypeInv, FgInv, [Next]_vars PROVE FgInv'
  OBVIOUS
<1>1. CASE Main
  BY <1>1, FgMain
<1>2. CASE Handlers \/ (\E s \in Keys : Key(s)) \/ (\E p \in Pids : Child(p))
  BY <1>2, FgOnlyShrinks DEF FgInv, OneFG, main
<1>3. CASE Sigquit
  BY <1>3 DEF Sigquit, FgInv, OneFG, table
<1>4. CASE UNCHANGED vars
  BY <1>4 DEF vars, table, main, FgInv, OneFG
<1> QED BY <1>1, <1>2, <1>3, <1>4 DEF Next

(* Lines 33-41: at most one job is in the foreground, and the shell        *)
(* prompts, forks and adds a job only when there is none.                  *)
THEOREM OneForegroundJob == Spec => []AtMostOneFG
<1>1. FgInv => AtMostOneFG
  BY DEF FgInv, AtMostOneFG, PromptHasNoFG
<1> QED BY <1>1, TypeInit, TypeNext, FgInit, FgNext, PTL DEF Spec

-----------------------------------------------------------------------------
(* No SIGCHLD is lost: the property is inductive.  A child only becomes    *)
(* waitable in a step that also makes SIGCHLD pending, and SIGCHLD only    *)
(* stops being pending by starting the handler, which ends when waitpid    *)
(* has nothing left to report.                                             *)
THEOREM ReapsAll == Spec => []NoLostSigchld
<1> USE DEF NoLostSigchld, Waitable, Zombies
<1>1. Init => NoLostSigchld
  BY DEF Init
<1>2. TypeInv /\ NoLostSigchld /\ [Next]_vars => NoLostSigchld'
  <2> SUFFICES ASSUME TypeInv, NoLostSigchld, [Next]_vars PROVE NoLostSigchld'
    OBVIOUS
  <2> USE DEF mask, procs, frames
  <2>0. handler \in [Signals -> Frame] /\ "CHLD" \in Signals /\ proc \in [Pids -> ProcStates]
    BY DEF TypeInv, TypeOK, Signals
  <2>1. CASE UNCHANGED <<proc, unseen, pending, handler>>
    BY <2>1
  <2>2. CASE Fork \/ BgFgCont
    <3>1. CASE Fork
      <4>1. Waitable' \subseteq Waitable
        BY <3>1, <2>0 DEF Fork, Unused
      <4> QED BY <3>1, <4>1 DEF Fork
    <3>2. CASE BgFgCont
      <4>1. Waitable' \subseteq Waitable /\ pending \subseteq pending' /\ handler' = handler
        BY <3>2, <2>0 DEF BgFgCont, Continue
      <4> QED BY <4>1
    <3> QED BY <2>2, <3>1, <3>2
  <2>3. ASSUME NEW s \in Signals, Catch(s) PROVE NoLostSigchld'
    <3>1. CASE s = "CHLD"
      BY <2>0, <2>3, <3>1 DEF Catch, Idle
    <3>2. CASE s # "CHLD"
      <4>1. handler'["CHLD"] = handler["CHLD"]
        BY <2>0, <2>3, <3>2 DEF Catch
      <4>2. "CHLD" \in pending => "CHLD" \in pending'
        BY <2>3, <3>2 DEF Catch
      <4> QED BY <2>3, <4>1, <4>2 DEF Catch
    <3> QED BY <3>1, <3>2
  <2>4. ASSUME NEW s \in Signals, FindFg(s) \/ KillFg(s) PROVE NoLostSigchld'
    <3>0. UNCHANGED <<proc, unseen, pending>> /\ handler[s].at # "idle" /\ handler[s] \in Frame
      BY <2>0, <2>4 DEF FindFg, KillFg, Step
    <3>1. CASE s = "CHLD"
      <4>1. handler'["CHLD"].at # "idle"
        <5>1. CASE FindFg(s)
          <6>1. CASE NextChild
            BY <2>0, <6>1 DEF NextChild, Idle
          <6>2. CASE handler' = [handler EXCEPT ![s] = [handler[s] EXCEPT !.at = "kill", !.fg = fgpid(jobs)]]
            BY <2>0, <3>0, <3>1, <6>2 DEF Frame
          <6> QED BY <3>1, <5>1, <6>1, <6>2 DEF FindFg
        <5>2. CASE KillFg(s)
          BY <2>0, <3>0, <3>1, <5>2 DEF KillFg, Goto, Frame
        <5> QED BY <2>4, <5>1, <5>2
      <4> QED BY <4>1
    <3>2. CASE s # "CHLD"
      <4>1. handler'["CHLD"] = handler["CHLD"]
        BY <2>0, <2>4, <3>2 DEF FindFg, KillFg, Return
      <4> QED BY <3>0, <4>1
    <3> QED BY <3>1, <3>2
  <2>5. CASE ChldWait
    <3>1. handler["CHLD"].at # "idle" /\ handler["CHLD"] \in Frame
      BY <2>0, <2>5 DEF ChldWait, Step
    <3>2. handler'["CHLD"].at # "idle"
      BY <2>0, <2>5, <3>1 DEF ChldWait, Frame
    <3> QED BY <3>2
  <2>6. CASE ChldReturn
    BY <2>6 DEF ChldReturn
  <2>7. CASE ChldDelete \/ MarkStopped \/ MarkKilled
    <3>1. NextChild
      BY <2>7 DEF ChldDelete, MarkStopped, MarkKilled
    <3>2. handler'["CHLD"].at # "idle"
      BY <2>0, <3>1 DEF NextChild, Idle
    <3> QED BY <3>2
  <2>8. ASSUME NEW s \in Keys, Key(s) PROVE NoLostSigchld'
    BY <2>8 DEF Key
  <2>9. ASSUME NEW p \in Pids, Child(p) PROVE NoLostSigchld'
    <3>1. CASE Exec(p)
      <4>1. Waitable' \subseteq Waitable
        BY <2>0, <3>1 DEF Exec
      <4> QED BY <3>1, <4>1 DEF Exec
    <3>2. Exits(p) \/ Dies(p) \/ Stops(p) => "CHLD" \in pending'
      BY DEF Exits, Dies, Stops, Ends
    <3> QED BY <2>9, <3>1, <3>2 DEF Child
  <2>10. Main => Fork \/ BgFgCont \/ UNCHANGED <<proc, unseen, pending, handler>>
    BY DEF Main, EvalRun, ForkFails, AddJob, Unblock, WaitfgReturns, BlankLine, Quit,
           BgFgLookup, BgFgSet, BgFgReread
  <2>11. Sigquit \/ UNCHANGED vars => UNCHANGED <<proc, unseen, pending, handler>>
    BY DEF Sigquit, vars
  <2> QED BY <2>1, <2>2, <2>3, <2>4, <2>5, <2>6, <2>7, <2>8, <2>9, <2>10, <2>11
          DEF Next, Handlers
<1> QED BY <1>1, <1>2, TypeInit, TypeNext, PTL DEF Spec
-----------------------------------------------------------------------------
(* What follows rests on how the handlers nest: what a handler read from   *)
(* the job list still holds when it acts on it, a child enters the list    *)
(* before it can be taken out, and Tsh implements JobControl.              *)

Active(s) == handler[s].at # "idle"
Under(s) == handler[s].under

(* The active handlers form a chain from running down to main, each the    *)
(* one that its successor interrupted.                                     *)
Chain ==
  /\ running = "main" => \A s \in Signals : ~ Active(s)
  /\ running # "main" => Active(running)
  /\ \A s \in Signals : Active(s) => Under(s) = "main" \/ Active(Under(s))
  /\ \A s \in Signals : Active(s) => Under(s) # s /\ Under(s) # running
  /\ \A s \in Signals : Active(s) /\ s # running
       => \E t \in Signals : Active(t) /\ Under(t) = s
  /\ \A s, t \in Signals : Active(s) /\ Active(t) /\ s # t
       => Under(s) # Under(t) /\ ~ (Under(s) = t /\ Under(t) = s)

LEMMA ChainInit == Init => Chain
BY DEF Init, Chain, Active, Under, Idle, Signals

(* A step that starts and ends no handler. *)
LEMMA ChainSame ==
  ASSUME Chain, UNCHANGED running,
         \A s \in Signals : (Active(s))' = Active(s) /\ (Under(s))' = Under(s),
         running \in Signals \cup {"main"},
         \A s \in Signals : Under(s) \in Signals \cup {"main"}
  PROVE  Chain'
BY DEF Chain

LEMMA ChainCatch ==
  ASSUME TypeInv, Chain, NEW s \in Signals, Catch(s)
  PROVE  Chain'
<1>1. /\ running \in Signals \cup {"main"} /\ handler \in [Signals -> Frame]
      /\ running' = s /\ handler[s].at = "idle"
  BY DEF TypeInv, TypeOK, Catch
<1>2. handler'[s].at # "idle" /\ handler'[s].under = running
  BY <1>1 DEF Catch, Idle
<1>3. \A t \in Signals \ {s} : handler'[t] = handler[t]
  BY <1>1 DEF Catch
<1>4. \A t \in Signals : handler[t].under \in Signals \cup {"main"}
  BY <1>1 DEF Frame
<1>5. "main" \notin Signals
  BY DEF Signals
<1> QED BY <1>1, <1>2, <1>3, <1>4, <1>5 DEF Chain, Active, Under

LEMMA ChainReturn ==
  ASSUME TypeInv, Chain, NEW s \in Signals, running = s, Return(s)
  PROVE  Chain'
<1>1. /\ handler \in [Signals -> Frame] /\ Active(s)
      /\ \A t \in Signals : handler[t].under \in Signals \cup {"main"}
  BY DEF TypeInv, TypeOK, Chain, Frame, Signals
<1>2. running' = handler[s].under /\ handler'[s].at = "idle"
  BY <1>1 DEF Return, Idle
<1>3. \A t \in Signals \ {s} : handler'[t] = handler[t]
  BY <1>1 DEF Return
<1>4. "main" \notin Signals
  BY DEF Signals
<1>5. CASE handler[s].under = "main"
  <2>1. \A t \in Signals \ {s} : ~ Active(t)
    <3> SUFFICES ASSUME NEW t \in Signals \ {s}, Active(t) PROVE FALSE
      OBVIOUS
    <3>1. PICK u \in Signals : Active(u) /\ Under(u) = t
      BY DEF Chain
    <3>2. u # s /\ u # t
      BY <1>4, <1>5, <3>1 DEF Chain, Under
    <3>3. PICK v \in Signals : Active(v) /\ Under(v) = u
      BY <3>1, <3>2 DEF Chain
    <3>4. v = t
      <4>1. v # s /\ v # u
        BY <1>4, <1>5, <3>3 DEF Chain, Under
      <4> QED BY <3>2, <4>1 DEF Signals
    <3> QED BY <3>1, <3>2, <3>3, <3>4 DEF Chain
  <2> QED BY <1>1, <1>2, <1>3, <1>4, <1>5, <2>1 DEF Chain, Active, Under
<1>6. CASE handler[s].under # "main"
  BY <1>1, <1>2, <1>3, <1>4, <1>6 DEF Chain, Active, Under
<1> QED BY <1>5, <1>6

LEMMA ChainNext == TypeInv /\ Chain /\ [Next]_vars => Chain'
<1> SUFFICES ASSUME TypeInv, Chain, [Next]_vars PROVE Chain'
  OBVIOUS
<1> USE DEF frames
<1>0. /\ handler \in [Signals -> Frame] /\ "CHLD" \in Signals
      /\ running \in Signals \cup {"main"}
      /\ \A s \in Signals : Under(s) \in Signals \cup {"main"}
  BY DEF TypeInv, TypeOK, Under, Frame, Signals
<1>1. CASE UNCHANGED frames
  BY <1>0, <1>1, ChainSame DEF Active, Under
<1>2. ASSUME NEW s \in Signals, Catch(s) PROVE Chain'
  BY <1>2, ChainCatch
<1>3. ASSUME NEW s \in Signals, running = s, Return(s) PROVE Chain'
  BY <1>3, ChainReturn
<1>4. ASSUME NextChild, Active("CHLD") PROVE Chain'
  <2>1. \A s \in Signals : (Active(s))' = Active(s) /\ (Under(s))' = Under(s)
    BY <1>0, <1>4 DEF NextChild, Active, Under, Idle
  <2> QED BY <1>0, <1>4, <2>1, ChainSame DEF NextChild
<1>5. ASSUME NEW s \in Signals, FindFg(s) PROVE Chain'
  <2>1. CASE Return(s)
    BY <1>3, <1>5, <2>1 DEF FindFg, Step
  <2>2. CASE NextChild /\ s = "CHLD"
    BY <1>4, <1>5, <2>2 DEF FindFg, Step, Active
  <2>3. CASE handler' = [handler EXCEPT ![s] = [handler[s] EXCEPT !.at = "kill", !.fg = fgpid(jobs)]]
             /\ UNCHANGED running
    <3>1. handler[s] \in Frame /\ handler[s].at = "fgpid"
      BY <1>0, <1>5 DEF FindFg, Step
    <3>2. \A t \in Signals : (Active(t))' = Active(t) /\ (Under(t))' = Under(t)
      BY <1>0, <2>3, <3>1 DEF Active, Under, Frame
    <3> QED BY <1>0, <2>3, <3>2, ChainSame
  <2> QED BY <1>5, <2>1, <2>2, <2>3 DEF FindFg
<1>6. ASSUME NEW s \in Signals, KillFg(s) PROVE Chain'
  <2>1. CASE Return(s)
    BY <1>3, <1>6, <2>1 DEF KillFg, Step
  <2>2. CASE Goto(s, "mark")
    <3>1. handler[s] \in Frame /\ handler[s].at = "kill"
      BY <1>0, <1>6 DEF KillFg, Step
    <3>2. \A t \in Signals : (Active(t))' = Active(t) /\ (Under(t))' = Under(t)
      BY <1>0, <2>2, <3>1 DEF Active, Under, Frame, Goto
    <3> QED BY <1>0, <2>2, <3>2, ChainSame DEF Goto
  <2> QED BY <1>6, <2>1, <2>2 DEF KillFg
<1>7. CASE ChldWait
  <2>1. handler["CHLD"] \in Frame /\ handler["CHLD"].at = "waitpid" /\ UNCHANGED running
    BY <1>0, <1>7 DEF ChldWait, Step
  <2>2. \A t \in Signals : (Active(t))' = Active(t) /\ (Under(t))' = Under(t)
    BY <1>0, <1>7, <2>1 DEF ChldWait, Active, Under, Frame
  <2> QED BY <1>0, <2>1, <2>2, ChainSame
<1>8. CASE ChldReturn
  BY <1>0, <1>3, <1>8 DEF ChldReturn, Step
<1>9. CASE ChldDelete \/ MarkStopped \/ MarkKilled
  BY <1>4, <1>9 DEF ChldDelete, MarkStopped, MarkKilled, Step, Active
<1>10. Main \/ Sigquit \/ (\E s \in Keys : Key(s)) \/ (\E p \in Pids : Child(p)) \/ UNCHANGED vars
         => UNCHANGED frames
  BY DEF Main, EvalRun, Fork, ForkFails, AddJob, Unblock, WaitfgReturns, BlankLine, Quit,
         BgFgLookup, BgFgCont, BgFgSet, BgFgReread, Sigquit, Key, Child, Exec, Exits, Dies,
         Stops, Ends, vars
<1> QED BY <1>1, <1>2, <1>5, <1>6, <1>7, <1>8, <1>9, <1>10 DEF Next, Handlers

-----------------------------------------------------------------------------
(* The list and the processes: listed pids are distinct and belong to      *)
(* children that exist, and while a child is forked but not yet added      *)
(* SIGCHLD is blocked, so it has not been reaped.                          *)
JobsInv ==
  /\ \A i \in Slots : jobs[i].pid \in Pids =>
       jobs[i].state \in {"FG", "BG", "ST"} /\ proc[jobs[i].pid] # "none"
  /\ \A i, j \in Slots : jobs[i].pid \in Pids /\ jobs[i].pid = jobs[j].pid => i = j
  /\ pc = "addjob" => /\ proc[cur] \notin {"none", "gone"}
                      /\ \A i \in Slots : jobs[i].pid # cur
  /\ pc \in {"fork", "addjob"} => blocked = {"CHLD"} /\ ~ Active("CHLD")

(* What fgpid returned still holds when the handler acts on it: for        *)
(* sigchld_handler, which nothing but key handlers can interrupt, the job  *)
(* is still in the foreground; a key handler may find it stopped or gone,  *)
(* never in the background.                                                *)
HandlerInv ==
  /\ handler["CHLD"].at \in {"kill", "mark"} =>
       \E i \in Slots : jobs[i].pid = handler["CHLD"].fg /\ jobs[i].state = "FG"
                        /\ jobs[i].pid \in Pids
  /\ \A s \in {"INT", "TSTP"} : handler[s].at = "kill" =>
       \A i \in Slots : jobs[i].pid = handler[s].fg => jobs[i].state # "BG"

Inv == TypeInv /\ FgInv /\ Chain /\ JobsInv /\ HandlerInv

LEMMA JobsInit == Init => JobsInv /\ HandlerInv
BY PidsAssumption
   DEF Init, JobsInv, HandlerInv, initjobs, clearjob, NoPid, Active, Idle, Signals

(* main: no handler is active, so only JobsInv is at stake. *)
LEMMA JobsMain ==
  ASSUME Inv, Main
  PROVE  JobsInv' /\ HandlerInv'
<1> USE DEF JobsInv, Active, At, ReturnToPrompt, table, frames, mask, procs
<1>0. /\ jobs \in [Slots -> Job] /\ proc \in [Pids -> ProcStates]
      /\ handler \in [Signals -> Frame] /\ nextjid \in Nat
      /\ JobsInv /\ Locals
  BY DEF Inv, TypeInv, TypeOK
<1>1. running = "main" /\ UNCHANGED frames
  BY DEF Main, EvalRun, Fork, ForkFails, AddJob, Unblock, WaitfgReturns, BlankLine, Quit,
         BgFgLookup, BgFgCont, BgFgSet, BgFgReread
<1>2. \A s \in Signals : handler[s].at = "idle"
  BY <1>1 DEF Inv, Chain, Active
<1>3. HandlerInv'
  BY <1>1, <1>2 DEF HandlerInv, Signals
<1> SUFFICES JobsInv'
  BY <1>3
<1>4. ~ Active("CHLD") /\ ~ Active("CHLD")'
  BY <1>1, <1>2 DEF Active, Signals
<1>5. ASSUME NEW k \in {"FG", "BG"}, EvalRun(k) PROVE JobsInv'
  BY <1>0, <1>4, <1>5 DEF EvalRun
<1>6. CASE Fork
  <2>1. PICK p \in Unused : proc' = [proc EXCEPT ![p] = "forked"] /\ cur' = p
    BY <1>6 DEF Fork
  <2>2. p \in Pids /\ proc[p] = "none"
    BY DEF Unused
  <2>3. \A i \in Slots : jobs[i].pid # p
    BY <1>0, <2>2
  <2>4. jobs' = jobs /\ blocked' = blocked /\ pc = "fork"
    BY <1>6 DEF Fork
  <2>5. \A q \in Pids : proc[q] # "none" => proc'[q] # "none"
    BY <1>0, <2>1, <2>2
  <2>6. proc'[cur'] \notin {"none", "gone"}
    BY <1>0, <2>1, <2>2
  <2> QED BY <1>0, <1>4, <2>1, <2>3, <2>4, <2>5, <2>6
<1>7. CASE AddJob
  <2>1. cur \in Pids /\ kind \in {"FG", "BG"} /\ kind \in States
    BY <1>0, <1>7 DEF AddJob, Locals, States
  <2>2. \/ jobs' = jobs
        \/ \E i \in Slots :
             jobs' = [jobs EXCEPT ![i] = [pid |-> cur, jid |-> nextjid, state |-> kind]]
    BY <1>0, <1>7, <2>1, AddjobEffect DEF AddJob
  <2>3. pc = "addjob" /\ pc' = "unblock" /\ proc' = proc
    BY <1>7 DEF AddJob
  <2>4. CASE jobs' = jobs
    BY <1>0, <2>3, <2>4
  <2>5. ASSUME NEW n \in Slots,
               jobs' = [jobs EXCEPT ![n] = [pid |-> cur, jid |-> nextjid, state |-> kind]]
        PROVE  JobsInv'
    <3>1. jobs'[n].pid = cur /\ jobs'[n].state = kind
      BY <1>0, <2>5
    <3>2. \A i \in Slots \ {n} : jobs'[i] = jobs[i]
      BY <1>0, <2>5
    <3>3. \A i \in Slots : jobs[i].pid # cur
      BY <1>0, <2>3
    <3> QED BY <1>0, <2>1, <2>3, <3>1, <3>2, <3>3
  <2> QED BY <2>2, <2>4, <2>5
<1>8. CASE BgFgCont
  <2>1. \A p \in Pids : proc'[p] = "none" => proc[p] = "none"
    BY <1>0, <1>8 DEF BgFgCont, Continue
  <2>2. jobs' = jobs /\ pc' = "set"
    BY <1>8 DEF BgFgCont
  <2> QED BY <1>0, <2>1, <2>2
<1>9. CASE BgFgSet
  <2>1. slot \in Slots /\ kind \in {"FG", "BG"} /\ kind \in States
    BY <1>0, <1>9 DEF BgFgSet, Locals, States
  <2>2. \A n \in Slots : setstate(jobs, slot, kind)[n] =
          IF n = slot THEN [pid |-> jobs[slot].pid, jid |-> jobs[slot].jid, state |-> kind]
                      ELSE jobs[n]
    BY <1>0, <2>1, SetstateEffect
  <2>3. \A n \in Slots : jobs'[n].pid = jobs[n].pid
                         /\ (jobs'[n].state = jobs[n].state \/ jobs'[n].state = kind)
    BY <1>9, <2>2 DEF BgFgSet
  <2>4. pc' \notin {"fork", "addjob"} /\ proc' = proc
    BY <1>9 DEF BgFgSet
  <2>5. \A i \in Slots : jobs'[i].pid \in Pids =>
          jobs'[i].state \in {"FG", "BG", "ST"} /\ proc'[jobs'[i].pid] # "none"
    BY <1>0, <2>1, <2>3, <2>4
  <2>6. \A i, j \in Slots : jobs'[i].pid \in Pids /\ jobs'[i].pid = jobs'[j].pid => i = j
    BY <1>0, <2>3
  <2> QED BY <2>4, <2>5, <2>6
<1>10. ForkFails \/ Unblock \/ WaitfgReturns \/ BlankLine \/ Quit \/ BgFgReread
         \/ BgFgLookup("FG") \/ BgFgLookup("BG")
         => pc' \notin {"fork", "addjob"} /\ UNCHANGED <<jobs, proc>>
  BY DEF ForkFails, Unblock, WaitfgReturns, BlankLine, Quit, BgFgReread, BgFgLookup
<1>11. pc' \notin {"fork", "addjob"} /\ UNCHANGED <<jobs, proc>> => JobsInv'
  BY <1>0
<1> QED BY <1>5, <1>6, <1>7, <1>8, <1>9, <1>10, <1>11 DEF Main

(* A slot cleared by a handler leaves both invariants. *)
LEMMA JobsCleared ==
  ASSUME Inv, UNCHANGED <<main, proc, blocked>>, NextChild, Active("CHLD"),
         jobs' = jobs \/ \E i \in Slots : jobs' = [jobs EXCEPT ![i] = clearjob]
  PROVE  JobsInv' /\ HandlerInv'
<1>0. /\ jobs \in [Slots -> Job] /\ handler \in [Signals -> Frame]
      /\ JobsInv /\ HandlerInv /\ "CHLD" \in Signals
  BY DEF Inv, TypeInv, TypeOK, Signals
<1>1. \A i \in Slots : jobs'[i] = jobs[i] \/ jobs'[i] = clearjob
  BY <1>0
<1>2. clearjob.pid \notin Pids /\ clearjob.state = "UNDEF"
  BY PidsAssumption DEF clearjob, NoPid
<1>3. pc \notin {"fork", "addjob"}
  BY <1>0 DEF JobsInv
<1>4. JobsInv'
  BY <1>0, <1>1, <1>2, <1>3 DEF JobsInv, main
<1>5. handler'["CHLD"].at = "waitpid" /\ \A s \in {"INT", "TSTP"} : handler'[s] = handler[s]
  BY <1>0 DEF NextChild, Idle
<1> QED BY <1>0, <1>1, <1>2, <1>4, <1>5 DEF HandlerInv

(* sigtstp_handler(-20) marks the foreground job it found. *)
LEMMA MarksForeground ==
  ASSUME Inv, MarkStopped
  PROVE  \E i \in Slots :
           /\ jobs[i].pid \in Pids /\ jobs[i].state = "FG"
           /\ getjobpid(jobs, handler["CHLD"].fg) = i
           /\ \A n \in Slots : jobs'[n] =
                IF n = i THEN [pid |-> jobs[i].pid, jid |-> jobs[i].jid, state |-> "ST"]
                         ELSE jobs[n]
<1>0. jobs \in [Slots -> Job] /\ JobsInv /\ HandlerInv
  BY DEF Inv, TypeInv, TypeOK
<1>1. PICK i \in Slots : jobs[i].pid = handler["CHLD"].fg /\ jobs[i].state = "FG"
                         /\ jobs[i].pid \in Pids
  BY <1>0 DEF HandlerInv, MarkStopped, Step
<1>2. getjobpid(jobs, jobs[i].pid) = i
  BY <1>0, <1>1, GetjobpidFinds DEF JobsInv
<1>3. "ST" \in States
  BY DEF States
<1>4. jobs' = setstate(jobs, i, "ST")
  BY <1>1, <1>2 DEF MarkStopped
<1>5. \A n \in Slots : setstate(jobs, i, "ST")[n] =
        IF n = i THEN [pid |-> jobs[i].pid, jid |-> jobs[i].jid, state |-> "ST"] ELSE jobs[n]
  BY <1>0, <1>3, SetstateEffect
<1> QED BY <1>1, <1>2, <1>4, <1>5

LEMMA JobsHandlers ==
  ASSUME Inv, Handlers
  PROVE  JobsInv' /\ HandlerInv'
<1>0. /\ jobs \in [Slots -> Job] /\ proc \in [Pids -> ProcStates]
      /\ handler \in [Signals -> Frame] /\ "CHLD" \in Signals
      /\ JobsInv /\ HandlerInv /\ nextjid \in Nat
  BY DEF Inv, TypeInv, TypeOK, Signals
<1> USE DEF table, main, mask, procs
<1>1. ASSUME NEW s \in Signals, Catch(s) PROVE JobsInv' /\ HandlerInv'
  <2>1. UNCHANGED <<jobs, pc, cur, proc, blocked>>
    BY <1>1 DEF Catch
  <2>2. /\ handler'[s].at \in {"waitpid", "fgpid"}
        /\ \A t \in Signals \ {s} : handler'[t] = handler[t]
    BY <1>0, <1>1 DEF Catch, Idle
  <2>3. s = "CHLD" => blocked # {"CHLD"}
    BY <1>1 DEF Catch
  <2>4. JobsInv'
    BY <1>0, <2>1, <2>2, <2>3 DEF JobsInv, Active
  <2>5. HandlerInv'
    BY <1>0, <2>1, <2>2 DEF HandlerInv, Signals
  <2> QED BY <2>4, <2>5
<1>2. ASSUME NEW s \in Signals, FindFg(s) PROVE JobsInv' /\ HandlerInv'
  <2>1. UNCHANGED <<jobs, pc, cur, proc, blocked>> /\ handler[s].at = "fgpid"
    BY <1>2 DEF FindFg, Step
  <2>2. \A t \in Signals \ {s} : handler'[t] = handler[t]
    BY <1>0, <1>2 DEF FindFg, NextChild, Return
  <2>3. CASE fgpid(jobs) = NoPid
    <3>1. handler'[s].at \in {"waitpid", "idle"}
      <4>1. CASE NextChild /\ s = "CHLD"
        BY <1>0, <4>1 DEF NextChild, Idle
      <4>2. CASE Return(s)
        BY <1>0, <4>2 DEF Return, Idle
      <4> QED BY <1>2, <2>3, <4>1, <4>2 DEF FindFg
    <3>2. JobsInv'
      BY <1>0, <2>1, <2>2, <3>1 DEF JobsInv, Active
    <3>3. HandlerInv'
      BY <1>0, <2>1, <2>2, <3>1 DEF HandlerInv, Signals
    <3> QED BY <3>2, <3>3
  <2>4. CASE fgpid(jobs) # NoPid
    <3>1. handler'[s].at = "kill" /\ handler'[s].fg = fgpid(jobs)
      BY <1>0, <1>2, <2>4 DEF FindFg, Frame
    <3>2. PICK i \in Slots : jobs[i].state = "FG" /\ fgpid(jobs) = jobs[i].pid
      BY <1>0, <2>4, FgpidFindsFg DEF FgSlots
    <3>3. jobs[i].pid \in Pids
      BY <1>0, <2>4, <3>2, FgpidFindsFg
    <3>4. JobsInv'
      BY <1>0, <2>1, <2>2, <3>1 DEF JobsInv, Active
    <3>5. \A n \in Slots : jobs[n].pid = fgpid(jobs) => jobs[n].state # "BG"
      BY <1>0, <3>2, <3>3 DEF JobsInv
    <3>6. HandlerInv'
      BY <1>0, <2>1, <2>2, <3>1, <3>2, <3>3, <3>5 DEF HandlerInv, Signals
    <3> QED BY <3>4, <3>6
  <2> QED BY <2>3, <2>4
<1>3. ASSUME NEW s \in Signals, KillFg(s) PROVE JobsInv' /\ HandlerInv'
  <2>1. UNCHANGED <<jobs, pc, cur, proc, blocked>> /\ handler[s].at = "kill"
    BY <1>3 DEF KillFg, Step
  <2>2. \A t \in Signals \ {s} : handler'[t] = handler[t]
    BY <1>0, <1>3 DEF KillFg, Goto, Return
  <2>3. IF s = "CHLD" THEN handler'[s].at = "mark" /\ handler'[s].fg = handler[s].fg
                      ELSE handler'[s].at = "idle"
    BY <1>0, <1>3 DEF KillFg, Goto, Return, Idle, Frame
  <2>4. JobsInv'
    BY <1>0, <2>1, <2>2, <2>3 DEF JobsInv, Active
  <2>5. HandlerInv'
    BY <1>0, <2>1, <2>2, <2>3 DEF HandlerInv, Signals
  <2> QED BY <2>4, <2>5
<1>4. CASE ChldWait
  <2>1. UNCHANGED <<jobs, pc, cur, blocked>> /\ handler["CHLD"].at = "waitpid"
    BY <1>4 DEF ChldWait, Step
  <2>2. handler'["CHLD"].at \in {"delete", "fgpid"}
    BY <1>0, <1>4 DEF ChldWait, Frame
  <2>3. \A t \in Signals \ {"CHLD"} : handler'[t] = handler[t]
    BY <1>0, <1>4 DEF ChldWait
  <2>4. \A p \in Pids : proc'[p] = "none" => proc[p] = "none"
    BY <1>0, <1>4 DEF ChldWait
  <2>5. pc # "addjob"
    BY <1>0, <2>1 DEF JobsInv, Active
  <2>6. JobsInv'
    BY <1>0, <2>1, <2>2, <2>4, <2>5 DEF JobsInv, Active
  <2>7. HandlerInv'
    BY <1>0, <2>1, <2>2, <2>3 DEF HandlerInv, Signals
  <2> QED BY <2>6, <2>7
<1>5. CASE ChldReturn
  <2>1. UNCHANGED <<jobs, pc, cur, proc, blocked>>
    BY <1>5 DEF ChldReturn
  <2>2. handler'["CHLD"].at = "idle" /\ \A t \in Signals \ {"CHLD"} : handler'[t] = handler[t]
    BY <1>0, <1>5 DEF ChldReturn, Return, Idle
  <2>3. JobsInv'
    BY <1>0, <2>1, <2>2 DEF JobsInv, Active
  <2>4. HandlerInv'
    BY <1>0, <2>1, <2>2 DEF HandlerInv, Signals
  <2> QED BY <2>3, <2>4
<1>6. CASE ChldDelete \/ MarkKilled
  <2>1. PICK p \in Pids \cup {NoPid} : jobs' = deletejob(jobs, p)
    <3>1. handler["CHLD"].pid \in Pids \cup {NoPid} /\ handler["CHLD"].fg \in Pids \cup {NoPid}
      BY <1>0 DEF Frame
    <3> QED BY <1>6, <3>1 DEF ChldDelete, MarkKilled
  <2>2. jobs' = jobs \/ \E i \in Slots : jobs' = [jobs EXCEPT ![i] = clearjob]
    BY <1>0, <2>1, DeletejobEffect
  <2>3. UNCHANGED <<main, proc, blocked>> /\ NextChild /\ Active("CHLD")
    BY <1>6 DEF ChldDelete, MarkKilled, Step, Active
  <2> QED BY <2>2, <2>3, JobsCleared
<1>7. CASE MarkStopped
  <2>1. PICK i \in Slots :
          \A n \in Slots : jobs'[n] =
            IF n = i THEN [pid |-> jobs[i].pid, jid |-> jobs[i].jid, state |-> "ST"] ELSE jobs[n]
    BY <1>7, MarksForeground
  <2>2. \A n \in Slots : jobs'[n].pid = jobs[n].pid
                         /\ (jobs'[n].state = jobs[n].state \/ jobs'[n].state = "ST")
    BY <2>1
  <2>3. UNCHANGED <<pc, cur, proc, blocked>> /\ NextChild /\ handler["CHLD"].at = "mark"
    BY <1>7 DEF MarkStopped, Step
  <2>4. handler'["CHLD"].at = "waitpid" /\ \A t \in Signals \ {"CHLD"} : handler'[t] = handler[t]
    BY <1>0, <2>3 DEF NextChild, Idle
  <2>5. pc \notin {"fork", "addjob"}
    BY <1>0, <2>3 DEF JobsInv, Active
  <2>6. JobsInv'
    BY <1>0, <2>2, <2>3, <2>5 DEF JobsInv
  <2>7. HandlerInv'
    BY <1>0, <2>2, <2>4 DEF HandlerInv, Signals
  <2> QED BY <2>6, <2>7
<1> QED BY <1>1, <1>2, <1>3, <1>4, <1>5, <1>6, <1>7 DEF Handlers

LEMMA JobsOthers ==
  ASSUME Inv, Sigquit \/ (\E s \in Keys : Key(s)) \/ (\E p \in Pids : Child(p)) \/ UNCHANGED vars
  PROVE  JobsInv' /\ HandlerInv'
<1> USE DEF table, main, frames, mask, procs
<1>0. proc \in [Pids -> ProcStates] /\ JobsInv /\ HandlerInv
  BY DEF Inv, TypeInv, TypeOK
<1>1. /\ UNCHANGED <<jobs, handler, blocked>>
      /\ (pc' = "exited" \/ UNCHANGED <<pc, cur>>)
  BY DEF Sigquit, Key, Child, Exec, Exits, Dies, Stops, Ends, vars
<1>2. \A q \in Pids : proc'[q] \in {"none", "gone"} => proc'[q] = proc[q]
  <2>1. CASE proc' = proc
    BY <2>1
  <2>2. ASSUME NEW p \in Pids, Child(p)
        PROVE  \A q \in Pids : proc'[q] \in {"none", "gone"} => proc'[q] = proc[q]
    BY <1>0, <2>2 DEF Child, Exec, Exits, Dies, Stops, Ends
  <2>3. Sigquit \/ (\E s \in Keys : Key(s)) \/ UNCHANGED vars => proc' = proc
    BY DEF Sigquit, Key, vars
  <2> QED BY <2>1, <2>2, <2>3
<1>3. pc = "addjob" => cur \in Pids
  BY DEF Inv, TypeInv, Locals
<1>4. JobsInv'
  <2>1. CASE pc' = "exited"
    BY <1>0, <1>1, <1>2, <2>1 DEF JobsInv
  <2>2. CASE UNCHANGED <<pc, cur>>
    BY <1>0, <1>1, <1>2, <1>3, <2>2 DEF JobsInv, Active
  <2> QED BY <1>1, <2>1, <2>2
<1>5. HandlerInv'
  BY <1>0, <1>1 DEF HandlerInv
<1> QED BY <1>4, <1>5

LEMMA InvInit == Init => Inv
BY TypeInit, FgInit, ChainInit, JobsInit DEF Inv

LEMMA InvNext == Inv /\ [Next]_vars => Inv'
<1>1. Inv /\ [Next]_vars => JobsInv' /\ HandlerInv'
  BY JobsMain, JobsHandlers, JobsOthers DEF Next
<1> QED BY <1>1, TypeNext, FgNext, ChainNext DEF Inv

(* The pointer that sigtstp_handler(-20) dereferences is never NULL: only  *)
(* key handlers can run between fgpid and getjobpid, and they leave the    *)
(* list alone.                                                             *)
THEOREM MarkSafe == Spec => []MarkFindsJob
<1>1. Inv => MarkFindsJob
  <2> SUFFICES ASSUME Inv, handler["CHLD"].at = "mark"
               PROVE  getjobpid(jobs, handler["CHLD"].fg) # NoSlot
    BY DEF MarkFindsJob
  <2>1. jobs \in [Slots -> Job] /\ HandlerInv
    BY DEF Inv, TypeInv, TypeOK
  <2> QED BY <2>1, GetjobpidFinds DEF HandlerInv
<1> QED BY <1>1, InvInit, InvNext, PTL DEF Spec

(* Only addjob brings a pid into the list. *)
LEMMA PidsLeave ==
  ASSUME Inv, [Next]_vars, ~ AddJob, NEW i \in Slots
  PROVE  jobs'[i].pid \in {jobs[i].pid, NoPid}
<1>0. /\ jobs \in [Slots -> Job] /\ handler["CHLD"] \in Frame /\ nextjid \in Nat
  BY DEF Inv, TypeInv, TypeOK, Signals
<1>1. CASE ChldDelete \/ MarkKilled
  <2>1. PICK p \in Pids \cup {NoPid} : jobs' = deletejob(jobs, p)
    BY <1>0, <1>1 DEF ChldDelete, MarkKilled, Frame
  <2>2. jobs' = jobs \/ \E n \in Slots : jobs' = [jobs EXCEPT ![n] = clearjob]
    BY <1>0, <2>1, DeletejobEffect
  <2> QED BY <1>0, <2>2 DEF clearjob
<1>2. CASE MarkStopped
  <2>1. PICK k \in Slots :
          \A n \in Slots : jobs'[n] =
            IF n = k THEN [pid |-> jobs[k].pid, jid |-> jobs[k].jid, state |-> "ST"] ELSE jobs[n]
    BY <1>2, MarksForeground
  <2>2. \A n \in Slots : jobs'[n].pid = jobs[n].pid
    BY <2>1
  <2> QED BY <2>2
<1>3. CASE BgFgSet
  <2>0. jobs' = setstate(jobs, slot, kind)
    BY <1>3 DEF BgFgSet
  <2>1. slot \in Slots /\ kind \in States
    BY <1>3 DEF BgFgSet, Inv, TypeInv, Locals, States, At
  <2>2. \A n \in Slots : setstate(jobs, slot, kind)[n].pid = jobs[n].pid
    BY <1>0, <2>1, SetstatePids
  <2> QED BY <2>0, <2>2
<1>4. Main => AddJob \/ BgFgSet \/ jobs' = jobs
  BY DEF Main, EvalRun, Fork, ForkFails, Unblock, WaitfgReturns, BlankLine, Quit,
         BgFgLookup, BgFgCont, BgFgReread, table
<1>5. Handlers => ChldDelete \/ MarkStopped \/ MarkKilled \/ jobs' = jobs
  BY DEF Handlers, Catch, FindFg, KillFg, ChldWait, ChldReturn, table
<1>6. Sigquit \/ (\E s \in Keys : Key(s)) \/ (\E p \in Pids : Child(p)) \/ UNCHANGED vars
        => jobs' = jobs
  BY DEF Sigquit, Key, Child, Exec, Exits, Dies, Stops, Ends, vars, table
<1> QED BY <1>1, <1>2, <1>3, <1>4, <1>5, <1>6 DEF Next

(* A child enters the job list before it can be reaped. *)
THEOREM AddedBeforeReaped == Spec => AddedAlive
<1>1. Inv /\ [Next]_vars => (\A p \in Pids : p \in Listed(jobs') \ Listed(jobs) => proc[p] # "gone")
  <2> SUFFICES ASSUME Inv, [Next]_vars, NEW p \in Pids, p \in Listed(jobs') \ Listed(jobs)
               PROVE  proc[p] # "gone"
    OBVIOUS
  <2>1. jobs \in [Slots -> Job] /\ JobsInv /\ nextjid \in Nat
    BY DEF Inv, TypeInv, TypeOK
  <2>2. PICK i \in Slots : jobs'[i].pid = p /\ jobs[i].pid # p /\ p # NoPid
    BY DEF Listed
  <2>3. AddJob
    BY <2>2, PidsLeave
  <2>4. cur \in Pids /\ kind \in States
    BY <2>3 DEF AddJob, At, Inv, TypeInv, Locals, States
  <2>5. p = cur
    BY <2>1, <2>2, <2>3, <2>4, AddjobEffect DEF AddJob
  <2> QED BY <2>1, <2>3, <2>5 DEF AddJob, At, JobsInv
<1> QED BY <1>1, InvInit, InvNext, PTL DEF Spec, AddedAlive

(* Forwarding spares the background: whoever is signalled was in the       *)
(* foreground when fgpid returned it, and is not in the background yet.    *)
THEOREM ForwardingSparesBackground == Spec => SparesBackground
<1>1. ASSUME Inv, [Next]_vars, NEW i \in Slots, jobs[i].state = "BG", jobs[i].pid \in Pids
      PROVE  psig'[jobs[i].pid] \subseteq psig[jobs[i].pid]
  <2>0. /\ psig \in [Pids -> SUBSET {"INT", "TSTP"}] /\ JobsInv /\ HandlerInv
        /\ jobs \in [Slots -> Job]
    BY <1>1 DEF Inv, TypeInv, TypeOK
  <2> USE DEF procs
  <2>1. ASSUME NEW s \in Signals, KillFg(s) PROVE handler[s].fg # jobs[i].pid
    <3>1. handler[s].at = "kill"
      BY <2>1 DEF KillFg, Step
    <3>2. CASE s = "CHLD"
      BY <1>1, <2>0, <3>1, <3>2 DEF HandlerInv, JobsInv
    <3>3. CASE s # "CHLD"
      BY <1>1, <2>0, <3>1, <3>3 DEF HandlerInv, Signals
    <3> QED BY <3>2, <3>3
  <2>2. ASSUME NEW s \in Signals, KillFg(s) PROVE psig'[jobs[i].pid] = psig[jobs[i].pid]
    BY <1>1, <2>0, <2>1, <2>2 DEF KillFg, Signalled
  <2>3. CASE BgFgCont
    BY <1>1, <2>0, <2>3 DEF BgFgCont, Continue
  <2>4. ASSUME NEW p \in Pids, Child(p) PROVE psig'[jobs[i].pid] \subseteq psig[jobs[i].pid]
    BY <1>1, <2>0, <2>4 DEF Child, Exec, Exits, Dies, Stops, Ends
  <2>5. Main => BgFgCont \/ psig' = psig
    BY DEF Main, EvalRun, Fork, ForkFails, AddJob, Unblock, WaitfgReturns, BlankLine, Quit,
           BgFgLookup, BgFgSet, BgFgReread
  <2>6. Sigquit \/ (\E s \in Keys : Key(s)) \/ UNCHANGED vars => psig' = psig
    BY DEF Sigquit, Key, vars
  <2>7. Handlers => (\E s \in Signals : KillFg(s)) \/ psig' = psig
    BY DEF Handlers, Catch, FindFg, ChldWait, ChldReturn, ChldDelete, MarkStopped, MarkKilled
  <2> QED BY <1>1, <2>2, <2>3, <2>4, <2>5, <2>6, <2>7 DEF Next
<1>2. Inv /\ [Next]_vars =>
        \A i \in Slots : jobs[i].state = "BG" /\ jobs[i].pid \in Pids
          => psig'[jobs[i].pid] \subseteq psig[jobs[i].pid]
  BY <1>1
<1> QED BY <1>2, InvInit, InvNext, PTL DEF Spec, SparesBackground

-----------------------------------------------------------------------------
(* Tsh implements JobControl.  The value of the refinement mapping at p is *)
(* the state of p's slot, which is unique, if it has one.                  *)
Mapping ==
  \A p \in Pids :
    /\ \A i \in Slots : jobs[i].pid = p => jobOf[p] = jobs[i].state
    /\ (\A i \in Slots : jobs[i].pid # p)
         => jobOf[p] = IF proc[p] = "none" \/ (pc = "addjob" /\ cur = p) THEN "none" ELSE "done"

LEMMA MappingOfInv == Inv => Mapping
<1> SUFFICES ASSUME Inv, NEW p \in Pids
    PROVE /\ \A i \in Slots : jobs[i].pid = p => jobOf[p] = jobs[i].state
          /\ (\A i \in Slots : jobs[i].pid # p)
               => jobOf[p] = IF proc[p] = "none" \/ (pc = "addjob" /\ cur = p) THEN "none" ELSE "done"
  BY DEF Mapping
<1>1. jobs \in [Slots -> Job] /\ JobsInv /\ p # NoPid
  BY PidsAssumption DEF Inv, TypeInv, TypeOK, NoPid
<1>2. ASSUME NEW i \in Slots, jobs[i].pid = p PROVE jobOf[p] = jobs[i].state
  <2>1. p \in Listed(jobs)
    BY <1>1, <1>2 DEF Listed
  <2>2. getjobpid(jobs, p) \in Slots /\ jobs[getjobpid(jobs, p)].pid = p
    BY <1>1, <1>2, GetjobpidFinds
  <2>3. getjobpid(jobs, p) = i
    BY <1>1, <1>2, <2>2 DEF JobsInv
  <2> QED BY <2>1, <2>3 DEF jobOf
<1>3. (\A i \in Slots : jobs[i].pid # p) => p \notin Listed(jobs)
  BY DEF Listed
<1> QED BY <1>2, <1>3 DEF jobOf

LEMMA MappingNext == Inv /\ [Next]_vars => Mapping /\ Mapping'
<1>1. Inv' => Mapping'
  BY MappingOfInv, PTL
<1> QED BY <1>1, MappingOfInv, InvNext

(* A step that changes no slot and creates no process maps to a stutter. *)
LEMMA MapsToStutter ==
  ASSUME Mapping, Mapping', jobs' = jobs,
         \A p \in Pids : (proc'[p] = "none" \/ (pc' = "addjob" /\ cur' = p))
                           <=> (proc[p] = "none" \/ (pc = "addjob" /\ cur = p))
  PROVE  jobOf' = jobOf
<1>1. \A p \in Pids : jobOf'[p] = jobOf[p]
  BY DEF Mapping
<1> QED BY <1>1 DEF jobOf

(* A step in which the slot of p goes, or changes state, maps to a step of *)
(* p's job alone.                                                          *)
LEMMA MapsToChange ==
  ASSUME Mapping, Mapping', NEW p \in Pids, NEW to,
         jobOf'[p] = to,
         \A q \in Pids \ {p} : jobOf'[q] = jobOf[q]
  PROVE  jobOf' = [jobOf EXCEPT ![p] = to]
BY DEF jobOf

LEMMA NobodyInForeground ==
  ASSUME Inv, FgSlots(jobs) = {}
  PROVE  JC!ForegroundFree
<1>1. Mapping
  BY MappingOfInv
<1>2. \A p \in Pids : jobOf[p] # "FG"
  BY <1>1 DEF Mapping, FgSlots
<1> QED BY <1>2 DEF JC!ForegroundFree

LEMMA ClearMaps ==
  ASSUME Inv, Mapping, Mapping', UNCHANGED <<main, proc>>, Active("CHLD"),
         jobs' = jobs \/ \E i \in Slots : jobs' = [jobs EXCEPT ![i] = clearjob]
  PROVE  [JC!JCNext]_jobOf
<1>0. jobs \in [Slots -> Job] /\ JobsInv /\ pc # "addjob"
  BY DEF Inv, TypeInv, TypeOK, JobsInv
<1>1. CASE jobs' = jobs
  <2>1. jobOf' = jobOf
    BY <1>1, MapsToStutter DEF main
  <2> QED BY <2>1
<1>2. ASSUME NEW i \in Slots, jobs' = [jobs EXCEPT ![i] = clearjob]
      PROVE  [JC!JCNext]_jobOf
  <2>1. \A n \in Slots : IF n = i THEN jobs'[n].pid = NoPid ELSE jobs'[n] = jobs[n]
    BY <1>0, <1>2 DEF clearjob
  <2>2. NoPid \notin Pids
    BY PidsAssumption DEF NoPid
  <2>3. CASE jobs[i].pid \notin Pids
    <3>1. \A p \in Pids : jobOf'[p] = jobOf[p]
      <4> SUFFICES ASSUME NEW p \in Pids PROVE jobOf'[p] = jobOf[p]
        OBVIOUS
      <4>1. CASE \E n \in Slots : jobs[n].pid = p
        <5>1. PICK n \in Slots : jobs[n].pid = p
          BY <4>1
        <5>2. n # i /\ jobs'[n] = jobs[n]
          BY <2>1, <2>3, <5>1
        <5> QED BY <5>1, <5>2 DEF Mapping
      <4>2. CASE \A n \in Slots : jobs[n].pid # p
        <5>1. \A n \in Slots : jobs'[n].pid # p
          BY <2>1, <2>2, <4>2
        <5> QED BY <1>0, <4>2, <5>1 DEF Mapping, main
      <4> QED BY <4>1, <4>2
    <3> QED BY <3>1 DEF jobOf
  <2>4. CASE jobs[i].pid \in Pids
    <3> DEFINE p == jobs[i].pid
    <3>1. \A n \in Slots : jobs'[n].pid # p
      BY <1>0, <2>1, <2>2, <2>4 DEF JobsInv
    <3>2. jobOf'[p] = "done"
      BY <1>0, <2>4, <3>1 DEF Mapping, JobsInv, main
    <3>3. jobOf[p] \in {"FG", "BG", "ST"}
      BY <1>0, <2>4 DEF Mapping, JobsInv
    <3>4. ASSUME NEW q \in Pids \ {p} PROVE jobOf'[q] = jobOf[q]
      <4>1. CASE \E n \in Slots : jobs[n].pid = q
        <5>1. PICK n \in Slots : jobs[n].pid = q
          BY <4>1
        <5>2. jobs'[n] = jobs[n]
          BY <2>1, <5>1
        <5> QED BY <5>1, <5>2 DEF Mapping
      <4>2. CASE \A n \in Slots : jobs[n].pid # q
        <5>1. \A n \in Slots : jobs'[n].pid # q
          BY <2>1, <2>2, <4>2
        <5> QED BY <1>0, <4>2, <5>1 DEF Mapping, main
      <4> QED BY <4>1, <4>2
    <3>5. jobOf' = [jobOf EXCEPT ![p] = "done"]
      BY <2>4, <3>2, <3>4, MapsToChange
    <3>6. JC!Finish(p)
      BY <3>3, <3>5 DEF JC!Finish, JC!Become
    <3> QED BY <2>4, <3>6 DEF JC!JCNext
  <2> QED BY <2>3, <2>4
<1> QED BY <1>1, <1>2

(* Setting the state of one slot, pids unchanged. *)
LEMMA SetMaps ==
  ASSUME Inv, Mapping, Mapping', UNCHANGED proc, pc # "addjob", pc' # "addjob",
         NEW i \in Slots, NEW k,
         \A n \in Slots : jobs'[n].pid = jobs[n].pid
                          /\ jobs'[n].state = IF n = i THEN k ELSE jobs[n].state
  PROVE  IF jobs[i].pid \in Pids
         THEN jobOf[jobs[i].pid] = jobs[i].state /\ jobOf' = [jobOf EXCEPT ![jobs[i].pid] = k]
         ELSE jobOf' = jobOf
<1>0. JobsInv
  BY DEF Inv
<1>1. ASSUME NEW q \in Pids, q # jobs[i].pid PROVE jobOf'[q] = jobOf[q]
  <2>1. CASE \E n \in Slots : jobs[n].pid = q
    <3>1. PICK n \in Slots : jobs[n].pid = q
      BY <2>1
    <3>2. n # i
      BY <1>1, <3>1
    <3> QED BY <3>1, <3>2 DEF Mapping
  <2>2. CASE \A n \in Slots : jobs[n].pid # q
    BY <2>2 DEF Mapping
  <2> QED BY <2>1, <2>2
<1>2. CASE jobs[i].pid \in Pids
  <2>1. jobOf[jobs[i].pid] = jobs[i].state /\ jobOf'[jobs[i].pid] = k
    BY <1>2 DEF Mapping
  <2> QED BY <1>1, <1>2, <2>1, MapsToChange
<1>3. CASE jobs[i].pid \notin Pids
  <2>1. \A q \in Pids : jobOf'[q] = jobOf[q]
    BY <1>1, <1>3
  <2> QED BY <1>3, <2>1 DEF jobOf
<1> QED BY <1>2, <1>3

LEMMA ImplementsMain ==
  ASSUME Inv, Mapping, Mapping', Main
  PROVE  [JC!JCNext]_jobOf
<1> USE DEF At, ReturnToPrompt, table, procs
<1>0. /\ jobs \in [Slots -> Job] /\ JobsInv /\ FgInv /\ Locals /\ nextjid \in Nat
      /\ proc \in [Pids -> ProcStates]
  BY DEF Inv, TypeInv, TypeOK
<1>1. ASSUME UNCHANGED <<jobs, proc>>, pc # "addjob", pc' # "addjob" PROVE jobOf' = jobOf
  BY <1>1, MapsToStutter
<1>2. ASSUME NEW k \in {"FG", "BG"}, EvalRun(k) \/ BgFgLookup(k) PROVE jobOf' = jobOf
  BY <1>1, <1>2 DEF EvalRun, BgFgLookup
<1>3. CASE Fork
  <2>1. PICK p \in Unused : proc' = [proc EXCEPT ![p] = "forked"] /\ cur' = p
    BY <1>3 DEF Fork
  <2>2. p \in Pids /\ proc[p] = "none" /\ jobs' = jobs /\ pc' = "addjob" /\ pc = "fork"
    BY <1>3 DEF Fork, Unused
  <2>3. \A q \in Pids : (proc'[q] = "none" \/ (pc' = "addjob" /\ cur' = q))
                           <=> (proc[q] = "none" \/ (pc = "addjob" /\ cur = q))
    BY <1>0, <2>1, <2>2
  <2> QED BY <2>2, <2>3, MapsToStutter
<1>4. CASE AddJob
  <2>1. /\ cur \in Pids /\ kind \in {"FG", "BG"} /\ kind \in States
        /\ pc = "addjob" /\ pc' = "unblock" /\ UNCHANGED proc
    BY <1>0, <1>4 DEF AddJob, Locals, States
  <2>2. jobOf[cur] = "none" /\ proc[cur] # "none" /\ \A n \in Slots : jobs[n].pid # cur
    BY <1>0, <2>1 DEF Mapping, JobsInv
  <2>3. CASE jobs' = jobs
    <3>1. jobOf'[cur] = "done"
      BY <2>1, <2>2, <2>3 DEF Mapping
    <3>2. \A q \in Pids \ {cur} : jobOf'[q] = jobOf[q]
      <4> SUFFICES ASSUME NEW q \in Pids \ {cur} PROVE jobOf'[q] = jobOf[q]
        OBVIOUS
      <4>1. CASE \E n \in Slots : jobs[n].pid = q
        BY <2>3, <4>1 DEF Mapping
      <4>2. CASE \A n \in Slots : jobs[n].pid # q
        BY <2>1, <2>3, <4>2 DEF Mapping
      <4> QED BY <4>1, <4>2
    <3>3. jobOf' = [jobOf EXCEPT ![cur] = "done"]
      BY <2>1, <3>1, <3>2, MapsToChange
    <3>4. JC!Refuse(cur)
      BY <2>2, <3>3 DEF JC!Refuse, JC!Become
    <3> QED BY <2>1, <3>4 DEF JC!JCNext
  <2>4. ASSUME NEW i \in Slots, jobs[i].pid = NoPid,
               jobs' = [jobs EXCEPT ![i] = [pid |-> cur, jid |-> nextjid, state |-> kind]]
        PROVE  [JC!JCNext]_jobOf
    <3>1. jobs'[i].pid = cur /\ jobs'[i].state = kind
      BY <1>0, <2>4
    <3>2. \A n \in Slots \ {i} : jobs'[n] = jobs[n]
      BY <1>0, <2>4
    <3>3. jobOf'[cur] = kind
      BY <2>1, <3>1 DEF Mapping
    <3>4. ASSUME NEW q \in Pids \ {cur} PROVE jobOf'[q] = jobOf[q]
      <4>1. CASE \E n \in Slots : jobs[n].pid = q
        <5>1. PICK n \in Slots : jobs[n].pid = q
          BY <4>1
        <5>2. n # i
          BY <2>4, <5>1, PidsAssumption DEF NoPid
        <5> QED BY <3>2, <5>1, <5>2 DEF Mapping
      <4>2. CASE \A n \in Slots : jobs[n].pid # q
        <5>1. \A n \in Slots : jobs'[n].pid # q
          BY <3>1, <3>2, <4>2
        <5> QED BY <2>1, <4>2, <5>1 DEF Mapping
      <4> QED BY <4>1, <4>2
    <3>5. jobOf' = [jobOf EXCEPT ![cur] = kind]
      BY <2>1, <3>3, <3>4, MapsToChange
    <3>6. JC!ForegroundFree
      BY <1>0, <2>1, NobodyInForeground DEF FgInv
    <3>7. JC!StartFG(cur) \/ JC!StartBG(cur)
      BY <2>1, <2>2, <3>5, <3>6 DEF JC!StartFG, JC!StartBG, JC!Become
    <3> QED BY <2>1, <3>7 DEF JC!JCNext
  <2> QED BY <1>0, <1>4, <2>1, <2>3, <2>4, AddjobEffect DEF AddJob
<1>5. CASE BgFgCont
  <2>1. \A p \in Pids : proc'[p] = "none" <=> proc[p] = "none"
    BY <1>0, <1>5 DEF BgFgCont, Continue
  <2>2. jobs' = jobs /\ pc = "cont" /\ pc' = "set"
    BY <1>5 DEF BgFgCont
  <2> QED BY <2>1, <2>2, MapsToStutter
<1>6. CASE BgFgSet
  <2>1. slot \in Slots /\ kind \in {"FG", "BG"} /\ kind \in States /\ FgSlots(jobs) = {}
    BY <1>0, <1>6 DEF BgFgSet, Locals, States, FgInv
  <2>2. \A n \in Slots : setstate(jobs, slot, kind)[n] =
          IF n = slot THEN [pid |-> jobs[slot].pid, jid |-> jobs[slot].jid, state |-> kind]
                      ELSE jobs[n]
    BY <1>0, <2>1, SetstateEffect
  <2>3. UNCHANGED proc /\ pc # "addjob" /\ pc' # "addjob" /\ jobs' = setstate(jobs, slot, kind)
    BY <1>6 DEF BgFgSet
  <2>4. \A n \in Slots : jobs'[n].pid = jobs[n].pid
                         /\ jobs'[n].state = IF n = slot THEN kind ELSE jobs[n].state
    BY <2>2, <2>3
  <2>5. IF jobs[slot].pid \in Pids
        THEN jobOf[jobs[slot].pid] = jobs[slot].state
             /\ jobOf' = [jobOf EXCEPT ![jobs[slot].pid] = kind]
        ELSE jobOf' = jobOf
    BY <2>1, <2>3, <2>4, SetMaps
  <2>6. CASE jobs[slot].pid \in Pids
    <3>1. jobs[slot].state \in {"ST", "BG"}
      BY <1>0, <2>1, <2>6 DEF JobsInv, FgSlots
    <3>2. JC!ForegroundFree
      BY <2>1, NobodyInForeground
    <3>3. CASE kind = "FG"
      <4>1. JC!FgCommand(jobs[slot].pid)
        BY <2>5, <2>6, <3>1, <3>2, <3>3 DEF JC!FgCommand, JC!Become
      <4> QED BY <2>6, <4>1 DEF JC!JCNext
    <3>4. CASE kind = "BG" /\ jobs[slot].state = "ST"
      <4>1. JC!BgCommand(jobs[slot].pid)
        BY <2>5, <2>6, <3>4 DEF JC!BgCommand, JC!Become
      <4> QED BY <2>6, <4>1 DEF JC!JCNext
    <3>5. CASE kind = "BG" /\ jobs[slot].state = "BG"
      <4>1. jobOf' = jobOf
        BY <2>5, <2>6, <3>5 DEF jobOf
      <4> QED BY <4>1
    <3> QED BY <2>1, <3>1, <3>3, <3>4, <3>5
  <2> QED BY <2>5, <2>6
<1>7. ForkFails \/ Unblock \/ WaitfgReturns \/ BlankLine \/ Quit \/ BgFgReread => jobOf' = jobOf
  BY <1>1 DEF ForkFails, Unblock, WaitfgReturns, BlankLine, Quit, BgFgReread
<1> QED BY <1>2, <1>3, <1>4, <1>5, <1>6, <1>7 DEF Main

LEMMA ImplementsHandlers ==
  ASSUME Inv, Mapping, Mapping', Handlers
  PROVE  [JC!JCNext]_jobOf
<1> USE DEF table, main, procs
<1>0. /\ jobs \in [Slots -> Job] /\ JobsInv /\ nextjid \in Nat /\ handler["CHLD"] \in Frame
      /\ proc \in [Pids -> ProcStates]
  BY DEF Inv, TypeInv, TypeOK, Signals
<1>1. CASE ChldDelete \/ MarkKilled
  <2>1. PICK p \in Pids \cup {NoPid} : jobs' = deletejob(jobs, p)
    BY <1>0, <1>1 DEF ChldDelete, MarkKilled, Frame
  <2>2. jobs' = jobs \/ \E n \in Slots : jobs' = [jobs EXCEPT ![n] = clearjob]
    BY <1>0, <2>1, DeletejobEffect
  <2>3. UNCHANGED <<main, proc>> /\ Active("CHLD")
    BY <1>1 DEF ChldDelete, MarkKilled, Step, Active
  <2> QED BY <2>2, <2>3, ClearMaps
<1>2. CASE MarkStopped
  <2>1. PICK i \in Slots :
          /\ jobs[i].pid \in Pids /\ jobs[i].state = "FG"
          /\ \A n \in Slots : jobs'[n] =
               IF n = i THEN [pid |-> jobs[i].pid, jid |-> jobs[i].jid, state |-> "ST"] ELSE jobs[n]
    BY <1>2, MarksForeground
  <2>2. \A n \in Slots : jobs'[n].pid = jobs[n].pid
                         /\ jobs'[n].state = IF n = i THEN "ST" ELSE jobs[n].state
    BY <2>1
  <2>3. UNCHANGED proc /\ pc # "addjob" /\ pc' # "addjob"
    BY <1>0, <1>2 DEF MarkStopped, JobsInv, Step, Active
  <2>4. jobOf[jobs[i].pid] = "FG" /\ jobOf' = [jobOf EXCEPT ![jobs[i].pid] = "ST"]
    BY <2>1, <2>2, <2>3, SetMaps
  <2>5. JC!CtrlZ(jobs[i].pid)
    BY <2>4 DEF JC!CtrlZ, JC!Become
  <2> QED BY <2>1, <2>5 DEF JC!JCNext
<1>3. CASE ChldWait
  <2>1. \A p \in Pids : proc'[p] = "none" <=> proc[p] = "none"
    BY <1>0, <1>3 DEF ChldWait, Zombies
  <2>2. UNCHANGED <<jobs, pc, cur>>
    BY <1>3 DEF ChldWait
  <2> QED BY <2>1, <2>2, MapsToStutter
<1>4. (\E s \in Signals : Catch(s) \/ FindFg(s) \/ KillFg(s)) \/ ChldReturn
        => UNCHANGED <<jobs, pc, cur, proc>>
  BY DEF Catch, FindFg, KillFg, ChldReturn
<1>5. UNCHANGED <<jobs, pc, cur, proc>> => jobOf' = jobOf
  BY MapsToStutter
<1> QED BY <1>1, <1>2, <1>3, <1>4, <1>5 DEF Handlers

LEMMA ImplementsOthers ==
  ASSUME Inv, Mapping, Mapping',
         Sigquit \/ (\E s \in Keys : Key(s)) \/ (\E p \in Pids : Child(p)) \/ UNCHANGED vars
  PROVE  [JC!JCNext]_jobOf
<1> USE DEF table, main, procs
<1>0. proc \in [Pids -> ProcStates] /\ JobsInv /\ Locals
  BY DEF Inv, TypeInv, TypeOK
<1>1. CASE Sigquit
  <2>1. UNCHANGED <<jobs, proc, cur>> /\ pc' = "exited"
    BY <1>1 DEF Sigquit
  <2>2. CASE pc # "addjob"
    BY <2>1, <2>2, MapsToStutter
  <2>3. CASE pc = "addjob"
    <3>1. cur \in Pids /\ proc[cur] # "none" /\ \A n \in Slots : jobs[n].pid # cur
      BY <1>0, <2>3 DEF Locals, JobsInv
    <3>2. jobOf[cur] = "none" /\ jobOf'[cur] = "done"
      BY <2>1, <2>3, <3>1 DEF Mapping
    <3>3. \A q \in Pids \ {cur} : jobOf'[q] = jobOf[q]
      <4> SUFFICES ASSUME NEW q \in Pids \ {cur} PROVE jobOf'[q] = jobOf[q]
        OBVIOUS
      <4>1. CASE \E n \in Slots : jobs[n].pid = q
        BY <2>1, <4>1 DEF Mapping
      <4>2. CASE \A n \in Slots : jobs[n].pid # q
        BY <2>1, <4>2 DEF Mapping
      <4> QED BY <4>1, <4>2
    <3>4. jobOf' = [jobOf EXCEPT ![cur] = "done"]
      BY <3>1, <3>2, <3>3, MapsToChange
    <3>5. JC!Refuse(cur)
      BY <3>2, <3>4 DEF JC!Refuse, JC!Become
    <3> QED BY <3>1, <3>5 DEF JC!JCNext
  <2> QED BY <2>2, <2>3
<1>2. ASSUME NEW p \in Pids, Child(p) PROVE jobOf' = jobOf
  <2>1. UNCHANGED <<jobs, pc, cur>> /\ \A q \in Pids : proc'[q] = "none" <=> proc[q] = "none"
    BY <1>0, <1>2 DEF Child, Exec, Exits, Dies, Stops, Ends
  <2> QED BY <2>1, MapsToStutter
<1>3. (\E s \in Keys : Key(s)) \/ UNCHANGED vars => UNCHANGED <<jobs, pc, cur, proc>>
  BY DEF Key, vars
<1>4. UNCHANGED <<jobs, pc, cur, proc>> => jobOf' = jobOf
  BY MapsToStutter
<1> QED BY <1>1, <1>2, <1>3, <1>4

(* Every behaviour of the shell, its handlers and its children shows each  *)
(* job only the transitions of the table in lines 33-41.                   *)
THEOREM Implementation == Spec => ImplementsJobControl
<1>1. Init => JC!JCInit
  BY DEF Init, JC!JCInit, jobOf, Listed, initjobs, clearjob
<1>2. Inv /\ [Next]_vars => [JC!JCNext]_jobOf
  BY MappingNext, ImplementsMain, ImplementsHandlers, ImplementsOthers DEF Next
<1> QED BY <1>1, <1>2, InvInit, InvNext, PTL DEF Spec, ImplementsJobControl, JC!JCSpec
-----------------------------------------------------------------------------
(* Job ids.  A cleared slot has job id 0, so addjob never takes away the   *)
(* largest id.                                                             *)
FreeSlotsClear == \A i \in Slots : jobs[i].pid = NoPid => jobs[i].jid = 0
JidInv == FreeSlotsClear /\ NextJidFresh

LEMMA FreshAfterAdd ==
  ASSUME TypeInv, JidInv, NEW p \in Pids, NEW k \in States,
         jobs' = addjob(jobs, p, k, nextjid), nextjid' = jidAfterAdd(jobs, nextjid)
  PROVE  JidInv'
<1>0. /\ jobs \in [Slots -> Job] /\ nextjid \in Nat
      /\ jobs' \in [Slots -> Job] /\ nextjid' \in Nat
  BY AddjobEffect DEF TypeInv, TypeOK
<1>1. /\ maxjid(jobs) \in Nat /\ \A i \in Slots : jobs[i].jid <= maxjid(jobs)
      /\ maxjid(jobs') \in Nat /\ \A i \in Slots : jobs'[i].jid <= maxjid(jobs')
  BY <1>0, MaxjidBound
<1>2. \A i \in Slots : jobs[i].jid \in Nat /\ jobs'[i].jid \in Nat
  BY <1>0 DEF Job
<1>3. CASE ~ HasRoom(jobs)
  BY <1>3 DEF JidInv, FreeSlotsClear, NextJidFresh, addjob, jidAfterAdd
<1>4. CASE HasRoom(jobs)
  <2> DEFINE i == First(SlotsWithPid(jobs, NoPid))
  <2>1. i \in Slots /\ jobs[i].pid = NoPid
    <3>1. SlotsWithPid(jobs, NoPid) \in SUBSET Slots
      BY DEF SlotsWithPid
    <3> QED BY <1>4, <3>1, FirstSlot DEF HasRoom, SlotsWithPid
  <2>2. jobs' = [jobs EXCEPT ![i] = [pid |-> p, jid |-> nextjid, state |-> k]]
    BY <1>4 DEF addjob
  <2> HIDE DEF i
  <2>3. /\ jobs'[i].jid = nextjid /\ jobs'[i].pid = p
        /\ \A n \in Slots \ {i} : jobs'[n] = jobs[n]
    BY <1>0, <2>1, <2>2
  <2>4. jobs[i].jid = 0
    BY <2>1 DEF JidInv, FreeSlotsClear
  <2>5. \A n \in Slots : jobs[n].jid <= maxjid(jobs')
    BY <1>0, <1>1, <1>2, <2>3, <2>4
  <2>6. maxjid(jobs) <= maxjid(jobs')
    BY <1>1, <2>5, MaxjidReached, <1>0
  <2>7. maxjid(jobs') = nextjid \/ maxjid(jobs') <= maxjid(jobs)
    <3>1. maxjid(jobs') = 0 \/ \E n \in Slots : maxjid(jobs') = jobs'[n].jid
      BY <1>0, MaxjidReached
    <3> QED BY <1>1, <2>3, <3>1
  <2>8. nextjid' = IF nextjid + 1 > MAXJOBS THEN 1 ELSE nextjid + 1
    BY <1>4 DEF jidAfterAdd
  <2>9. nextjid <= maxjid(jobs')
    BY <1>1, <2>1, <2>3
  <2>10. NextJidFresh'
    BY <1>0, <1>1, <2>6, <2>7, <2>8, <2>9, MaxJobsAssumption DEF JidInv, NextJidFresh
  <2>11. p # NoPid
    BY PidsAssumption DEF NoPid
  <2>12. FreeSlotsClear'
    BY <2>1, <2>3, <2>11 DEF JidInv, FreeSlotsClear
  <2> QED BY <2>10, <2>12 DEF JidInv
<1> QED BY <1>3, <1>4

LEMMA FreshAfterDelete ==
  ASSUME TypeInv, JidInv, NEW p \in Pids \cup {NoPid},
         jobs' = deletejob(jobs, p), nextjid' = jidAfterDelete(jobs, p, nextjid)
  PROVE  JidInv'
<1>0. /\ jobs \in [Slots -> Job] /\ nextjid \in Nat
      /\ jobs' \in [Slots -> Job] /\ nextjid' \in Nat
  BY DeletejobEffect DEF TypeInv, TypeOK
<1>1. CASE getjobpid(jobs, p) = NoSlot
  BY <1>1 DEF JidInv, FreeSlotsClear, NextJidFresh, deletejob, jidAfterDelete
<1>2. CASE getjobpid(jobs, p) # NoSlot
  <2>1. nextjid' = maxjid(jobs') + 1
    BY <1>2 DEF jidAfterDelete
  <2>2. maxjid(jobs') \in Nat
    BY <1>0, MaxjidBound
  <2>3. \E i \in Slots : jobs' = [jobs EXCEPT ![i] = clearjob]
    BY <1>2, <1>0, GetjobpidFinds DEF deletejob
  <2>4. FreeSlotsClear'
    BY <1>0, <2>3 DEF JidInv, FreeSlotsClear, clearjob
  <2> QED BY <2>1, <2>2, <2>4 DEF JidInv, NextJidFresh
<1> QED BY <1>1, <1>2

(* Setting a state changes no pid and no job id. *)
LEMMA FreshAfterSet ==
  ASSUME TypeInv, JidInv, NEW i \in Slots \cup {NoSlot}, NEW k \in States,
         jobs' = setstate(jobs, i, k), nextjid' = nextjid
  PROVE  JidInv'
<1>0. jobs \in [Slots -> Job]
  BY DEF TypeInv, TypeOK
<1>1. CASE i \notin Slots
  BY <1>0, <1>1 DEF JidInv, FreeSlotsClear, NextJidFresh, setstate
<1>2. CASE i \in Slots
  <2>0. jobs' \in [Slots -> Job]
    BY <1>0, <1>2, SetstateEffect
  <2>1. \A n \in Slots : jobs'[n] =
          IF n = i THEN [pid |-> jobs[i].pid, jid |-> jobs[i].jid, state |-> k] ELSE jobs[n]
    BY <1>0, <1>2, SetstateEffect
  <2>2. \A n \in Slots : jobs'[n].pid = jobs[n].pid /\ jobs'[n].jid = jobs[n].jid
    BY <2>1
  <2>3. JidsIn(jobs') = JidsIn(jobs)
    BY <2>2 DEF JidsIn
  <2>4. maxjid(jobs') = maxjid(jobs)
    BY <2>3 DEF maxjid
  <2> QED BY <2>2, <2>4 DEF JidInv, FreeSlotsClear, NextJidFresh
<1> QED BY <1>1, <1>2

(* The next job id is above every one in use until an id has reached       *)
(* MAXJOBS (lines 667 and 690).                                            *)
THEOREM FreshJobIds == Spec => []NextJidFresh
<1>1. Init => JidInv
  <2> SUFFICES ASSUME Init PROVE JidInv
    OBVIOUS
  <2>1. jobs \in [Slots -> Job] /\ nextjid = 1 /\ \A i \in Slots : jobs[i].jid = 0
    BY TypeInit DEF Init, initjobs, clearjob, TypeInv, TypeOK
  <2>2. maxjid(jobs) = 0
    BY <2>1, MaxjidReached
  <2> QED BY <2>1, <2>2 DEF JidInv, FreeSlotsClear, NextJidFresh
<1>2. TypeInv /\ JidInv /\ [Next]_vars => JidInv'
  <2> SUFFICES ASSUME TypeInv, JidInv, [Next]_vars PROVE JidInv'
    OBVIOUS
  <2>0. handler \in [Signals -> Frame] /\ "CHLD" \in Signals
    BY DEF TypeInv, TypeOK, Signals
  <2>1. CASE UNCHANGED table
    BY <2>1 DEF table, JidInv, FreeSlotsClear, NextJidFresh
  <2>2. CASE AddJob
    <3>1. cur \in Pids /\ kind \in States
      BY <2>2 DEF AddJob, At, TypeInv, Locals, States
    <3> QED BY <2>2, <3>1, FreshAfterAdd DEF AddJob
  <2>3. CASE ChldDelete \/ MarkKilled
    <3>1. handler["CHLD"].pid \in Pids \cup {NoPid} /\ handler["CHLD"].fg \in Pids \cup {NoPid}
      BY <2>0 DEF Frame
    <3> QED BY <2>3, <3>1, FreshAfterDelete DEF ChldDelete, MarkKilled
  <2>4. CASE MarkStopped
    <3>1. handler["CHLD"].fg \in Pids \cup {NoPid}
      BY <2>0 DEF Frame
    <3>2. getjobpid(jobs, handler["CHLD"].fg) \in Slots \cup {NoSlot}
      BY <3>1, GetjobpidFinds DEF TypeInv, TypeOK
    <3> QED BY <2>4, <3>2, FreshAfterSet DEF MarkStopped, States
  <2>5. CASE BgFgSet
    <3>1. slot \in Slots /\ kind \in States
      BY <2>5 DEF BgFgSet, At, TypeInv, Locals, States
    <3> QED BY <2>5, <3>1, FreshAfterSet DEF BgFgSet
  <2>6. Main => AddJob \/ BgFgSet \/ UNCHANGED table
    BY DEF Main, EvalRun, Fork, ForkFails, Unblock, WaitfgReturns, BlankLine, Quit,
           BgFgLookup, BgFgCont, BgFgReread
  <2>7. Handlers => ChldDelete \/ MarkStopped \/ MarkKilled \/ UNCHANGED table
    BY DEF Handlers, Catch, FindFg, KillFg, ChldWait, ChldReturn
  <2>8. Sigquit \/ (\E s \in Keys : Key(s)) \/ (\E p \in Pids : Child(p)) \/ UNCHANGED vars
          => UNCHANGED table
    BY DEF Sigquit, Key, Child, Exec, Exits, Dies, Stops, Ends, vars
  <2> QED BY <2>1, <2>2, <2>3, <2>4, <2>5, <2>6, <2>7, <2>8 DEF Next
<1>3. JidInv => NextJidFresh
  BY DEF JidInv
<1> QED BY <1>1, <1>2, <1>3, TypeInit, TypeNext, PTL DEF Spec
-----------------------------------------------------------------------------
(* Without children that die or stop on their own, and without bg and fg,  *)
(* the list agrees with the processes: only the job in the foreground is   *)
(* ever killed or stopped, so what sigchld_handler does to the foreground  *)
(* job it does to the child that was reported.                             *)
HasState(p, k) == \E i \in Slots : jobs[i].pid = p /\ jobs[i].state = k
\* sigchld_handler is about to change the list for a child that was killed
\* or stopped.
Reporting(p) == handler["CHLD"].at \in {"fgpid", "kill", "mark"} /\ handler["CHLD"].pid = p
Reported(p, how) == Reporting(p) /\ handler["CHLD"].how = how

ProcAgrees(p) ==
  /\ HasState(p, "ST") => proc[p] = "stopped" /\ p \notin unseen
  /\ proc[p] = "stopped" => \/ HasState(p, "ST")
                            \/ HasState(p, "FG") /\ (p \in unseen \/ Reported(p, "stopped"))
  /\ proc[p] = "killed" => HasState(p, "FG")
  /\ proc[p] = "gone" /\ p \in Listed(jobs) =>
       \/ handler["CHLD"].at = "delete" /\ handler["CHLD"].pid = p
       \/ Reported(p, "killed")
  /\ p \in unseen => proc[p] = "stopped"
SigAgrees(p) ==
  /\ proc[p] = "running" /\ psig[p] # {} => HasState(p, "FG")
  /\ proc[p] \in {"none", "forked"} => psig[p] = {}
ReportAgrees ==
  /\ handler["CHLD"].at = "delete" =>
       handler["CHLD"].pid \in Pids /\ proc[handler["CHLD"].pid] = "gone"
  /\ handler["CHLD"].at \in {"fgpid", "kill", "mark"} =>
       LET p == handler["CHLD"].pid
       IN /\ p \in Pids /\ p \notin unseen /\ HasState(p, "FG")
          /\ \/ handler["CHLD"].how = "killed" /\ proc[p] = "gone"
             \/ handler["CHLD"].how = "stopped" /\ proc[p] = "stopped"
  /\ handler["CHLD"].at \in {"kill", "mark"} => handler["CHLD"].fg = handler["CHLD"].pid
KeyAgrees(s) ==
  handler[s].at = "kill" =>
    LET f == handler[s].fg
    IN f \in Pids /\ (proc[f] \in {"forked", "running"} => HasState(f, "FG"))
Gentle == Faults \cap {"die", "stop"} = {} /\ Commands \cap {"bg", "fg"} = {}
AgreeInv ==
  /\ \A i \in Slots : jobs[i].pid = NoPid => jobs[i].state = "UNDEF"
  /\ pc \notin {"cont", "set", "reread"}
  /\ \A p \in Pids : ProcAgrees(p) /\ SigAgrees(p)
  /\ ReportAgrees
  /\ \A s \in {"INT", "TSTP"} : KeyAgrees(s)

LEMMA AgreeInit == Init => AgreeInv
BY PidsAssumption
   DEF Init, AgreeInv, ProcAgrees, SigAgrees, ReportAgrees, KeyAgrees, HasState, Reported,
       Reporting, Listed, initjobs, clearjob, NoPid, Idle, Signals

LEMMA AgreeTypes ==
  ASSUME Inv
  PROVE  /\ jobs \in [Slots -> Job] /\ proc \in [Pids -> ProcStates] /\ nextjid \in Nat
         /\ handler \in [Signals -> Frame] /\ "CHLD" \in Signals /\ unseen \subseteq Pids
         /\ psig \in [Pids -> SUBSET {"INT", "TSTP"}] /\ NoPid \notin Pids
         /\ JobsInv /\ Locals
BY PidsAssumption DEF Inv, TypeInv, TypeOK, Signals, NoPid

(* A pid has one slot, so one state. *)
LEMMA OneState ==
  ASSUME Inv, NEW p \in Pids, NEW k, NEW n, HasState(p, k), HasState(p, n)
  PROVE  k = n
BY DEF Inv, JobsInv, HasState

(* Steps that leave the list and the processes alone and start, end or     *)
(* interrupt handlers that are not about to act.                           *)
LEMMA AgreeQuietly ==
  ASSUME AgreeInv, UNCHANGED <<jobs, proc, unseen, psig>>,
         pc' \notin {"cont", "set", "reread"},
         \/ handler'["CHLD"] = handler["CHLD"]
         \/ /\ handler["CHLD"].at \in {"idle", "waitpid"}
            /\ handler'["CHLD"].at \in {"idle", "waitpid"},
         \A s \in {"INT", "TSTP"} : handler'[s] = handler[s] \/ handler'[s].at # "kill"
  PROVE  AgreeInv'
<1>1. \A p \in Pids : (HasState(p, "ST"))' = HasState(p, "ST") /\ (HasState(p, "FG"))' = HasState(p, "FG")
  BY DEF HasState
<1>2. \A p \in Pids : \A how : (Reported(p, how))' = Reported(p, how)
  BY DEF Reported, Reporting
<1>3. \A p \in Pids : ProcAgrees(p)' /\ SigAgrees(p)'
  BY <1>1, <1>2 DEF AgreeInv, ProcAgrees, SigAgrees, Listed
<1>4. ReportAgrees'
  BY DEF AgreeInv, ReportAgrees, HasState
<1>5. \A s \in {"INT", "TSTP"} : KeyAgrees(s)'
  BY DEF AgreeInv, KeyAgrees, HasState
<1> QED BY <1>3, <1>4, <1>5 DEF AgreeInv

LEMMA AgreeMain ==
  ASSUME Inv, AgreeInv, Gentle, Main
  PROVE  AgreeInv'
<1> USE DEF table, main, frames, mask, procs, At, ReturnToPrompt
<1>0. /\ jobs \in [Slots -> Job] /\ proc \in [Pids -> ProcStates] /\ "CHLD" \in Signals
      /\ nextjid \in Nat /\ NoPid \notin Pids /\ JobsInv /\ Locals
  BY AgreeTypes
<1>1. running = "main" /\ UNCHANGED <<handler, unseen, psig>> /\ pc' \notin {"cont", "set", "reread"}
  BY DEF Main, EvalRun, Fork, ForkFails, AddJob, Unblock, WaitfgReturns, BlankLine, Quit,
         BgFgLookup, BgFgCont, BgFgSet, BgFgReread, Gentle, AgreeInv
<1>2. \A s \in Signals : handler[s].at = "idle"
  BY <1>1 DEF Inv, Chain, Active
<1>3. ReportAgrees' /\ \A s \in {"INT", "TSTP"} : KeyAgrees(s)'
  BY <1>0, <1>1, <1>2 DEF ReportAgrees, KeyAgrees, Signals
<1>4. CASE Fork
  <2>1. PICK p \in Unused : proc' = [proc EXCEPT ![p] = "forked"] /\ UNCHANGED jobs
    BY <1>4 DEF Fork
  <2>2. p \in Pids /\ proc[p] = "none" /\ proc'[p] = "forked" /\ \A q \in Pids \ {p} : proc'[q] = proc[q]
    BY <1>0, <2>1 DEF Unused
  <2>3. psig[p] = {} /\ p \notin unseen /\ ~ HasState(p, "ST")
    BY <2>2 DEF AgreeInv, SigAgrees, ProcAgrees
  <2>4. \A q \in Pids : ProcAgrees(q)' /\ SigAgrees(q)'
    BY <1>1, <2>1, <2>2, <2>3 DEF AgreeInv, ProcAgrees, SigAgrees, HasState, Listed, Reported, Reporting
  <2> QED BY <1>1, <1>3, <2>1, <2>4 DEF AgreeInv
<1>5. CASE AddJob
  <2>1. cur \in Pids /\ kind \in {"FG", "BG"} /\ kind \in States /\ UNCHANGED <<proc, cur>>
    BY <1>0, <1>5 DEF AddJob, Locals, States
  <2>2. \/ jobs' = jobs
        \/ \E i \in Slots : /\ jobs[i].pid = NoPid
                            /\ jobs' = [jobs EXCEPT ![i] = [pid |-> cur, jid |-> nextjid, state |-> kind]]
    BY <1>0, <1>5, <2>1, AddjobEffect DEF AddJob
  <2>3. CASE jobs' = jobs
    BY <1>1, <2>1, <2>3, AgreeQuietly
  <2>4. ASSUME NEW i \in Slots, jobs[i].pid = NoPid,
               jobs' = [jobs EXCEPT ![i] = [pid |-> cur, jid |-> nextjid, state |-> kind]]
        PROVE  AgreeInv'
    <3>1. /\ jobs'[i].pid = cur /\ jobs'[i].state = kind
          /\ \A n \in Slots \ {i} : jobs'[n] = jobs[n]
      BY <1>0, <2>4
    <3>2. proc[cur] \notin {"none", "gone"} /\ \A n \in Slots : jobs[n].pid # cur
      BY <1>0, <1>5 DEF AddJob, JobsInv
    <3>3. ~ HasState(cur, "ST") /\ ~ HasState(cur, "FG")
      BY <3>2 DEF HasState
    <3>4. proc[cur] \notin {"stopped", "killed"} /\ cur \notin unseen
          /\ (proc[cur] = "running" => psig[cur] = {}) /\ (proc[cur] = "forked" => psig[cur] = {})
      BY <2>1, <3>3 DEF AgreeInv, ProcAgrees, SigAgrees
    <3>5. \A p \in Pids \ {cur} : /\ (HasState(p, "ST"))' = HasState(p, "ST")
                                  /\ (HasState(p, "FG"))' = HasState(p, "FG")
                                  /\ p \in Listed(jobs') <=> p \in Listed(jobs)
      <4>1. \A p \in Pids \ {cur}, n \in Slots : jobs'[n].pid = p <=> jobs[n].pid = p /\ n # i
        BY <1>0, <2>4, <3>1
      <4>2. \A n \in Slots \ {i} : jobs'[n].state = jobs[n].state /\ jobs'[n].pid = jobs[n].pid
        BY <3>1
      <4> QED BY <1>0, <2>4, <4>1, <4>2 DEF HasState, Listed
    <3>6. ~ (HasState(cur, "ST"))'
      BY <2>1, <3>1, <3>2 DEF HasState
    <3>7. ProcAgrees(cur)' /\ SigAgrees(cur)'
      BY <1>1, <2>1, <3>2, <3>4, <3>6 DEF ProcAgrees, SigAgrees
    <3>8. \A p \in Pids \ {cur} : ProcAgrees(p)' /\ SigAgrees(p)'
      BY <1>1, <2>1, <3>5 DEF AgreeInv, ProcAgrees, SigAgrees, Reported, Reporting
    <3>9. \A n \in Slots : jobs'[n].pid = NoPid => jobs'[n].state = "UNDEF"
      BY <1>0, <2>1, <3>1 DEF AgreeInv
    <3> QED BY <1>1, <1>3, <2>1, <3>7, <3>8, <3>9 DEF AgreeInv
  <2> QED BY <2>2, <2>3, <2>4
<1>6. Main => Fork \/ AddJob \/ UNCHANGED <<jobs, proc>>
  BY DEF Main, EvalRun, ForkFails, Unblock, WaitfgReturns, BlankLine, Quit,
         BgFgLookup, BgFgCont, BgFgSet, BgFgReread, Gentle, AgreeInv
<1> QED BY <1>1, <1>4, <1>5, <1>6, AgreeQuietly

(* deletejob of a child that has been reaped. *)
LEMMA AgreeCleared ==
  ASSUME Inv, AgreeInv, UNCHANGED <<main, proc, unseen, psig>>, NextChild,
         NEW p \in Pids, p = handler["CHLD"].pid, proc[p] = "gone",
         handler["CHLD"].at \in {"delete", "mark"}, jobs' = deletejob(jobs, p)
  PROVE  AgreeInv'
<1>0. /\ jobs \in [Slots -> Job] /\ NoPid \notin Pids /\ JobsInv /\ nextjid \in Nat
      /\ handler \in [Signals -> Frame] /\ "CHLD" \in Signals
  BY AgreeTypes
<1>1. /\ handler'["CHLD"].at = "waitpid"
      /\ \A s \in {"INT", "TSTP"} : handler'[s] = handler[s]
  BY <1>0 DEF NextChild, Idle
<1>2. \/ jobs' = jobs /\ \A i \in Slots : jobs[i].pid # p
      \/ \E i \in Slots : jobs[i].pid = p /\ jobs' = [jobs EXCEPT ![i] = clearjob]
  <2>1. CASE getjobpid(jobs, p) = NoSlot
    BY <1>0, <2>1, GetjobpidFinds DEF deletejob
  <2>2. CASE getjobpid(jobs, p) # NoSlot
    BY <1>0, <2>2, GetjobpidFinds DEF deletejob
  <2> QED BY <2>1, <2>2
<1>3. \A n \in Slots : /\ jobs[n].pid = p => jobs'[n] = clearjob
                       /\ jobs[n].pid # p => jobs'[n] = jobs[n]
  BY <1>0, <1>2 DEF JobsInv
<1>4. clearjob.pid = NoPid /\ clearjob.state = "UNDEF"
  BY DEF clearjob
<1>5. \A q \in Pids \ {p} : /\ (HasState(q, "ST"))' = HasState(q, "ST")
                            /\ (HasState(q, "FG"))' = HasState(q, "FG")
                            /\ q \in Listed(jobs') <=> q \in Listed(jobs)
  BY <1>0, <1>3, <1>4 DEF HasState, Listed
<1>6. p \notin Listed(jobs') /\ ~ (HasState(p, "ST"))'
  BY <1>0, <1>3, <1>4 DEF HasState, Listed
<1>7. p \notin unseen
  BY DEF AgreeInv, ProcAgrees
<1>8. ProcAgrees(p)' /\ SigAgrees(p)'
  BY <1>6, <1>7 DEF ProcAgrees, SigAgrees
<1>9. ASSUME NEW q \in Pids \ {p} PROVE ProcAgrees(q)' /\ SigAgrees(q)'
  <2>1. \A how : ~ Reported(q, how)
    BY DEF Reported, Reporting
  <2> QED BY <1>5, <2>1 DEF AgreeInv, ProcAgrees, SigAgrees
<1>10. ReportAgrees'
  BY <1>1 DEF ReportAgrees
<1>11. \A s \in {"INT", "TSTP"} : KeyAgrees(s)'
  <2> SUFFICES ASSUME NEW s \in {"INT", "TSTP"}, handler[s].at = "kill"
               PROVE  KeyAgrees(s)'
    BY <1>1 DEF KeyAgrees
  <2>1. KeyAgrees(s) /\ handler'[s] = handler[s]
    BY <1>1 DEF AgreeInv
  <2>2. CASE handler[s].fg = p
    BY <2>1, <2>2 DEF KeyAgrees
  <2>3. CASE handler[s].fg # p
    BY <1>5, <2>1, <2>3 DEF KeyAgrees
  <2> QED BY <2>2, <2>3
<1>12. \A n \in Slots : jobs'[n].pid = NoPid => jobs'[n].state = "UNDEF"
  BY <1>3, <1>4 DEF AgreeInv
<1> QED BY <1>8, <1>9, <1>10, <1>11, <1>12 DEF AgreeInv, main

(* waitpid reports a child: if it was killed or stopped, its job is the    *)
(* one in the foreground.                                                  *)
LEMMA AgreeWait ==
  ASSUME Inv, AgreeInv, ChldWait
  PROVE  AgreeInv'
<1> USE DEF table, main, mask
<1>0. /\ proc \in [Pids -> ProcStates] /\ handler \in [Signals -> Frame] /\ "CHLD" \in Signals
      /\ unseen \subseteq Pids
  BY AgreeTypes
<1>1. PICK p \in Waitable :
        /\ handler' = [handler EXCEPT !["CHLD"] =
             [@ EXCEPT !.at = IF proc[p] = "exited" THEN "delete" ELSE "fgpid",
                       !.how = ReportedAs(p), !.pid = p]]
        /\ proc' = IF p \in Zombies THEN [proc EXCEPT ![p] = "gone"] ELSE proc
        /\ unseen' = unseen \ {p}
  BY DEF ChldWait
<1>2. p \in Pids /\ UNCHANGED <<jobs, psig, pc>> /\ handler["CHLD"].at = "waitpid"
  BY <1>0 DEF Waitable, Zombies, ChldWait, Step
<1>3. /\ \A s \in {"INT", "TSTP"} : handler'[s] = handler[s]
      /\ handler'["CHLD"].at = IF proc[p] = "exited" THEN "delete" ELSE "fgpid"
      /\ handler'["CHLD"].how = ReportedAs(p) /\ handler'["CHLD"].pid = p
  BY <1>0, <1>1 DEF Frame
<1>4. \A q \in Pids \ {p} : proc'[q] = proc[q] /\ (q \in unseen' <=> q \in unseen)
  BY <1>0, <1>1
<1>5. \A q \in Pids : \A k : (HasState(q, k))' = HasState(q, k)
  BY <1>2 DEF HasState
<1>6. \A q \in Pids : \A how : ~ Reported(q, how)
  BY <1>2 DEF Reported, Reporting
<1>7. ASSUME NEW q \in Pids \ {p} PROVE ProcAgrees(q)' /\ SigAgrees(q)'
  BY <1>2, <1>4, <1>5, <1>6, <1>7 DEF AgreeInv, ProcAgrees, SigAgrees
<1>8. p \notin unseen'
  BY <1>1
<1>9. CASE proc[p] = "exited"
  <2>1. proc'[p] = "gone" /\ ~ HasState(p, "ST")
    BY <1>0, <1>1, <1>2, <1>9 DEF Zombies, AgreeInv, ProcAgrees
  <2>2. ProcAgrees(p)' /\ SigAgrees(p)'
    BY <1>2, <1>3, <1>5, <1>8, <1>9, <2>1 DEF ProcAgrees, SigAgrees
  <2>3. ReportAgrees'
    BY <1>2, <1>3, <1>9, <2>1 DEF ReportAgrees
  <2>4. \A s \in {"INT", "TSTP"} : KeyAgrees(s)'
    BY <1>2, <1>3, <1>4, <1>5, <2>1 DEF AgreeInv, KeyAgrees
  <2> QED BY <1>2, <1>7, <2>2, <2>3, <2>4 DEF AgreeInv
<1>10. CASE proc[p] = "killed"
  <2>1. proc'[p] = "gone" /\ ~ HasState(p, "ST") /\ HasState(p, "FG")
    BY <1>0, <1>1, <1>2, <1>10 DEF Zombies, AgreeInv, ProcAgrees
  <2>2. ReportedAs(p) = "killed"
    BY <1>10 DEF ReportedAs
  <2>3. ProcAgrees(p)' /\ SigAgrees(p)'
    BY <1>2, <1>3, <1>5, <1>8, <1>10, <2>1, <2>2 DEF ProcAgrees, SigAgrees, Reported, Reporting
  <2>4. ReportAgrees'
    BY <1>2, <1>3, <1>5, <1>8, <1>10, <2>1, <2>2 DEF ReportAgrees
  <2>5. \A s \in {"INT", "TSTP"} : KeyAgrees(s)'
    BY <1>2, <1>3, <1>4, <1>5, <2>1 DEF AgreeInv, KeyAgrees
  <2> QED BY <1>2, <1>7, <2>3, <2>4, <2>5 DEF AgreeInv
<1>11. CASE proc[p] \notin {"exited", "killed"}
  <2>1. p \in unseen /\ proc' = proc
    BY <1>1, <1>11 DEF Waitable, Zombies
  <2>2. proc[p] = "stopped" /\ HasState(p, "FG") /\ ~ HasState(p, "ST")
    BY <1>2, <2>1, <1>6 DEF AgreeInv, ProcAgrees
  <2>3. ReportedAs(p) = "stopped"
    BY <1>11 DEF ReportedAs
  <2>4. ProcAgrees(p)' /\ SigAgrees(p)'
    BY <1>2, <1>3, <1>5, <1>8, <1>11, <2>1, <2>2, <2>3 DEF ProcAgrees, SigAgrees, Reported, Reporting
  <2>5. ReportAgrees'
    BY <1>2, <1>3, <1>5, <1>8, <1>11, <2>1, <2>2, <2>3 DEF ReportAgrees
  <2>6. \A s \in {"INT", "TSTP"} : KeyAgrees(s)'
    BY <1>2, <1>3, <1>5, <2>1 DEF AgreeInv, KeyAgrees
  <2> QED BY <1>2, <1>7, <2>4, <2>5, <2>6 DEF AgreeInv
<1> QED BY <1>9, <1>10, <1>11

(* The only job in the foreground is the one fgpid finds. *)
LEMMA FgpidIs ==
  ASSUME Inv, NEW p \in Pids, HasState(p, "FG")
  PROVE  fgpid(jobs) = p
<1>1. PICK i \in Slots : jobs[i].pid = p /\ i \in FgSlots(jobs)
  BY DEF HasState, FgSlots
<1>2. jobs \in [Slots -> Job] /\ OneFG
  BY DEF Inv, TypeInv, TypeOK, FgInv
<1> QED BY <1>1, <1>2, FgpidFindsFg DEF OneFG

LEMMA AgreeFindFg ==
  ASSUME Inv, AgreeInv, NEW s \in Signals, FindFg(s)
  PROVE  AgreeInv'
<1> USE DEF table, main, mask, procs
<1>0. jobs \in [Slots -> Job] /\ handler \in [Signals -> Frame] /\ NoPid \notin Pids
      /\ "CHLD" \in Signals
  BY AgreeTypes
<1>1. /\ UNCHANGED <<jobs, proc, unseen, psig, pc>> /\ handler[s].at = "fgpid"
      /\ handler[s] \in Frame
  BY <1>0 DEF FindFg, Step
<1>2. CASE s = "CHLD"
  <2> DEFINE p == handler["CHLD"].pid
  <2>1. p \in Pids /\ HasState(p, "FG") /\ ReportAgrees
    BY <1>1, <1>2 DEF AgreeInv, ReportAgrees
  <2>2. fgpid(jobs) = p
    BY <2>1, FgpidIs
  <2>3. handler' = [handler EXCEPT !["CHLD"] = [@ EXCEPT !.at = "kill", !.fg = p]]
    BY <1>0, <1>2, <2>1, <2>2 DEF FindFg
  <2>4. /\ handler'["CHLD"].at = "kill" /\ handler'["CHLD"].fg = p
        /\ handler'["CHLD"].pid = p /\ handler'["CHLD"].how = handler["CHLD"].how
        /\ \A t \in {"INT", "TSTP"} : handler'[t] = handler[t]
    BY <1>0, <1>1, <1>2, <2>3 DEF Frame
  <2>5. \A q \in Pids : \A k : (HasState(q, k))' = HasState(q, k)
    BY <1>1 DEF HasState
  <2>6. \A q \in Pids : \A how : (Reported(q, how))' = Reported(q, how)
    BY <1>1, <1>2, <2>4 DEF Reported, Reporting
  <2>7. \A q \in Pids : ProcAgrees(q)' /\ SigAgrees(q)'
    BY <1>1, <1>2, <2>4, <2>5, <2>6 DEF AgreeInv, ProcAgrees, SigAgrees
  <2>8. ReportAgrees'
    BY <1>1, <1>2, <2>1, <2>4, <2>5 DEF ReportAgrees
  <2>9. \A t \in {"INT", "TSTP"} : KeyAgrees(t)'
    BY <1>1, <2>4, <2>5 DEF AgreeInv, KeyAgrees
  <2> QED BY <1>1, <2>7, <2>8, <2>9 DEF AgreeInv
<1>3. CASE s # "CHLD" /\ fgpid(jobs) = NoPid
  <2>1. handler' = [handler EXCEPT ![s] = Idle]
    BY <1>3 DEF FindFg, Return
  <2>2. handler'["CHLD"] = handler["CHLD"] /\ \A t \in {"INT", "TSTP"} : handler'[t] = handler[t] \/ handler'[t].at # "kill"
    BY <1>0, <1>3, <2>1 DEF Idle, Signals
  <2> QED BY <1>1, <2>2, AgreeQuietly DEF AgreeInv
<1>4. CASE s # "CHLD" /\ fgpid(jobs) # NoPid
  <2> DEFINE f == fgpid(jobs)
  <2>1. f \in Pids /\ HasState(f, "FG")
    <3>1. FgSlots(jobs) # {}
      BY <1>0, <1>4, FgpidFindsFg
    <3>2. \E i \in FgSlots(jobs) : fgpid(jobs) = jobs[i].pid
      BY <1>0, <3>1, FgpidFindsFg
    <3>3. f \in Pids
      BY <1>0, <1>4, FgpidFindsFg
    <3> QED BY <3>2, <3>3 DEF HasState, FgSlots
  <2>2. handler' = [handler EXCEPT ![s] = [@ EXCEPT !.at = "kill", !.fg = f]]
    BY <1>4 DEF FindFg
  <2>3. /\ handler'["CHLD"] = handler["CHLD"] /\ handler'[s].fg = f
        /\ \A t \in {"INT", "TSTP"} : t = s \/ handler'[t] = handler[t]
    BY <1>0, <1>1, <1>4, <2>2 DEF Frame, Signals
  <2> HIDE DEF f
  <2>4. \A q \in Pids : \A k : (HasState(q, k))' = HasState(q, k)
    BY <1>1 DEF HasState
  <2>5. \A q \in Pids : \A how : (Reported(q, how))' = Reported(q, how)
    BY <2>3 DEF Reported, Reporting
  <2>6. \A q \in Pids : ProcAgrees(q)' /\ SigAgrees(q)'
    BY <1>1, <2>3, <2>4, <2>5 DEF AgreeInv, ProcAgrees, SigAgrees
  <2>7. ReportAgrees'
    BY <1>1, <2>3 DEF AgreeInv, ReportAgrees, HasState
  <2>8. \A t \in {"INT", "TSTP"} : KeyAgrees(t)'
    BY <1>1, <2>1, <2>3, <2>4 DEF AgreeInv, KeyAgrees
  <2> QED BY <1>1, <2>6, <2>7, <2>8 DEF AgreeInv
<1> QED BY <1>2, <1>3, <1>4

(* kill: a running child that gets a signal is the foreground job. *)
LEMMA AgreeKill ==
  ASSUME Inv, AgreeInv, NEW s \in Signals, KillFg(s)
  PROVE  AgreeInv'
<1> USE DEF table, main, mask
<1>0. /\ handler \in [Signals -> Frame] /\ "CHLD" \in Signals
      /\ psig \in [Pids -> SUBSET {"INT", "TSTP"}]
  BY AgreeTypes
<1>1. /\ UNCHANGED <<jobs, proc, unseen, pc>> /\ handler[s].at = "kill" /\ handler[s] \in Frame
      /\ psig' = Signalled(handler[s].fg, SignalOf(s))
  BY <1>0 DEF KillFg, Step
<1>2. \A q \in Pids : \A k : (HasState(q, k))' = HasState(q, k)
  BY <1>1 DEF HasState
<1>3. /\ handler[s].fg \in Pids
      /\ proc[handler[s].fg] = "running" => HasState(handler[s].fg, "FG")
  <2>1. CASE s = "CHLD"
    BY <1>1, <2>1 DEF AgreeInv, ReportAgrees
  <2>2. CASE s # "CHLD"
    <3>1. s \in {"INT", "TSTP"}
      BY <2>2 DEF Signals
    <3> QED BY <1>1, <3>1 DEF AgreeInv, KeyAgrees
  <2> QED BY <2>1, <2>2
<1>4. \A q \in Pids : SigAgrees(q)'
  <2> SUFFICES ASSUME NEW q \in Pids PROVE SigAgrees(q)'
    OBVIOUS
  <2>1. SigAgrees(q)
    BY DEF AgreeInv
  <2>2. q # handler[s].fg => psig'[q] = psig[q]
    BY <1>0, <1>1 DEF Signalled
  <2>3. proc[q] \in {"none", "forked"} => psig'[q] = psig[q]
    BY <1>0, <1>1 DEF Signalled
  <2> QED BY <1>1, <1>2, <1>3, <2>1, <2>2, <2>3 DEF SigAgrees
<1>5. /\ handler'["CHLD"] = handler["CHLD"]
         \/ /\ s = "CHLD" /\ handler'["CHLD"].at = "mark"
            /\ handler'["CHLD"].pid = handler["CHLD"].pid
            /\ handler'["CHLD"].fg = handler["CHLD"].fg
            /\ handler'["CHLD"].how = handler["CHLD"].how
      /\ \A t \in {"INT", "TSTP"} : handler'[t] = handler[t] \/ handler'[t].at # "kill"
  <2>1. CASE s = "CHLD"
    <3>1. handler' = [handler EXCEPT !["CHLD"].at = "mark"]
      BY <1>1, <2>1 DEF KillFg, Goto
    <3> QED BY <1>0, <1>1, <2>1, <3>1 DEF Frame
  <2>2. CASE s # "CHLD"
    <3>1. handler' = [handler EXCEPT ![s] = Idle]
      BY <2>2 DEF KillFg, Return
    <3> QED BY <1>0, <2>2, <3>1 DEF Idle, Signals
  <2> QED BY <2>1, <2>2
<1>6. \A q \in Pids : \A how : (Reported(q, how))' = Reported(q, how)
  BY <1>1, <1>5 DEF Reported, Reporting
<1>7. \A q \in Pids : ProcAgrees(q)'
  BY <1>1, <1>2, <1>5, <1>6 DEF AgreeInv, ProcAgrees
<1>8. ReportAgrees'
  BY <1>1, <1>5 DEF AgreeInv, ReportAgrees, HasState
<1>9. \A t \in {"INT", "TSTP"} : KeyAgrees(t)'
  BY <1>1, <1>2, <1>5 DEF AgreeInv, KeyAgrees
<1> QED BY <1>1, <1>4, <1>7, <1>8, <1>9 DEF AgreeInv

LEMMA AgreeMark ==
  ASSUME Inv, AgreeInv, MarkStopped
  PROVE  AgreeInv'
<1> USE DEF main, mask, procs
<1>p. PICK p : p = handler["CHLD"].pid
  OBVIOUS
<1>0. /\ jobs \in [Slots -> Job] /\ handler \in [Signals -> Frame] /\ "CHLD" \in Signals
      /\ JobsInv /\ NoPid \notin Pids
  BY AgreeTypes
<1>1. /\ UNCHANGED <<proc, unseen, psig, pc>> /\ NextChild
      /\ handler["CHLD"].at = "mark" /\ handler["CHLD"].how = "stopped"
  BY DEF MarkStopped, Step
<1>2. /\ p \in Pids /\ p \notin unseen /\ HasState(p, "FG") /\ proc[p] = "stopped"
      /\ handler["CHLD"].fg = p
  BY <1>p, <1>1 DEF AgreeInv, ReportAgrees
<1>3. PICK i \in Slots :
        /\ jobs[i].pid \in Pids /\ getjobpid(jobs, p) = i
        /\ \A n \in Slots : jobs'[n] =
             IF n = i THEN [pid |-> jobs[i].pid, jid |-> jobs[i].jid, state |-> "ST"] ELSE jobs[n]
  BY <1>2, MarksForeground
<1>4. jobs[i].pid = p
  BY <1>0, <1>2, <1>3, GetjobpidFinds DEF NoSlot, HasState
<1>5. /\ handler'["CHLD"].at = "waitpid"
      /\ \A s \in {"INT", "TSTP"} : handler'[s] = handler[s]
  BY <1>0, <1>1 DEF NextChild, Idle
<1>6. /\ \A n \in Slots : jobs'[n].pid = jobs[n].pid
      /\ \A n \in Slots \ {i} : jobs'[n].state = jobs[n].state
      /\ jobs'[i].state = "ST"
  BY <1>3
<1>7. \A q \in Pids \ {p} : \A k : (HasState(q, k))' = HasState(q, k)
  BY <1>4, <1>6 DEF HasState
<1>8. Listed(jobs') = Listed(jobs)
  BY <1>6 DEF Listed
<1>9. (HasState(p, "ST"))'
  BY <1>4, <1>6 DEF HasState
<1>10. ProcAgrees(p)' /\ SigAgrees(p)'
  BY <1>1, <1>2, <1>9 DEF ProcAgrees, SigAgrees
<1>11. ASSUME NEW q \in Pids \ {p} PROVE ProcAgrees(q)' /\ SigAgrees(q)'
  <2>1. \A how : ~ Reported(q, how)
    BY <1>p DEF Reported, Reporting
  <2>2. handler["CHLD"].at # "delete"
    BY <1>1
  <2> QED BY <1>1, <1>7, <1>8, <2>1, <2>2 DEF AgreeInv, ProcAgrees, SigAgrees
<1>12. ReportAgrees'
  BY <1>5 DEF ReportAgrees
<1>13. \A s \in {"INT", "TSTP"} : KeyAgrees(s)'
  <2> SUFFICES ASSUME NEW s \in {"INT", "TSTP"} PROVE KeyAgrees(s)'
    OBVIOUS
  <2>1. KeyAgrees(s) /\ handler'[s] = handler[s]
    BY <1>5 DEF AgreeInv
  <2>2. CASE handler[s].fg = p
    BY <1>1, <1>2, <2>1, <2>2 DEF KeyAgrees
  <2>3. CASE handler[s].fg # p
    BY <1>1, <1>7, <2>1, <2>3 DEF KeyAgrees
  <2> QED BY <2>2, <2>3
<1>14. \A n \in Slots : jobs'[n].pid = NoPid => jobs'[n].state = "UNDEF"
  BY <1>0, <1>2, <1>4, <1>6 DEF AgreeInv
<1> QED BY <1>1, <1>10, <1>11, <1>12, <1>13, <1>14 DEF AgreeInv

(* The children: only one that a key was sent to is killed or stops, and   *)
(* that is the foreground job.                                             *)
LEMMA AgreeChild ==
  ASSUME Inv, AgreeInv, Gentle, NEW p \in Pids, Child(p)
  PROVE  AgreeInv'
<1> USE DEF table, main, mask, frames
<1>0. /\ proc \in [Pids -> ProcStates] /\ unseen \subseteq Pids
      /\ psig \in [Pids -> SUBSET {"INT", "TSTP"}]
  BY AgreeTypes
<1>1. UNCHANGED <<jobs, handler, pc>>
  BY DEF Child, Exec, Exits, Dies, Stops, Ends
<1>2. /\ \A q \in Pids : \A k : (HasState(q, k))' = HasState(q, k)
      /\ \A q \in Pids : \A how : (Reported(q, how))' = Reported(q, how)
  BY <1>1 DEF HasState, Reported, Reporting
<1>3. /\ \A q \in Pids \ {p} : /\ proc'[q] = proc[q] /\ psig'[q] = psig[q]
                               /\ q \in unseen' <=> q \in unseen
  BY <1>0 DEF Child, Exec, Exits, Dies, Stops, Ends
<1>4. proc[p] \in {"forked", "running"} /\ ProcAgrees(p) /\ SigAgrees(p)
  BY DEF Child, Exec, Exits, Dies, Stops, AgreeInv
<1>5. ~ HasState(p, "ST") /\ p \notin unseen /\ \A how : ~ Reported(p, how)
  BY <1>4 DEF ProcAgrees, AgreeInv, ReportAgrees, Reported, Reporting
<1>6. \/ proc'[p] = "running" /\ proc[p] = "forked" /\ psig'[p] = psig[p] /\ unseen' = unseen
      \/ proc'[p] = "exited" /\ unseen' = unseen \ {p}
      \/ proc'[p] = "killed" /\ HasState(p, "FG") /\ unseen' = unseen \ {p}
      \/ proc'[p] = "stopped" /\ HasState(p, "FG") /\ unseen' = unseen \cup {p}
  <2>1. CASE Exec(p)
    BY <1>0, <2>1 DEF Exec, procs
  <2>2. CASE Exits(p)
    BY <1>0, <2>2 DEF Exits, Ends
  <2>3. CASE Dies(p)
    BY <1>0, <1>4, <2>3 DEF Dies, Ends, Gentle, SigAgrees
  <2>4. CASE Stops(p)
    BY <1>0, <1>4, <2>4 DEF Stops, Gentle, SigAgrees
  <2> QED BY <2>1, <2>2, <2>3, <2>4 DEF Child
<1>7. ProcAgrees(p)' /\ SigAgrees(p)'
  BY <1>2, <1>4, <1>5, <1>6 DEF ProcAgrees, SigAgrees
<1>8. \A q \in Pids \ {p} : ProcAgrees(q)' /\ SigAgrees(q)'
  BY <1>1, <1>2, <1>3 DEF AgreeInv, ProcAgrees, SigAgrees
<1>9. ReportAgrees'
  <2>1. handler["CHLD"].at \in {"delete", "fgpid", "kill", "mark"} => handler["CHLD"].pid # p
    BY <1>4 DEF AgreeInv, ReportAgrees
  <2> QED BY <1>1, <1>2, <1>3, <2>1 DEF AgreeInv, ReportAgrees
<1>10. \A s \in {"INT", "TSTP"} : KeyAgrees(s)'
  BY <1>1, <1>2, <1>3, <1>4 DEF AgreeInv, KeyAgrees
<1> QED BY <1>1, <1>7, <1>8, <1>9, <1>10 DEF AgreeInv

LEMMA AgreeNext == Gentle /\ Inv /\ AgreeInv /\ [Next]_vars => AgreeInv'
<1> SUFFICES ASSUME Gentle, Inv, AgreeInv, [Next]_vars PROVE AgreeInv'
  OBVIOUS
<1> USE DEF table, main, frames, mask, procs
<1>0. handler \in [Signals -> Frame] /\ "CHLD" \in Signals
  BY AgreeTypes
<1>1. ASSUME NEW s \in Signals, Catch(s) PROVE AgreeInv'
  <2>1. /\ handler[s].at = "idle" /\ handler'[s].at \in {"waitpid", "fgpid"}
        /\ s = "CHLD" => handler'[s].at = "waitpid"
        /\ \A t \in Signals \ {s} : handler'[t] = handler[t]
        /\ UNCHANGED <<jobs, proc, unseen, psig, pc>>
    BY <1>0, <1>1 DEF Catch, Idle
  <2> QED BY <1>0, <2>1, AgreeQuietly DEF AgreeInv, Signals
<1>2. CASE ChldReturn
  <2>1. /\ handler["CHLD"].at = "waitpid" /\ handler' = [handler EXCEPT !["CHLD"] = Idle]
        /\ UNCHANGED <<jobs, proc, unseen, psig, pc>>
    BY <1>2 DEF ChldReturn, Step, Return
  <2>2. handler'["CHLD"].at = "idle" /\ \A t \in {"INT", "TSTP"} : handler'[t] = handler[t]
    BY <1>0, <2>1 DEF Idle
  <2> QED BY <2>1, <2>2, AgreeQuietly DEF AgreeInv
<1>3. CASE ChldDelete
  <2>1. handler["CHLD"].at = "delete" /\ ReportAgrees
    BY <1>3 DEF ChldDelete, Step, AgreeInv
  <2> QED BY <1>3, <2>1, AgreeCleared DEF ChldDelete, ReportAgrees
<1>4. CASE MarkKilled
  <2>1. handler["CHLD"].at = "mark" /\ handler["CHLD"].how = "killed" /\ ReportAgrees
    BY <1>4 DEF MarkKilled, Step, AgreeInv
  <2> QED BY <1>4, <2>1, AgreeCleared DEF MarkKilled, ReportAgrees
<1>5. Sigquit \/ (\E s \in Keys : Key(s)) \/ UNCHANGED vars => AgreeInv'
  <2>1. Sigquit \/ (\E s \in Keys : Key(s)) \/ UNCHANGED vars =>
          /\ UNCHANGED <<jobs, proc, unseen, psig, handler>>
          /\ pc' \in {pc, "exited"}
    BY DEF Sigquit, Key, vars
  <2> QED BY <2>1, AgreeQuietly DEF AgreeInv
<1> QED BY <1>1, <1>2, <1>3, <1>4, <1>5, AgreeMain, AgreeWait, AgreeFindFg, AgreeKill,
           AgreeMark, AgreeChild DEF Next, Handlers

(* Lines 33-41 and 562: where children end only by exit or by a key, the   *)
(* states in the list are those of the processes whenever no report is     *)
(* outstanding.  Without the hypothesis it is not so: sigchld_handler      *)
(* attributes every death and stop to the foreground job.                  *)
THEOREM ListAgrees == ASSUME Gentle PROVE Spec => []TableAgrees
<1>1. Inv /\ AgreeInv => TableAgrees
  <2> SUFFICES ASSUME Inv, AgreeInv, Quiet, NEW i \in Slots, jobs[i].pid # NoPid
               PROVE  /\ jobs[i].state = "ST" <=> proc[jobs[i].pid] = "stopped"
                      /\ proc[jobs[i].pid] # "gone"
    BY DEF TableAgrees
  <2> DEFINE p == jobs[i].pid
  <2>1. p \in Pids
    BY AgreeTypes DEF Job
  <2>2. handler["CHLD"].at = "idle"
    BY DEF Inv, Chain, Active, Quiet, Signals
  <2>3. p \notin unseen
    BY DEF Quiet, Waitable
  <2>4. ProcAgrees(p) /\ p \in Listed(jobs)
    BY <2>1 DEF AgreeInv, Listed
  <2>5. jobs[i].state = "ST" <=> HasState(p, "ST")
    BY <2>1 DEF HasState, Inv, JobsInv
  <2> QED BY <2>2, <2>3, <2>4, <2>5 DEF ProcAgrees, Reported, Reporting
<1> QED BY <1>1, InvInit, InvNext, AgreeInit, AgreeNext, PTL DEF Spec
=============================================================================
