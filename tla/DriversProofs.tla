----------------------------- MODULE DriversProofs -----------------------------
(***************************************************************************)
(* Theorems about the drivers, for any number of processes and CPUs.       *)
(*                                                                         *)
(* Both devices open, close, load and unload in the same way: the steps of *)
(* both are those of a state with seven parts, about which the invariants  *)
(* are proved once.  A reader of a device gets what is its own, a report   *)
(* tells the ancestors of the caller, and msrtest prints what happened on  *)
(* its CPU.                                                                *)
(***************************************************************************)
EXTENDS MCDrivers, FiniteSetTheorems, SequenceTheorems, TLAPS

(* Where a process may be, by what it has done to Device_Open and to the   *)
(* module's count.                                                         *)
Tests    == {"load", "store"}
Outside  == {"away", "put", "oops"}
Unheld   == Tests \cup {"set", "get", "away", "oops"}
Special  == Tests \cup Outside \cup {"set", "get", "reload", "restore"}
Places   == Special \cup {"open", "tree", "test", "take", "store_ptr", "copy"}

(* What both devices share, as a record.                                   *)
CharOpen == [at |-> cpc, count |-> copen, has |-> cloaded, seen |-> coverlapped,
             module |-> cmodule, users |-> cusers, unheld |-> cunheld]
HelloOpen == [at |-> hpc, count |-> hopen, has |-> hloaded, seen |-> hoverlapped,
              module |-> hmodule, users |-> husers, unheld |-> hunheld]

(* The steps of OpenOnce on such a record.                                 *)
Moves(p, s, t, before, to) == s.at[p] = before /\ t.at = [s.at EXCEPT ![p] = to]
SameCount(s, t) == t.count = s.count /\ t.has = s.has /\ t.seen = s.seen
SameModule(s, t) == t.module = s.module /\ t.users = s.users /\ t.unheld = s.unheld
Tested(p, s, t) ==
  /\ s.module # "out" /\ Moves(p, s, t, "away", "load") /\ s.count = 0
  /\ t.seen = (s.seen \/ \E q \in Users : s.at[q] \in Tests)
  /\ t.count = s.count /\ t.has = s.has /\ SameModule(s, t)
HasLoaded(p, s, t) ==
  /\ Moves(p, s, t, "load", "store") \/ Moves(p, s, t, "reload", "restore")
  /\ t.has = [s.has EXCEPT ![p] = s.count] /\ t.count = s.count /\ t.seen = s.seen /\ SameModule(s, t)
Increments(p, s, t) ==
  /\ Moves(p, s, t, "store", "set") /\ t.count = s.has[p] + 1
  /\ t.has = s.has /\ t.seen = s.seen /\ SameModule(s, t)
Decrements(p, s, t) ==
  /\ Moves(p, s, t, "restore", "put") /\ t.count = s.has[p] - 1
  /\ t.has = s.has /\ t.seen = s.seen /\ SameModule(s, t)
Gets(p, s, t) ==
  /\ Moves(p, s, t, "get", "open") /\ SameCount(s, t) /\ t.module = s.module
  /\ IF s.module = "in" THEN t.users = s.users + 1 /\ t.unheld = s.unheld
     ELSE t.users = s.users /\ t.unheld = s.unheld \cup {p}
Puts(p, s, t) ==
  /\ Moves(p, s, t, "put", "away") /\ SameCount(s, t) /\ t.module = s.module
  /\ t.unheld = s.unheld \ {p}
  /\ t.users = IF s.module = "in" THEN s.users - 1 ELSE s.users
\* What a process does with the device once it is open.
Uses(p, s, t) ==
  /\ SameCount(s, t) /\ SameModule(s, t)
  /\ \/ t.at = s.at
     \/ Moves(p, s, t, "set", "get") \/ Moves(p, s, t, "open", "reload")
     \/ s.at[p] \notin Special /\ \E to \in Places \ Special : t.at = [s.at EXCEPT ![p] = to]
Steps(p, s, t) == \/ Tested(p, s, t) \/ HasLoaded(p, s, t) \/ Increments(p, s, t) \/ Decrements(p, s, t)
                  \/ Gets(p, s, t) \/ Puts(p, s, t) \/ Uses(p, s, t)
Loads(s, t) == /\ s.module = "out" /\ t.module = "in" /\ t.at = s.at /\ SameCount(s, t)
               /\ t.users = s.users /\ t.unheld = s.unheld
Leaves(s, t) == /\ s.module = "in" /\ s.users = 0 /\ t.module = "going" /\ t.at = s.at /\ SameCount(s, t)
                /\ t.users = s.users /\ t.unheld = s.unheld
Frees(s, t) ==
  /\ s.module = "going" /\ t.module = "out"
  /\ t.at = [p \in Users |-> IF s.at[p] = "away" THEN "away" ELSE "oops"]
  /\ t.users = 0 /\ t.unheld = {} /\ t.count = 0 /\ t.has = [p \in Users |-> 0] /\ t.seen = FALSE
OpenStep(s, t) == Loads(s, t) \/ Leaves(s, t) \/ Frees(s, t) \/ \E p \in Users : Steps(p, s, t)

-----------------------------------------------------------------------------
(* Nobody is inside a module that is out.                                  *)
Shape(s) ==
  /\ s.at \in [Users -> Places] /\ s.has \in [Users -> Int] /\ s.count \in Int /\ s.seen \in BOOLEAN
  /\ s.module = "out" => s.count = 0 /\ s.users = 0 /\ s.unheld = {} /\ \A p \in Users : s.at[p] \in {"away", "oops"}

(* One process at most is inside; Device_Open counts it from its increment *)
(* to its decrement, and what it has loaded is still there.                *)
Alone(s) ==
  s.module # "out" /\ ~s.seen =>
    /\ \A p, q \in Users : s.at[p] \notin Outside /\ s.at[q] \notin Outside => p = q
    /\ \A p \in Users : s.at[p] \notin Outside \cup Tests => s.count = 1
    /\ (\A p \in Users : s.at[p] \in Outside \cup Tests) => s.count = 0
    /\ \A p \in Users : s.at[p] = "store" => s.has[p] = 0
    /\ \A p \in Users : s.at[p] = "restore" => s.has[p] = 1

(* The module's count is the number of processes that hold it.             *)
Holds(s) == {p \in Users : s.at[p] \notin Unheld} \ s.unheld
Kept(s) ==
  /\ s.unheld \subseteq {p \in Users : s.at[p] \notin Unheld}
  /\ Holds(s) # {} => s.module = "in"
  /\ s.module = "in" => s.users = Cardinality(Holds(s)) /\ s.unheld = {}

OpenInv(s) == Shape(s) /\ Alone(s) /\ Kept(s)

-----------------------------------------------------------------------------
(* Lemmas about one step.                                                  *)
LEMMA ShapeStep ==
  ASSUME NEW s, NEW t, Shape(s), OpenStep(s, t) PROVE Shape(t)
<1> USE DEF Shape
<1>1. CASE Loads(s, t)
  BY <1>1 DEF Loads, SameCount
<1>2. CASE Leaves(s, t)
  BY <1>2 DEF Leaves, SameCount
<1>3. CASE Frees(s, t)
  <2>1. t.at \in [Users -> Places] /\ t.has \in [Users -> Int]
    BY <1>3 DEF Frees, Places, Special, Outside
  <2>2. t.seen \in BOOLEAN
    BY <1>3, Zenon DEF Frees
  <2>3. \A p \in Users : t.at[p] \in {"away", "oops"}
    BY <1>3 DEF Frees
  <2> QED
    BY <1>3, <2>1, <2>2, <2>3 DEF Frees
<1>4. ASSUME NEW p \in Users, Steps(p, s, t) PROVE Shape(t)
  <2>1. t.at \in [Users -> Places]
    <3>1. t.at = s.at \/ \E to \in Places : t.at = [s.at EXCEPT ![p] = to]
      <4>1. CASE Tested(p, s, t) \/ HasLoaded(p, s, t) \/ Increments(p, s, t) \/ Decrements(p, s, t)
        BY <4>1 DEF Tested, HasLoaded, Increments, Decrements, Moves, Places, Special, Outside, Tests
      <4>2. CASE Gets(p, s, t) \/ Puts(p, s, t) \/ Uses(p, s, t)
        BY <4>2 DEF Gets, Puts, Uses, Moves, Places, Special, Outside
      <4> QED BY <1>4, <4>1, <4>2 DEF Steps
    <3>2. s.at \in [Users -> Places]
      OBVIOUS
    <3> QED BY <3>1, <3>2
  <2>2. t.has \in [Users -> Int] /\ t.count \in Int
    BY <1>4 DEF Steps, Tested, HasLoaded, Increments, Decrements, Gets, Puts, Uses, SameCount
  <2>3. t.seen \in BOOLEAN
    <3>1. CASE Tested(p, s, t)
      BY <3>1, Zenon DEF Tested
    <3>2. CASE ~Tested(p, s, t)
      BY <1>4, <3>2 DEF Steps, HasLoaded, Increments, Decrements, Gets, Puts, Uses, SameCount
    <3> QED
      BY <3>1, <3>2
  <2>4. ASSUME t.module = "out"
        PROVE  t.count = 0 /\ t.users = 0 /\ t.unheld = {} /\ \A q \in Users : t.at[q] \in {"away", "oops"}
    <3>1. s.module = "out"
      BY <1>4, <2>4 DEF Steps, Tested, HasLoaded, Increments, Decrements, Gets, Puts, Uses, SameModule
    <3>2. s.at[p] \in {"away", "oops"}
      BY <3>1
    <3>3. Uses(p, s, t) /\ t.at = s.at
      BY <1>4, <3>1, <3>2
      DEF Steps, Tested, HasLoaded, Increments, Decrements, Gets, Puts, Uses, Moves, Special, Outside
    <3> QED
      BY <3>1, <3>3 DEF Uses, SameCount, SameModule
  <2> QED
    BY <2>1, <2>2, <2>3, <2>4
<1> QED
  BY <1>1, <1>2, <1>3, <1>4 DEF OpenStep

(* A process that uses the device stays where it is with regard to the two *)
(* counts.                                                                 *)
LEMMA UsesKeeps ==
  ASSUME NEW s, NEW t, NEW p \in Users, s.at \in [Users -> Places], Uses(p, s, t)
  PROVE  \A q \in Users : /\ \A S \in {Outside, Tests, {"store"}, {"restore"}} : t.at[q] \in S <=> s.at[q] \in S
                          /\ t.at[q] \in Unheld <=> s.at[q] \in Unheld
<1> SUFFICES ASSUME NEW q \in Users
             PROVE  /\ t.at[q] \in Outside <=> s.at[q] \in Outside
                    /\ t.at[q] \in Tests <=> s.at[q] \in Tests
                    /\ t.at[q] = "store" <=> s.at[q] = "store"
                    /\ t.at[q] = "restore" <=> s.at[q] = "restore"
                    /\ t.at[q] \in Unheld <=> s.at[q] \in Unheld
  OBVIOUS
<1> USE DEF Special, Outside, Tests, Unheld
<1>1. CASE t.at = s.at
  BY <1>1
<1>2. CASE Moves(p, s, t, "set", "get") \/ Moves(p, s, t, "open", "reload")
  BY <1>2 DEF Moves
<1>3. ASSUME s.at[p] \notin Special, NEW to \in Places \ Special, t.at = [s.at EXCEPT ![p] = to]
      PROVE  /\ t.at[q] \in Outside <=> s.at[q] \in Outside
             /\ t.at[q] \in Tests <=> s.at[q] \in Tests
             /\ t.at[q] = "store" <=> s.at[q] = "store"
             /\ t.at[q] = "restore" <=> s.at[q] = "restore"
             /\ t.at[q] \in Unheld <=> s.at[q] \in Unheld
  BY <1>3
<1> QED
  BY <1>1, <1>2, <1>3 DEF Uses

(* A step of one process.  If the test succeeds and nobody else is between *)
(* its test and its increment, nobody is inside.                           *)
LEMMA AloneStep ==
  ASSUME NEW s, NEW t, Shape(s), Alone(s), OpenStep(s, t) PROVE Alone(t)
<1>1. CASE Loads(s, t)
  BY <1>1 DEF Loads, SameCount, Shape, Alone, Outside
<1>2. CASE Leaves(s, t)
  BY <1>2 DEF Leaves, SameCount, Alone
<1>3. CASE Frees(s, t)
  BY <1>3 DEF Frees, Alone
<1>4. ASSUME NEW p \in Users, Steps(p, s, t) PROVE Alone(t)
  <2> SUFFICES ASSUME t.module # "out", ~t.seen PROVE Alone(t)
    BY DEF Alone
  <2>0. /\ s.module # "out" /\ ~s.seen
        /\ s.at \in [Users -> Places] /\ s.has \in [Users -> Int] /\ s.count \in Int
    BY <1>4 DEF Steps, Tested, HasLoaded, Increments, Decrements, Gets, Puts, Uses, SameCount, SameModule, Shape
  <2>1. CASE Tested(p, s, t)
    <3>1. \A q \in Users : s.at[q] \notin Tests
      BY <2>1 DEF Tested
    <3>2. \A q \in Users : s.at[q] \in Outside
      BY <2>0, <2>1, <3>1 DEF Alone, Tested
    <3> QED
      BY <2>0, <2>1, <3>2 DEF Alone, Tested, Moves, Outside, Tests
  <2>2. CASE HasLoaded(p, s, t)
    BY <2>0, <2>2 DEF Alone, HasLoaded, Moves, Outside, Tests
  <2>3. CASE Increments(p, s, t)
    BY <2>0, <2>3 DEF Alone, Increments, Moves, Outside, Tests
  <2>4. CASE Decrements(p, s, t)
    BY <2>0, <2>4 DEF Alone, Decrements, Moves, Outside, Tests
  <2>5. CASE Gets(p, s, t)
    BY <2>0, <2>5 DEF Alone, Gets, Moves, SameCount, Outside, Tests
  <2>6. CASE Puts(p, s, t)
    BY <2>0, <2>6 DEF Alone, Puts, Moves, SameCount, Outside, Tests
  <2>7. CASE Uses(p, s, t)
    <3>1. \A q \in Users : /\ t.at[q] \in Outside <=> s.at[q] \in Outside
                           /\ t.at[q] \in Tests <=> s.at[q] \in Tests
                           /\ t.at[q] = "store" <=> s.at[q] = "store"
                           /\ t.at[q] = "restore" <=> s.at[q] = "restore"
      BY <2>0, <2>7, UsesKeeps
    <3>2. t.count = s.count /\ t.has = s.has
      BY <2>7 DEF Uses, SameCount
    <3> QED
      BY <2>0, <3>1, <3>2 DEF Alone
  <2> QED
    BY <1>4, <2>1, <2>2, <2>3, <2>4, <2>5, <2>6, <2>7 DEF Steps
<1> QED
  BY <1>1, <1>2, <1>3, <1>4 DEF OpenStep

(* A step of one process.  The set of those that hold the module gains one *)
(* with try_module_get and loses one with module_put.                      *)
LEMMA KeptStep ==
  ASSUME NEW s, NEW t, Shape(s), Kept(s), OpenStep(s, t) PROVE Kept(t)
<1>1. CASE Loads(s, t)
  <2>1. Holds(s) = {} /\ Holds(t) = {} /\ t.users = 0
    BY <1>1 DEF Loads, Shape, Holds, Unheld
  <2> QED
    BY <1>1, <2>1, FS_EmptySet DEF Loads, Kept, Shape
<1>2. CASE Leaves(s, t)
  <2>1. Cardinality(Holds(s)) = 0 /\ IsFiniteSet(Holds(s))
    BY <1>2, UsersAssumption, FS_Subset DEF Leaves, Kept, Holds
  <2>2. Holds(s) = {}
    BY <2>1, FS_EmptySet
  <2> QED
    BY <1>2, <2>2 DEF Leaves, Kept, Holds
<1>3. CASE Frees(s, t)
  BY <1>3 DEF Frees, Kept, Holds, Unheld
<1>4. ASSUME NEW p \in Users, Steps(p, s, t) PROVE Kept(t)
  <2>0. s.at \in [Users -> Places] /\ IsFiniteSet(Holds(s))
    BY UsersAssumption, FS_Subset DEF Shape, Holds
  <2>1. CASE Gets(p, s, t)
    <3>1. /\ p \notin Holds(s) /\ p \notin s.unheld
          /\ \A q \in Users : t.at[q] \notin Unheld <=> s.at[q] \notin Unheld \/ q = p
      BY <2>0, <2>1 DEF Gets, Moves, Kept, Holds, Unheld, Tests
    <3>2. CASE s.module = "in"
      <4>1. Holds(t) = Holds(s) \cup {p}
        BY <2>1, <3>1, <3>2 DEF Gets, Holds
      <4>2. Cardinality(Holds(t)) = Cardinality(Holds(s)) + 1
        BY <2>0, <3>1, <4>1, FS_AddElement
      <4> QED
        BY <2>1, <3>1, <3>2, <4>2 DEF Gets, Kept
    <3>3. CASE s.module # "in"
      <4>1. Holds(t) = Holds(s)
        BY <2>1, <3>1, <3>3 DEF Gets, Holds
      <4> QED
        BY <2>1, <3>1, <3>3, <4>1 DEF Gets, Kept
    <3> QED
      BY <3>2, <3>3
  <2>2. CASE Puts(p, s, t)
    <3>1. \A q \in Users : t.at[q] \notin Unheld <=> s.at[q] \notin Unheld /\ q # p
      BY <2>0, <2>2 DEF Puts, Moves, Unheld, Tests
    <3>2. Holds(t) = Holds(s) \ {p}
      BY <2>2, <3>1 DEF Puts, Holds
    <3>3. CASE s.module = "in"
      <4>1. p \in Holds(s)
        BY <2>2, <3>3 DEF Puts, Moves, Kept, Holds, Unheld, Tests
      <4>2. Cardinality(Holds(t)) = Cardinality(Holds(s)) - 1
        BY <2>0, <3>2, <4>1, FS_RemoveElement
      <4> QED
        BY <2>2, <3>1, <3>3, <4>2 DEF Puts, Kept
    <3>4. CASE s.module # "in"
      BY <2>2, <3>1, <3>2, <3>4 DEF Puts, Kept
    <3> QED
      BY <3>3, <3>4
  <2>3. CASE ~Gets(p, s, t) /\ ~Puts(p, s, t)
    <3>1. \A q \in Users : t.at[q] \in Unheld <=> s.at[q] \in Unheld
      <4>1. CASE Uses(p, s, t)
        BY <2>0, <4>1, UsesKeeps
      <4>2. CASE ~Uses(p, s, t)
        BY <1>4, <2>0, <2>3, <4>2 DEF Steps, Tested, HasLoaded, Increments, Decrements, Moves, Unheld, Tests
      <4> QED
        BY <4>1, <4>2
    <3>2. SameModule(s, t)
      BY <1>4, <2>3 DEF Steps, Tested, HasLoaded, Increments, Decrements, Uses
    <3>3. Holds(t) = Holds(s)
      BY <3>1, <3>2 DEF Holds, SameModule
    <3> QED
      BY <3>1, <3>2, <3>3 DEF Kept, SameModule
  <2> QED
    BY <2>1, <2>2, <2>3
<1> QED
  BY <1>1, <1>2, <1>3, <1>4 DEF OpenStep

-----------------------------------------------------------------------------
(* The steps of the devices.                                               *)
LEMMA CharSteps ==
  ASSUME Shape(CharOpen), Char!CharNext PROVE OpenStep(CharOpen, CharOpen')
<1> USE DEF CharOpen
<1>1. CASE Char!Loaded
  BY <1>1 DEF Char!Loaded, Char!Insmod, Char!open, OpenStep, Loads, SameCount
<1>2. CASE Char!Leaving
  BY <1>2 DEF Char!Leaving, Char!Rmmod, Char!open, OpenStep, Leaves, SameCount
<1>3. CASE Char!Unloaded
  BY <1>3 DEF Char!Unloaded, Char!Cleanup, OpenStep, Frees
<1>4. ASSUME NEW p \in Users, Char!OpenClose(p) PROVE Steps(p, CharOpen, CharOpen')
  <2> USE DEF Char!Goto, Char!open, Char!kernel, Steps, Moves, SameModule, SameCount
  <2>1. CASE Char!OpenTest(p)
    BY <2>1 DEF Char!OpenTest, Char!Testing, Tested, Tests
  <2>2. CASE Char!Load(p)
    BY <2>2 DEF Char!Load, HasLoaded
  <2>3. CASE Char!OpenStore(p)
    BY <2>3 DEF Char!OpenStore, Increments
  <2>4. CASE Char!SetPtr(p)
    BY <2>4 DEF Char!SetPtr, Uses
  <2>5. CASE Char!OpenGet(p)
    BY <2>5 DEF Char!OpenGet, Gets
  <2>6. CASE Char!Close(p)
    BY <2>6 DEF Char!Close, Uses
  <2>7. CASE Char!CloseStore(p)
    BY <2>7 DEF Char!CloseStore, Decrements
  <2> QED
    BY <1>4, <2>1, <2>2, <2>3, <2>4, <2>5, <2>6, <2>7 DEF Char!OpenClose
<1>5. ASSUME NEW p \in Users, Char!Closed(p) PROVE Steps(p, CharOpen, CharOpen')
  BY <1>5 DEF Char!Closed, Char!ClosePut, Char!Goto, Char!open, Steps, Puts, Moves, SameCount
<1>6. ASSUME NEW p \in Users, NEW n \in CharLengths, Char!Read(p, n) PROVE Uses(p, CharOpen, CharOpen')
  BY <1>6 DEF Char!Read, Char!Goto, Char!open, Char!kernel, Uses, SameCount, SameModule, Places, Special, Outside, Tests
<1>7. ASSUME NEW p \in Users, Char!Tree(p) \/ Char!Test(p) \/ Char!Take(p) \/ Char!StorePtr(p)
      PROVE  Uses(p, CharOpen, CharOpen')
  BY <1>7 DEF Char!Tree, Char!Test, Char!Take, Char!StorePtr, Char!Goto, Char!open, Char!kernel,
              Uses, SameCount, SameModule, Places, Special, Outside, Tests
<1>8. ASSUME NEW p \in Users, Char!Copy(p) \/ Char!Written(p) \/ \E m \in Char!Texts : Char!Write(p, m)
      PROVE  Uses(p, CharOpen, CharOpen')
  BY <1>8 DEF Char!Write, Char!Copy, Char!Written, Char!Goto, Char!open, Char!kernel,
              Uses, SameCount, SameModule, Places, Special, Outside, Tests
<1> QED
  BY <1>1, <1>2, <1>3, <1>4, <1>5, <1>6, <1>7, <1>8 DEF Char!CharNext, OpenStep, Steps

LEMMA HelloSteps ==
  ASSUME Shape(HelloOpen), Hello!HelloNext PROVE OpenStep(HelloOpen, HelloOpen')
<1> USE DEF HelloOpen
<1>1. CASE Hello!init_module
  BY <1>1 DEF Hello!init_module, Hello!Insmod, Hello!open, OpenStep, Loads, SameCount
<1>2. CASE Hello!cleanup_module
  BY <1>2 DEF Hello!cleanup_module, Hello!Rmmod, Hello!Cleanup, Hello!open, OpenStep, Leaves, Frees, SameCount
<1>3. ASSUME NEW p \in Users, Hello!device_open(p) \/ Hello!device_release(p) PROVE Steps(p, HelloOpen, HelloOpen')
  <2> USE DEF Hello!Goto, Hello!open, Hello!kernel, Steps, Moves, SameModule, SameCount
  <2>1. CASE Hello!OpenTest(p)
    BY <2>1 DEF Hello!OpenTest, Hello!Testing, Tested, Tests
  <2>2. CASE Hello!Load(p)
    BY <2>2 DEF Hello!Load, HasLoaded
  <2>3. CASE Hello!OpenStore(p)
    BY <2>3 DEF Hello!OpenStore, Increments
  <2>4. CASE Hello!Tell(p)
    BY <2>4 DEF Hello!Tell, Uses
  <2>5. CASE Hello!OpenGet(p)
    BY <2>5 DEF Hello!OpenGet, Gets
  <2>6. CASE Hello!Close(p)
    BY <2>6 DEF Hello!Close, Uses
  <2>7. CASE Hello!CloseStore(p)
    BY <2>7 DEF Hello!CloseStore, Decrements
  <2>8. CASE Hello!ClosePut(p)
    BY <2>8 DEF Hello!ClosePut, Puts
  <2> QED
    BY <1>3, <2>1, <2>2, <2>3, <2>4, <2>5, <2>6, <2>7, <2>8 DEF Hello!device_open, Hello!device_release
<1>4. ASSUME NEW p \in Users, Hello!device_read(p) PROVE Uses(p, HelloOpen, HelloOpen')
  BY <1>4 DEF Hello!device_read, Hello!Read, Hello!Test, Hello!Take, Hello!StorePtr, Hello!Goto, Hello!open, Hello!kernel,
              Uses, SameCount, SameModule, Places, Special, Outside, Tests
<1> QED
  BY <1>1, <1>2, <1>3, <1>4 DEF Hello!HelloNext, OpenStep, Steps

-----------------------------------------------------------------------------
(* The invariants in terms of numbers.                                     *)
Inner(s)  == {p \in Users : s.at[p] \notin Outside}
Counted(s) == {p \in Users : s.at[p] \notin Outside \cup Tests}

LEMMA AloneCounts ==
  ASSUME NEW s, Alone(s), s.module # "out", ~s.seen
  PROVE  Cardinality(Inner(s)) <= 1 /\ s.count = Cardinality(Counted(s))
<1> DEFINE W == Inner(s)
           C == Counted(s)
<1> USE DEF Inner, Counted
<1>1. C \subseteq W /\ \A p, q \in W : p = q
  BY DEF Alone
<1>2. CASE W = {}
  BY <1>1, <1>2, FS_EmptySet DEF Alone
<1>3. CASE W # {}
  <2>1. PICK p \in W : W = {p}
    BY <1>1, <1>3
  <2>2. Cardinality(W) = 1
    BY <2>1, FS_Singleton
  <2>3. CASE C = {}
    BY <2>2, <2>3, FS_EmptySet DEF Alone
  <2>4. CASE C # {}
    <3>1. C = {p} /\ s.count = 1
      BY <1>1, <2>1, <2>4 DEF Alone
    <3>2. Cardinality(C) = 1
      BY <3>1, FS_Singleton
    <3> QED
      BY <2>2, <3>1, <3>2
  <2> QED
    BY <2>3, <2>4
<1> QED
  BY <1>2, <1>3

LEMMA DriversStart ==
  ASSUME DriversInit PROVE OpenInv(CharOpen) /\ OpenInv(HelloOpen)
<1>1. ASSUME NEW s, s.at = [p \in Users |-> "away"], s.count = 0, s.has = [p \in Users |-> 0],
             s.seen = FALSE, s.module = "out", s.users = 0, s.unheld = {}
      PROVE  OpenInv(s)
  <2>1. s.seen \in BOOLEAN
    BY <1>1, Zenon
  <2>2. Shape(s)
    BY <1>1, <2>1 DEF Shape, Places, Special, Outside
  <2>3. Alone(s) /\ Kept(s)
    BY <1>1 DEF Alone, Kept, Holds, Unheld
  <2> QED
    BY <2>2, <2>3 DEF OpenInv
<1>2. Char!OpenInit /\ Hello!OpenInit
  BY DEF DriversInit, Char!CharInit, Hello!HelloInit
<1>3. OpenInv(CharOpen)
  BY <1>1, <1>2 DEF Char!OpenInit, CharOpen
<1>4. OpenInv(HelloOpen)
  BY <1>1, <1>2 DEF Hello!OpenInit, HelloOpen
<1> QED
  BY <1>3, <1>4

LEMMA OpenInvStep ==
  ASSUME NEW s, NEW t, OpenInv(s), OpenStep(s, t) PROVE OpenInv(t)
BY ShapeStep, AloneStep, KeptStep DEF OpenInv

LEMMA DriversStep ==
  ASSUME OpenInv(CharOpen), OpenInv(HelloOpen),
         [DriversNext]_<<driver, cvars, hvars, msrvars>>
  PROVE  (OpenInv(CharOpen) /\ OpenInv(HelloOpen))'
<1>1. ASSUME UNCHANGED cvars PROVE OpenInv(CharOpen)'
  BY <1>1 DEF cvars, CharOpen, OpenInv, Shape, Alone, Kept, Holds
<1>2. ASSUME UNCHANGED hvars PROVE OpenInv(HelloOpen)'
  BY <1>2 DEF hvars, HelloOpen, OpenInv, Shape, Alone, Kept, Holds
<1>3. CASE Char!CharNext /\ UNCHANGED hvars
  <2>1. OpenInv(CharOpen')
    BY <1>3, CharSteps, OpenInvStep DEF OpenInv
  <2> QED
    BY <1>2, <1>3, <2>1 DEF CharOpen, OpenInv, Shape, Alone, Kept, Holds
<1>4. CASE Hello!HelloNext /\ UNCHANGED cvars
  <2>1. OpenInv(HelloOpen')
    BY <1>4, HelloSteps, OpenInvStep DEF OpenInv
  <2> QED
    BY <1>1, <1>4, <2>1 DEF HelloOpen, OpenInv, Shape, Alone, Kept, Holds
<1>5. CASE UNCHANGED cvars /\ UNCHANGED hvars
  BY <1>1, <1>2, <1>5
<1> QED
  BY <1>3, <1>4, <1>5 DEF DriversNext

LEMMA DriversInvariant == DriversSpec => [](OpenInv(CharOpen) /\ OpenInv(HelloOpen))
BY DriversStart, DriversStep, PTL DEF DriversSpec

(* Each device has the cardinality of the library.                         *)
LEMMA SameCardinality ==
  ASSUME NEW S
  PROVE  Char!Cardinality(S) = Cardinality(S) /\ Hello!Cardinality(S) = Cardinality(S)
BY DEF Char!Cardinality, Hello!Cardinality, Cardinality

(* "We don't want to talk to two processes at the same time" (chardev.c:   *)
(* 49): between them, any number of processes are kept apart by            *)
(* Device_Open, which counts the one inside, unless two pass its test      *)
(* before either has counted itself.                                       *)
THEOREM OneInside == DriversSpec => []OneProcess
<1>1. OpenInv(CharOpen) /\ OpenInv(HelloOpen) => OneProcess
  <2> SUFFICES ASSUME OpenInv(CharOpen), OpenInv(HelloOpen) PROVE OneProcess
    OBVIOUS
  <2>1. Char!OneAtATime
    <3> SUFFICES ASSUME cmodule # "out", ~coverlapped
                 PROVE Cardinality(Char!Within) <= 1 /\ copen = Cardinality(Char!Counted)
      BY SameCardinality DEF Char!OneAtATime
    <3>1. Cardinality(Inner(CharOpen)) <= 1 /\ CharOpen.count = Cardinality(Counted(CharOpen))
      <4>1. CharOpen.module # "out" /\ ~CharOpen.seen
        BY DEF CharOpen
      <4> QED
        BY <4>1, AloneCounts DEF OpenInv
    <3>2. Char!Within = Inner(CharOpen) /\ Char!Counted = Counted(CharOpen) /\ copen = CharOpen.count
      BY DEF Char!Within, Char!Counted, Char!Testing, CharOpen, Inner, Counted, Outside, Tests
    <3> QED
      BY <3>1, <3>2
  <2>2. Hello!OneAtATime
    <3> SUFFICES ASSUME hmodule # "out", ~hoverlapped
                 PROVE Cardinality(Hello!Within) <= 1 /\ hopen = Cardinality(Hello!Counted)
      BY SameCardinality DEF Hello!OneAtATime
    <3>1. Cardinality(Inner(HelloOpen)) <= 1 /\ HelloOpen.count = Cardinality(Counted(HelloOpen))
      <4>1. HelloOpen.module # "out" /\ ~HelloOpen.seen
        BY DEF HelloOpen
      <4> QED
        BY <4>1, AloneCounts DEF OpenInv
    <3>2. Hello!Within = Inner(HelloOpen) /\ Hello!Counted = Counted(HelloOpen) /\ hopen = HelloOpen.count
      BY DEF Hello!Within, Hello!Counted, Hello!Testing, HelloOpen, Inner, Counted, Outside, Tests
    <3> QED
      BY <3>1, <3>2
  <2> QED
    BY <2>1, <2>2 DEF OneProcess
<1> QED
  BY <1>1, DriversInvariant, PTL

(* A process that could hold the module with try_module_get never finds it *)
(* gone, over any sequence of loading and unloading.                       *)
THEOREM HolderFindsModule == DriversSpec => []ModuleStays
<1>1. OpenInv(CharOpen) /\ OpenInv(HelloOpen) => ModuleStays
  <2>1. Char!Holding = Holds(CharOpen)
    BY DEF Char!Holding, Char!Opening, Char!Testing, Holds, CharOpen, Unheld, Tests
  <2>2. Hello!Holding = Holds(HelloOpen)
    BY DEF Hello!Holding, Hello!Opening, Hello!Testing, Holds, HelloOpen, Unheld, Tests
  <2>3. OpenInv(CharOpen) => Char!StaysLoaded
    <3>1. CharOpen.module = cmodule /\ CharOpen.users = cusers
      BY DEF CharOpen
    <3> QED
      BY <2>1, <3>1, SameCardinality DEF OpenInv, Kept, Char!StaysLoaded
  <2>4. OpenInv(HelloOpen) => Hello!StaysLoaded
    <3>1. HelloOpen.module = hmodule /\ HelloOpen.users = husers
      BY DEF HelloOpen
    <3> QED
      BY <2>2, <3>1, SameCardinality DEF OpenInv, Kept, Hello!StaysLoaded
  <2> QED
    BY <2>3, <2>4 DEF ModuleStays
<1> QED
  BY <1>1, DriversInvariant, PTL

-----------------------------------------------------------------------------

(* Where a process may be in the device of the practice, and where one     *)
(* reads or is about to.                                                   *)
HelloPlaces == Special \cup {"open", "test", "take", "store_ptr"}
InText == {"get", "open", "test", "take", "store_ptr"}

(* The state of the device of the practice is well formed; a process that  *)
(* copies has a length left.                                               *)
HelloTyped ==
  /\ hpc \in [Users -> HelloPlaces]
  /\ counter \in Nat /\ msg \in Nat /\ msg_Ptr \in Nat
  /\ hptr \in [Users -> Nat] /\ hlength \in [Users -> Nat] /\ told \in [Users -> Nat] /\ ended \in [Users -> BOOLEAN]
  /\ \A p \in Users : hpc[p] \in {"take", "store_ptr"} => hlength[p] > 0

(* The first n pieces of the text that a process was told.                 *)
TextPieces(p, n) == [k \in 1 .. n |-> Hello!Piece(told[p], k)]

(* A process has read the first n pieces of its own text; while it is in   *)
(* the device msg_Ptr is n, and msg is what it was told, the last number   *)
(* given away.                                                             *)
OwnPieces(p) ==
  /\ \E n \in 0 .. 3 : /\ hgot[p] = TextPieces(p, n) /\ (ended[p] => n = 3)
                       /\ hpc[p] \in InText => msg_Ptr = n
                       /\ hpc[p] \in Tests \cup {"set", "away", "oops"} => n = 0 /\ ~ended[p]
                       /\ hpc[p] \in {"take", "store_ptr"} => n < 3 /\ ~ended[p]
  /\ hpc[p] \in InText => msg = told[p] /\ counter = told[p] + 1
  /\ hpc[p] = "store_ptr" => hptr[p] = msg_Ptr

(* What a process reads, as long as no two have passed the test of         *)
(* device_open together.                                                   *)
HelloRight ==
  /\ hgot \in [Users -> Seq([told : Nat, at : Nat])]
  /\ hmodule = "out" => \A p \in Users : hgot[p] = <<>> /\ told[p] = 0 /\ ~ended[p]
  /\ hmodule # "out" /\ ~hoverlapped => \A p \in Users : OwnPieces(p)
HelloInv == HelloTyped /\ HelloRight

(* What device_write may copy into Message; the lines of a report.         *)
WrittenTexts == SeqOf({1, Char!Nul}, BUF_LEN)
LineSet == [path : Char!Paths, number : {Char!int_to_str[t] : t \in Tasks}]

(* The state of the character device is well formed; what is being written *)
(* has a zero only at its end, and a process that copies a line has a      *)
(* length left.                                                            *)
CharTyped ==
  /\ Message \in [1 .. BUF_LEN -> {1, Char!Nul}]
  /\ call_tree_Ptr \in Nat /\ call_tree \in Seq(LineSet) /\ Len(call_tree) <= MaxTree
  /\ cptr \in [Users -> Nat] /\ clength \in [Users -> Nat]
  /\ cgot \in [Users -> Seq(LineSet \cup {Char!Garbage})]
  /\ input \in [Users -> [text : WrittenTexts, at : 0 .. BUF_LEN]]
  /\ \A p \in Users : LET s == input[p].text
                      IN input[p].at <= Len(s) /\ \A j \in 1 .. Len(s) - 1 : s[j] # Char!Nul
  /\ said \in Char!Texts \cup {Char!Unknown}
  /\ \A p \in Users : cpc[p] \in {"take", "store_ptr"} => clength[p] > 0
  /\ pid = Pids /\ parent = Parents /\ exe = Files

(* What a writer has copied so far is in Message.                          *)
Copied(p) == cpc[p] = "copy" => \A j \in 1 .. input[p].at : Message[j] = input[p].text[j]
Copying == {"test", "take", "store_ptr"}

(* A process has read the first n lines of its own report; while it        *)
(* copies, that report is the current one and call_tree_Ptr is n.  Outside *)
(* a read it has used up its length or the report.                         *)
OwnLines(p) ==
  LET r == Char!Report(pid[p])
      n == Len(cgot[p])
  IN /\ n <= Len(r) /\ \A k \in 1 .. n : cgot[p][k] = r[k]
     /\ cpc[p] = "tree" => n = 0
     /\ cpc[p] \in Copying => call_tree = r /\ call_tree_Ptr = n
     /\ cpc[p] \in {"take", "store_ptr"} => n < Len(r)
     /\ cpc[p] = "store_ptr" => cptr[p] = n
     /\ cpc[p] \notin Copying \cup {"tree"} => clength[p] = 0 \/ n = Len(r)

(* What a process reads and writes, as long as no two have passed the test *)
(* of device_open together; Message tells the text that was set, unless    *)
(* one is being copied.                                                    *)
CharRight ==
  cmodule # "out" /\ ~coverlapped =>
    /\ \A p \in Users : Copied(p) /\ OwnLines(p)
    /\ said # Char!Unknown /\ (\A p \in Users : cpc[p] = "copy" => input[p].at = 0) => Char!TextOf(Message) = said

(* The static data of a module that is out.                                *)
CharFresh == cmodule = "out" =>
  /\ Message = [j \in 1 .. BUF_LEN |-> Char!Nul] /\ said = <<>>
  /\ \A p \in Users : input[p] = Char!Nothing /\ cgot[p] = <<>> /\ clength[p] = 0
CharInv == CharTyped /\ CharRight /\ CharFresh

-----------------------------------------------------------------------------
(* The device of the practice starts so.                                   *)
LEMMA HelloStart == ASSUME DriversInit PROVE HelloInv
<1>1. Hello!HelloInit /\ Hello!OpenInit
  BY DEF DriversInit, Hello!HelloInit
<1>2. ended \in [Users -> BOOLEAN]
  BY <1>1, Zenon DEF Hello!HelloInit
<1>3. HelloTyped
  BY <1>1, <1>2 DEF Hello!HelloInit, Hello!OpenInit, HelloTyped, HelloPlaces, Special, Outside
<1>4. HelloRight
  BY <1>1 DEF Hello!HelloInit, Hello!OpenInit, HelloRight
<1> QED
  BY <1>3, <1>4 DEF HelloInv

(* Every step keeps it well formed.                                        *)
LEMMA HelloTypedStep == ASSUME HelloTyped, Hello!HelloNext PROVE HelloTyped'
<1> USE DEF HelloTyped, HelloPlaces, Special, Tests, Outside
<1>1. CASE Hello!init_module
  BY <1>1 DEF Hello!init_module, Hello!Insmod, Hello!text, Hello!read
<1>2. CASE Hello!cleanup_module
  <2>1. CASE Hello!Rmmod /\ UNCHANGED <<Hello!text, Hello!read, told>>
    BY <2>1 DEF Hello!Rmmod, Hello!text, Hello!read
  <2>2. CASE Hello!Cleanup /\ Hello!Forget(Users) /\ counter' = 0 /\ msg' = 0 /\ msg_Ptr' = 0
    <3>1. hpc' \in [Users -> HelloPlaces] /\ \A p \in Users : hpc'[p] \in {"away", "oops"}
      BY <2>2 DEF Hello!Cleanup
    <3>2. ended' \in [Users -> BOOLEAN]
      BY <2>2 DEF Hello!Forget
    <3>3. hptr' \in [Users -> Nat] /\ hlength' \in [Users -> Nat] /\ told' \in [Users -> Nat]
      BY <2>2 DEF Hello!Forget
    <3> QED BY <2>2, <3>1, <3>2, <3>3
  <2> QED BY <1>2, <2>1, <2>2 DEF Hello!cleanup_module
<1>3. ASSUME NEW p \in Users, Hello!device_open(p) PROVE HelloTyped'
  <2> USE DEF Hello!Goto, Hello!text, Hello!read
  <2>1. CASE Hello!Tell(p)
    BY <2>1 DEF Hello!Tell
  <2>2. CASE (Hello!OpenTest(p) \/ Hello!Load(p) \/ Hello!OpenStore(p) \/ Hello!OpenGet(p)) /\ UNCHANGED <<Hello!text, Hello!read, told>>
    BY <2>2 DEF Hello!OpenTest, Hello!Load, Hello!OpenStore, Hello!OpenGet
  <2> QED BY <1>3, <2>1, <2>2 DEF Hello!device_open
<1>4. ASSUME NEW p \in Users, Hello!device_release(p) PROVE HelloTyped'
  <2> USE DEF Hello!Goto, Hello!text, Hello!read
  <2>1. CASE Hello!ClosePut(p) /\ Hello!Forget({p}) /\ UNCHANGED <<Hello!text, msg_Ptr>>
    <3>1. ended' \in [Users -> BOOLEAN]
      BY <2>1 DEF Hello!Forget
    <3>2. hptr' \in [Users -> Nat] /\ hlength' \in [Users -> Nat] /\ told' \in [Users -> Nat]
      BY <2>1 DEF Hello!Forget
    <3>3. \A q \in Users : q # p => hlength'[q] = hlength[q]
      BY <2>1 DEF Hello!Forget
    <3> QED BY <2>1, <3>1, <3>2, <3>3 DEF Hello!ClosePut
  <2>2. CASE (Hello!Close(p) \/ Hello!Load(p) \/ Hello!CloseStore(p)) /\ UNCHANGED <<Hello!text, Hello!read, told>>
    BY <2>2 DEF Hello!Close, Hello!Load, Hello!CloseStore
  <2> QED BY <1>4, <2>1, <2>2 DEF Hello!device_release
<1>5. ASSUME NEW p \in Users, Hello!device_read(p) PROVE HelloTyped'
  <2> USE DEF Hello!Goto, Hello!text
  <2>1. ASSUME NEW n \in HelloLengths, Hello!Read(p, n) PROVE HelloTyped'
    <3>1. ended' \in [Users -> BOOLEAN] /\ n \in Nat
      <4>1. ended' = [ended EXCEPT ![p] = TRUE] \/ ended' = [ended EXCEPT ![p] = FALSE]
        BY <2>1 DEF Hello!Read
      <4>2. ended' \in [Users -> BOOLEAN]
        BY <4>1, Zenon
      <4> QED BY <4>2 DEF HelloLengths
    <3>2. hpc[p] = "open"
      BY <2>1 DEF Hello!Read
    <3> QED BY <2>1, <3>1, <3>2 DEF Hello!Read
  <2>2. CASE Hello!Test(p)
    BY <2>2 DEF Hello!Test, Hello!read
  <2>3. CASE Hello!Take(p)
    BY <2>3 DEF Hello!Take
  <2>4. CASE Hello!StorePtr(p)
    BY <2>4 DEF Hello!StorePtr
  <2> QED BY <1>5, <2>1, <2>2, <2>3, <2>4 DEF Hello!device_read
<1> QED
  BY <1>1, <1>2, <1>3, <1>4, <1>5 DEF Hello!HelloNext

(* A process that reads is the only one inside. *)
LEMMA OnlyReader ==
  ASSUME OpenInv(HelloOpen), hmodule # "out", ~hoverlapped,
         NEW p \in Users, NEW q \in Users, p # q, hpc[p] \notin Outside
  PROVE  hpc[q] \in Outside
BY DEF OpenInv, Alone, HelloOpen

(* A process whose own variables stay, and the text while it reads. *)
LEMMA OwnKeeps ==
  ASSUME NEW q \in Users, OwnPieces(q), hpc'[q] = hpc[q], hgot'[q] = hgot[q], told'[q] = told[q], ended'[q] = ended[q],
         hpc[q] \in InText => UNCHANGED <<msg, msg_Ptr, counter>> /\ hptr'[q] = hptr[q]
  PROVE  OwnPieces(q)'
<1>1. PICK n \in 0 .. 3 :
        /\ hgot[q] = TextPieces(q, n) /\ (ended[q] => n = 3)
        /\ hpc[q] \in InText => msg_Ptr = n
        /\ hpc[q] \in Tests \cup {"set", "away", "oops"} => n = 0 /\ ~ended[q]
        /\ hpc[q] \in {"take", "store_ptr"} => n < 3 /\ ~ended[q]
  BY DEF OwnPieces
<1>2. TextPieces(q, n)' = TextPieces(q, n)
  BY DEF TextPieces, Hello!Piece
<1> QED BY <1>1, <1>2 DEF OwnPieces, InText

(* A process outside that has read nothing.                                *)
LEMMA NoneYet ==
  ASSUME NEW q \in Users, hgot[q] = <<>>, ~ended[q], hpc[q] \in {"away", "oops"}
  PROVE  OwnPieces(q)
<1>1. hgot[q] = TextPieces(q, 0)
  BY DEF TextPieces
<1> QED BY <1>1 DEF OwnPieces, InText

\* A process that will have read n pieces of its own text.
LEMMA OwnShown ==
  ASSUME NEW q \in Users, NEW n \in 0 .. 3, hgot'[q] = TextPieces(q, n)', ended'[q] => n = 3,
         hpc'[q] \in InText => msg_Ptr' = n /\ msg' = told'[q] /\ counter' = told'[q] + 1,
         hpc'[q] \in Tests \cup {"set", "away", "oops"} => n = 0 /\ ~ended'[q],
         hpc'[q] \in {"take", "store_ptr"} => n < 3 /\ ~ended'[q],
         hpc'[q] = "store_ptr" => hptr'[q] = msg_Ptr'
  PROVE  OwnPieces(q)'
BY DEF OwnPieces

(* device_read copies through msg_Ptr, which is everybody's: while a       *)
(* process reads no other can move it, and device_open has set it to 0.    *)
LEMMA HelloRightStep ==
  ASSUME HelloInv, OpenInv(HelloOpen), Hello!HelloNext
  PROVE  HelloRight'
<1>0. /\ HelloTyped /\ HelloTyped' /\ HelloRight
      /\ hmodule = "out" => \A p \in Users : hpc[p] \in {"away", "oops"}
  BY HelloTypedStep DEF HelloInv, OpenInv, Shape, HelloOpen
<1> DEFINE S == [told : Nat, at : Nat]
<1>1. CASE Hello!init_module
  <2>1. \A q \in Users : OwnPieces(q)'
    <3> SUFFICES ASSUME NEW q \in Users PROVE OwnPieces(q)'
      OBVIOUS
    <3>1. hgot'[q] = <<>> /\ ~ended'[q] /\ hpc'[q] \in {"away", "oops"}
      BY <1>0, <1>1 DEF HelloRight, Hello!init_module, Hello!Insmod, Hello!read
    <3>2. hgot'[q] = TextPieces(q, 0)'
      BY <3>1 DEF TextPieces
    <3> QED BY <3>1, <3>2 DEF OwnPieces, InText
  <2> QED BY <1>0, <1>1, <2>1 DEF HelloRight, Hello!init_module, Hello!Insmod, Hello!read
<1>2. CASE Hello!Rmmod /\ UNCHANGED <<Hello!text, Hello!read, told>>
  <2>1. \A q \in Users : OwnPieces(q) => OwnPieces(q)'
    BY <1>2, OwnKeeps DEF Hello!Rmmod, Hello!text, Hello!read
  <2> QED BY <1>0, <1>2, <2>1 DEF HelloRight, Hello!Rmmod, Hello!open, Hello!text, Hello!read
<1>3. CASE Hello!Cleanup /\ Hello!Forget(Users)
  <2>1. \A q \in Users : hgot'[q] = <<>> /\ told'[q] = 0 /\ ~ended'[q]
    BY <1>3 DEF Hello!Forget
  <2>2. hgot' \in [Users -> Seq(S)]
    BY <1>3 DEF Hello!Forget
  <2> QED BY <1>3, <2>1, <2>2 DEF HelloRight, Hello!Cleanup
\* A step of one process.
<1>4. ASSUME NEW p \in Users, Hello!device_open(p) \/ Hello!device_release(p) \/ Hello!device_read(p)
      PROVE  HelloRight'
  <2>0. hmodule' = hmodule /\ (~hoverlapped' => ~hoverlapped)
    <3> USE DEF Hello!open, Hello!kernel
    <3>1. CASE Hello!OpenTest(p)
      BY <3>1 DEF Hello!OpenTest
    <3>2. CASE Hello!device_read(p)
      BY <3>2 DEF Hello!device_read, Hello!Read, Hello!Test, Hello!Take, Hello!StorePtr
    <3>3. CASE Hello!Load(p) \/ Hello!OpenStore(p) \/ Hello!OpenGet(p) \/ Hello!Tell(p)
      BY <3>3 DEF Hello!Load, Hello!OpenStore, Hello!OpenGet, Hello!Tell
    <3>4. CASE Hello!Close(p) \/ Hello!CloseStore(p) \/ Hello!ClosePut(p)
      BY <3>4 DEF Hello!Close, Hello!CloseStore, Hello!ClosePut
    <3> QED BY <1>4, <3>1, <3>2, <3>3, <3>4 DEF Hello!device_open, Hello!device_release
  <2>1. hgot' \in [Users -> Seq(S)]
    <3>1. CASE Hello!StorePtr(p)
      <4>1. Hello!Piece(msg, hptr[p] + 1) \in S
        BY <1>0 DEF HelloTyped, Hello!Piece
      <4>2. Append(hgot[p], Hello!Piece(msg, hptr[p] + 1)) \in Seq(S)
        BY <1>0, <4>1 DEF HelloRight
      <4> QED BY <1>0, <3>1, <4>2 DEF HelloRight, Hello!StorePtr
    <3>2. CASE Hello!Forget({p})
      BY <1>0, <3>2 DEF HelloRight, Hello!Forget
    <3>3. CASE UNCHANGED hgot
      BY <1>0, <3>3 DEF HelloRight
    <3> QED
      BY <1>4, <3>1, <3>2, <3>3 DEF Hello!device_open, Hello!device_release, Hello!device_read, Hello!Tell, Hello!Read, Hello!Test, Hello!Take, Hello!read
  <2>2. CASE hmodule = "out"
    <3>1. hpc[p] \in {"away", "oops"}
      BY <1>0, <2>2
    <3>2. FALSE
      BY <1>4, <2>2, <3>1 DEF Hello!device_open, Hello!device_release, Hello!device_read, Hello!OpenTest, Hello!Load, Hello!OpenStore,
       Hello!OpenGet, Hello!Tell, Hello!Close, Hello!CloseStore, Hello!ClosePut, Hello!Read, Hello!Test, Hello!Take, Hello!StorePtr, Hello!Goto
    <3> QED BY <3>2
  <2>3. ASSUME hmodule # "out", ~hoverlapped', NEW q \in Users PROVE OwnPieces(q)'
    <3>0. OwnPieces(q) /\ OwnPieces(p)
      BY <1>0, <2>0, <2>3 DEF HelloRight
    <3>1. CASE q # p
      <4>1. hpc'[q] = hpc[q] /\ hgot'[q] = hgot[q] /\ told'[q] = told[q] /\ ended'[q] = ended[q] /\ hptr'[q] = hptr[q]
        <5> USE <1>0, <3>1 DEF HelloTyped, HelloRight, Hello!Goto, Hello!text, Hello!read
        <5>1. CASE Hello!device_open(p)
          <6>1. CASE Hello!Tell(p)
            BY <6>1 DEF Hello!Tell
          <6>2. CASE (Hello!OpenTest(p) \/ Hello!Load(p) \/ Hello!OpenStore(p) \/ Hello!OpenGet(p)) /\ UNCHANGED <<Hello!text, Hello!read, told>>
            BY <6>2 DEF Hello!OpenTest, Hello!Load, Hello!OpenStore, Hello!OpenGet
          <6> QED BY <5>1, <6>1, <6>2 DEF Hello!device_open
        <5>2. CASE Hello!device_release(p)
          <6>1. CASE Hello!ClosePut(p) /\ Hello!Forget({p})
            BY <6>1 DEF Hello!ClosePut, Hello!Forget
          <6>2. CASE (Hello!Close(p) \/ Hello!Load(p) \/ Hello!CloseStore(p)) /\ UNCHANGED <<Hello!text, Hello!read, told>>
            BY <6>2 DEF Hello!Close, Hello!Load, Hello!CloseStore
          <6> QED BY <5>2, <6>1, <6>2 DEF Hello!device_release
        <5>3. CASE Hello!device_read(p)
          <6>1. ASSUME NEW n \in HelloLengths, Hello!Read(p, n)
                PROVE  hpc'[q] = hpc[q] /\ hgot'[q] = hgot[q] /\ told'[q] = told[q] /\ ended'[q] = ended[q] /\ hptr'[q] = hptr[q]
            BY <6>1 DEF Hello!Read
          <6>2. CASE Hello!Test(p) \/ Hello!Take(p)
            BY <6>2 DEF Hello!Test, Hello!Take
          <6>3. CASE Hello!StorePtr(p)
            BY <6>3 DEF Hello!StorePtr
          <6> QED BY <5>3, <6>1, <6>2, <6>3 DEF Hello!device_read
        <5> QED BY <1>4, <5>1, <5>2, <5>3
      <4>2. CASE UNCHANGED <<msg, msg_Ptr, counter>>
        BY <3>0, <4>1, <4>2, OwnKeeps
      <4>3. CASE ~UNCHANGED <<msg, msg_Ptr, counter>>
        <5>1. hpc[p] \in {"set", "store_ptr"}
          BY <1>4, <4>3 DEF Hello!device_open, Hello!device_release, Hello!device_read, Hello!Tell, Hello!Read, Hello!Test, Hello!Take, Hello!StorePtr, Hello!Goto, Hello!text, Hello!read
        <5>2. hpc[q] \notin InText
          BY <2>0, <2>3, <3>1, <5>1, OnlyReader DEF Outside, InText
        <5> QED BY <3>0, <4>1, <5>2, OwnKeeps
      <4> QED BY <4>2, <4>3
    <3>2. CASE q = p
      <4> USE <1>0, <3>0, <3>2 DEF HelloTyped, Hello!Goto
      <4>0. PICK n \in 0 .. 3 :
              /\ hgot[p] = TextPieces(p, n) /\ (ended[p] => n = 3)
              /\ hpc[p] \in InText => msg_Ptr = n
              /\ hpc[p] \in Tests \cup {"set", "away", "oops"} => n = 0 /\ ~ended[p]
              /\ hpc[p] \in {"take", "store_ptr"} => n < 3 /\ ~ended[p]
        BY DEF OwnPieces
      <4>1. CASE Hello!Tell(p)
        <5>1. /\ hpc[p] = "set" /\ hpc'[p] = "get" /\ hgot' = hgot /\ ended' = ended /\ told'[p] = counter
              /\ msg' = counter /\ counter' = counter + 1 /\ msg_Ptr' = 0
          BY <4>1 DEF Hello!Tell
        <5>2. n = 0 /\ hgot'[p] = TextPieces(p, 0)'
          BY <4>0, <5>1 DEF TextPieces
        <5> QED BY <4>0, <5>1, <5>2 DEF OwnPieces, InText, Tests
      <4>2. CASE Hello!StorePtr(p)
        <5>1. /\ hpc[p] = "store_ptr" /\ hpc'[p] = "test" /\ msg_Ptr' = hptr[p] + 1
              /\ hgot'[p] = Append(hgot[p], Hello!Piece(msg, hptr[p] + 1))
              /\ UNCHANGED <<msg, counter, told, ended>>
          BY <4>2 DEF Hello!StorePtr, Hello!text, HelloRight
        <5>2. n < 3 /\ hptr[p] = n /\ msg = told[p] /\ counter = told[p] + 1 /\ ~ended[p]
          BY <4>0, <5>1 DEF OwnPieces, InText
        <5>3. hgot'[p] = TextPieces(p, n + 1)'
          <6> DEFINE f == TextPieces(p, n)
                     g == TextPieces(p, n + 1)
          <6>1. f \in Seq(S) /\ g \in Seq(S) /\ Len(f) = n /\ Len(g) = n + 1
            BY DEF TextPieces, Hello!Piece
          <6>2. Hello!Piece(told[p], n + 1) \in S
            BY DEF Hello!Piece
          <6>3. \A k \in 1 .. n : f[k] = Hello!Piece(told[p], k) /\ g[k] = Hello!Piece(told[p], k)
            BY DEF TextPieces
          <6>4. g[n + 1] = Hello!Piece(told[p], n + 1)
            BY DEF TextPieces
          <6> HIDE DEF f, g
          <6>5. Append(f, Hello!Piece(told[p], n + 1)) = g
            BY <6>1, <6>2, <6>3, <6>4, SeqEqual, AppendProperties, SMTT(30)
          <6>6. g' = g
            BY <5>1 DEF g, TextPieces, Hello!Piece
          <6> QED BY <4>0, <5>1, <5>2, <6>5, <6>6 DEF f, g
        <5>4. n + 1 \in 0 .. 3 /\ hpc'[p] \notin Tests \cup {"set", "away", "oops", "take", "store_ptr"}
          BY <5>1, <5>2 DEF Tests
        <5>5. msg_Ptr' = n + 1 /\ msg' = told'[p] /\ counter' = told'[p] + 1 /\ ~ended'[p]
          BY <5>1, <5>2
        <5> QED BY <5>3, <5>4, <5>5, OwnShown
      <4>3. CASE Hello!ClosePut(p) /\ Hello!Forget({p})
        <5>1. hpc'[p] = "away" /\ hgot'[p] = <<>> /\ ~ended'[p]
          BY <4>3 DEF Hello!ClosePut, Hello!Forget
        <5>2. hgot'[p] = TextPieces(p, 0)'
          BY <5>1 DEF TextPieces
        <5> QED BY <5>1, <5>2 DEF OwnPieces, InText, Tests
      <4>4. ASSUME NEW m \in HelloLengths, Hello!Read(p, m) PROVE OwnPieces(p)'
        <5>1. hpc[p] = "open" /\ hpc'[p] \in {"open", "test"} /\ UNCHANGED <<hgot, told, msg, msg_Ptr, counter>>
              /\ (ended'[p] => msg_Ptr = 3)
          BY <4>4 DEF Hello!Read, Hello!text
        <5>2. TextPieces(p, n)' = TextPieces(p, n)
          BY <5>1 DEF TextPieces, Hello!Piece
        <5> QED BY <4>0, <5>1, <5>2 DEF OwnPieces, InText, Tests
      <4>5. CASE /\ UNCHANGED <<msg, counter, hgot, msg_Ptr, told, ended>> /\ ~Hello!Tell(p) /\ ~Hello!StorePtr(p) /\ ~Hello!ClosePut(p)
                 /\ \A m \in HelloLengths : ~Hello!Read(p, m)
        <5>1. TextPieces(p, n)' = TextPieces(p, n)
          BY <4>5 DEF TextPieces, Hello!Piece
        <5>2. UNCHANGED <<msg, counter, hgot, msg_Ptr, told, ended>>
          BY <4>5
        <5>3. \/ hpc[p] = "away" /\ hpc'[p] = "load"
              \/ hpc[p] = "load" /\ hpc'[p] = "store"
              \/ hpc[p] = "store" /\ hpc'[p] = "set"
              \/ hpc[p] = "get" /\ hpc'[p] = "open"
              \/ hpc[p] = "open" /\ hpc'[p] = "reload"
              \/ hpc[p] = "reload" /\ hpc'[p] = "restore"
              \/ hpc[p] = "restore" /\ hpc'[p] = "put"
              \/ hpc[p] = "test" /\ hpc'[p] = "take" /\ msg_Ptr # 3
              \/ hpc[p] = "test" /\ hpc'[p] = "open"
              \/ hpc[p] = "take" /\ hpc'[p] = "store_ptr" /\ hptr'[p] = msg_Ptr
          BY <1>4, <4>5 DEF Hello!device_open, Hello!device_release, Hello!device_read, Hello!OpenTest, Hello!Load, Hello!OpenStore,
             Hello!OpenGet, Hello!Close, Hello!CloseStore, Hello!Test, Hello!Take
        <5>4. hgot'[p] = TextPieces(p, n)' /\ (ended'[p] => n = 3)
          BY <4>0, <5>1, <5>2
        <5>5. hpc'[p] \in InText => msg_Ptr' = n /\ msg' = told'[p] /\ counter' = told'[p] + 1
          BY <4>0, <5>2, <5>3 DEF OwnPieces, InText
        <5>6. hpc'[p] \in Tests \cup {"set", "away", "oops"} => n = 0 /\ ~ended'[p]
          BY <4>0, <5>2, <5>3 DEF Tests
        <5>7. hpc'[p] \in {"take", "store_ptr"} => n < 3 /\ ~ended'[p]
          BY <4>0, <5>2, <5>3 DEF InText
        <5>8. hpc'[p] = "store_ptr" => hptr'[p] = msg_Ptr'
          BY <5>2, <5>3
        <5> QED BY <5>4, <5>5, <5>6, <5>7, <5>8, OwnShown
      <4>6. \/ Hello!Tell(p) \/ Hello!StorePtr(p) \/ (\E m \in HelloLengths : Hello!Read(p, m))
            \/ Hello!ClosePut(p) /\ Hello!Forget({p})
            \/ UNCHANGED <<msg, counter, hgot, msg_Ptr, told, ended>> /\ ~Hello!ClosePut(p)
        <5>1. CASE Hello!device_open(p)
          <6>1. CASE Hello!Tell(p)
            BY <6>1
          <6>2. CASE Hello!OpenTest(p) \/ (Hello!Load(p) /\ hpc[p] = "load") \/ Hello!OpenStore(p) \/ Hello!OpenGet(p)
            <7>1. ~Hello!ClosePut(p)
              BY <6>2 DEF Hello!ClosePut, Hello!OpenTest, Hello!Load, Hello!OpenStore, Hello!OpenGet
            <7>2. UNCHANGED <<Hello!text, Hello!read, told>> \/ Hello!Tell(p)
              BY <5>1 DEF Hello!device_open
            <7> QED BY <7>1, <7>2 DEF Hello!text, Hello!read
          <6> QED BY <5>1, <6>1, <6>2 DEF Hello!device_open
        <5>2. CASE Hello!device_release(p)
          <6>1. CASE Hello!ClosePut(p) /\ Hello!Forget({p})
            BY <6>1
          <6>2. CASE (Hello!Close(p) \/ (hpc[p] = "reload" /\ Hello!Load(p)) \/ Hello!CloseStore(p)) /\ UNCHANGED <<Hello!text, Hello!read, told>>
            <7>1. ~Hello!ClosePut(p)
              BY <6>2 DEF Hello!ClosePut, Hello!Close, Hello!Load, Hello!CloseStore
            <7> QED BY <6>2, <7>1 DEF Hello!text, Hello!read
          <6> QED BY <5>2, <6>1, <6>2 DEF Hello!device_release
        <5>3. CASE Hello!device_read(p)
          <6>1. CASE Hello!Test(p) \/ Hello!Take(p)
            BY <6>1 DEF Hello!Test, Hello!Take, Hello!text, Hello!read, Hello!ClosePut
          <6> QED BY <5>3, <6>1 DEF Hello!device_read
        <5> QED BY <1>4, <5>1, <5>2, <5>3
      <4> QED
        BY <4>1, <4>2, <4>3, <4>4, <4>5, <4>6
    <3> QED BY <3>1, <3>2
  <2> QED BY <2>0, <2>1, <2>2, <2>3 DEF HelloRight
<1> QED
  BY <1>1, <1>2, <1>3, <1>4 DEF Hello!HelloNext, Hello!cleanup_module

(* The six tasks. *)
LEMMA TasksAre ==
  ASSUME parent = Parents, exe = Files
  PROVE  /\ DOMAIN parent = Tasks /\ DOMAIN exe = Tasks /\ \A t \in Tasks : parent[t] \in Tasks
         /\ parent[0] = 0 /\ parent[1] = 0 /\ parent[2] = 0 /\ parent[10] = 1 /\ parent[25] = 2 /\ parent[312] = 10
         /\ \A t \in Tasks, n \in 1 .. MaxTree, path \in Char!Paths : Char!PathOf(t, n, path) \in Char!Paths
<1>1. /\ DOMAIN parent = Tasks /\ DOMAIN exe = Tasks /\ \A t \in Tasks : parent[t] \in Tasks
      /\ parent[0] = 0 /\ parent[1] = 0 /\ parent[2] = 0 /\ parent[10] = 1 /\ parent[25] = 2 /\ parent[312] = 10
  BY DEF Parents, Files, Tasks
<1>2. \A t \in Tasks : exe[t] \in Char!Range(exe)
  BY <1>1 DEF Char!Range
<1>3. \A t \in Tasks, n \in 1 .. MaxTree, path \in Char!Paths : Char!PathOf(t, n, path) \in Char!Paths
  BY <1>2 DEF Char!PathOf, Char!Paths
<1> QED BY <1>1, <1>3

(* The walk of device_read up the tasks: where it can be, the line it makes *)
(* there, and where it goes on.                                            *)
Walks == [n : 1 .. MaxTree, task : DOMAIN parent, path : Char!Paths]
PathAt(s) == Char!PathOf(s.task, s.n, s.path)
LineAt(s) == [path |-> PathAt(s), number |-> Char!int_to_str[s.task]]
UpFrom(s) == [n |-> s.n + 1, task |-> parent[s.task], path |-> PathAt(s)]
EndsAt(s) == s.task = 0 \/ s.n = MaxTree
FirstOf(task) == [n |-> 1, task |-> task, path |-> [file |-> "", caller |-> FALSE]]

(* Where the walk goes on is a place that it can be in. *)
LEMMA WalkUp ==
  ASSUME parent = Parents, exe = Files
  PROVE  \A s \in Walks : ~EndsAt(s) => UpFrom(s) \in Walks /\ UpFrom(s).task = parent[s.task] /\ UpFrom(s).n = s.n + 1
BY TasksAre, DriversAssumption DEF Walks, UpFrom, EndsAt, PathAt

(* It starts at the caller. *)
LEMMA FirstIs ==
  ASSUME parent = Parents, exe = Files, NEW task \in Tasks
  PROVE  FirstOf(task) \in Walks /\ FirstOf(task).task = task /\ FirstOf(task).n = 1
<1>1. [file |-> "", caller |-> FALSE] \in Char!Paths
  BY DEF Char!Paths
<1>2. task \in DOMAIN parent /\ 1 \in 1 .. MaxTree
  BY TasksAre, DriversAssumption
<1> QED BY <1>1, <1>2 DEF FirstOf, Walks

(* The recursion of device_read has a solution, and is one. *)
LEMMA WalkFrom ==
  ASSUME parent = Parents, exe = Files
  PROVE  \E walk : /\ \A task : Char!Report(task) = walk[FirstOf(task)]
                   /\ \A s \in Walks : walk[s] = IF EndsAt(s) THEN <<LineAt(s)>> ELSE Append(walk[UpFrom(s)], LineAt(s))
<1> DEFINE Fun(f) == [s \in Walks |-> IF EndsAt(s) THEN <<LineAt(s)>> ELSE Append(f[UpFrom(s)], LineAt(s))]
           walk == CHOOSE f : f = Fun(f)
<1>1. \A task : Char!Report(task) = walk[FirstOf(task)]
  BY DEF Char!Report, Walks, UpFrom, EndsAt, LineAt, PathAt, FirstOf
<1>3. \E f : f = Fun(f)
  \* The values of the function, a generation at a time.
  <2> DEFINE W0(s) == <<LineAt(s)>>
             W1(s) == IF EndsAt(s) THEN W0(s) ELSE Append(W0(UpFrom(s)), LineAt(s))
             W2(s) == IF EndsAt(s) THEN W0(s) ELSE Append(W1(UpFrom(s)), LineAt(s))
             W3(s) == IF EndsAt(s) THEN W0(s) ELSE Append(W2(UpFrom(s)), LineAt(s))
             g == [s \in Walks |-> W3(s)]
  <2> HIDE DEF W0, W1, W2, W3
  <2>1. \A s \in Walks : EndsAt(s) => W1(s) = W0(s) /\ W2(s) = W0(s) /\ W3(s) = W0(s)
    BY DEF W1, W2, W3
  <2>2. \A s \in Walks : ~EndsAt(s) => /\ W1(s) = Append(W0(UpFrom(s)), LineAt(s)) /\ W2(s) = Append(W1(UpFrom(s)), LineAt(s))
                                       /\ W3(s) = Append(W2(UpFrom(s)), LineAt(s))
    BY DEF W1, W2, W3
  <2>3. \A s \in Walks : s.task = 0 => EndsAt(s)
    BY DEF EndsAt
  <2>4. \A s \in Walks : ~EndsAt(s) => UpFrom(s) \in Walks /\ UpFrom(s).task = parent[s.task]
    BY WalkUp
  <2>5. \A s \in Walks : s.task \in Tasks
    BY TasksAre DEF Walks
  <2>6. \A s \in Walks : s.task \in {1, 2} => W2(s) = W1(s) /\ W3(s) = W1(s)
    <3> SUFFICES ASSUME NEW s \in Walks, s.task \in {1, 2}, ~EndsAt(s) PROVE W2(s) = W1(s) /\ W3(s) = W1(s)
      BY <2>1
    <3>1. UpFrom(s) \in Walks /\ EndsAt(UpFrom(s))
      BY <2>3, <2>4, TasksAre
    <3> QED BY <2>1, <2>2, <3>1
  <2>7. \A s \in Walks : s.task \in {10, 25} => W3(s) = W2(s)
    <3> SUFFICES ASSUME NEW s \in Walks, s.task \in {10, 25}, ~EndsAt(s) PROVE W3(s) = W2(s)
      BY <2>1
    <3>1. UpFrom(s) \in Walks /\ UpFrom(s).task \in {1, 2}
      BY <2>4, TasksAre
    <3> QED BY <2>2, <2>6, <3>1
  <2>8. \A s \in Walks : ~EndsAt(s) => W3(UpFrom(s)) = W2(UpFrom(s))
    <3> SUFFICES ASSUME NEW s \in Walks, ~EndsAt(s) PROVE W3(UpFrom(s)) = W2(UpFrom(s))
      OBVIOUS
    <3>1. UpFrom(s) \in Walks /\ UpFrom(s).task \in {0, 1, 2, 10}
      BY <2>4, <2>5, TasksAre DEF Tasks
    <3> QED BY <2>1, <2>3, <2>6, <2>7, <3>1
  <2>9. g = Fun(g)
    <3>1. ASSUME NEW s \in Walks PROVE W3(s) = IF EndsAt(s) THEN <<LineAt(s)>> ELSE Append(g[UpFrom(s)], LineAt(s))
      <4>1. CASE EndsAt(s)
        BY <2>1, <4>1 DEF W0
      <4>2. CASE ~EndsAt(s)
        <5>1. g[UpFrom(s)] = W3(UpFrom(s))
          BY <2>4, <4>2
        <5> QED BY <2>2, <2>8, <4>2, <5>1
      <4> QED BY <4>1, <4>2
    <3> QED BY <3>1, Zenon
  <2> QED BY <2>9
<1> HIDE DEF Fun
<1>4. walk = Fun(walk)
  BY <1>3, Zenon
<1> HIDE DEF walk
<1>5. \A s \in Walks : walk[s] = IF EndsAt(s) THEN <<LineAt(s)>> ELSE Append(walk[UpFrom(s)], LineAt(s))
  <2>1. walk = [s \in Walks |-> IF EndsAt(s) THEN <<LineAt(s)>> ELSE Append(walk[UpFrom(s)], LineAt(s))]
    BY <1>4 DEF Fun
  <2> QED BY <2>1, Zenon
<1> QED BY <1>1, <1>5

(* A report is a sequence of lines, at most MaxTree: the recursion of      *)
(* device_read ends with task 0, at most three generations up, or with the *)
(* MaxTree-th line.                                                        *)
LEMMA ReportIs ==
  ASSUME parent = Parents, exe = Files, NEW task \in Tasks
  PROVE  Char!Report(task) \in Seq(LineSet) /\ Len(Char!Report(task)) \in 1 .. MaxTree
<1>1. PICK walk : /\ Char!Report(task) = walk[FirstOf(task)]
                  /\ \A s \in Walks : walk[s] = IF EndsAt(s) THEN <<LineAt(s)>> ELSE Append(walk[UpFrom(s)], LineAt(s))
  BY WalkFrom
<1>2. \A s \in Walks : LineAt(s) \in LineSet
  BY TasksAre DEF LineSet, LineAt, PathAt, Walks
<1>3. \A s \in Walks : s.task \in Tasks /\ s.n \in 1 .. MaxTree /\ (s.task = 0 => EndsAt(s)) /\ (~EndsAt(s) => s.n < MaxTree)
  BY TasksAre, DriversAssumption DEF Walks, EndsAt
<1> DEFINE Good(s) == walk[s] \in Seq(LineSet) /\ Len(walk[s]) \in 1 .. MaxTree - s.n + 1
<1>4. \A s \in Walks : EndsAt(s) => Good(s)
  <2> SUFFICES ASSUME NEW s \in Walks, EndsAt(s) PROVE Good(s)
    OBVIOUS
  <2>1. walk[s] = <<LineAt(s)>> /\ LineAt(s) \in LineSet
    BY <1>1, <1>2
  <2> QED BY <1>3, <2>1, DriversAssumption
<1>5. \A s \in Walks : ~EndsAt(s) /\ Good(UpFrom(s)) => Good(s)
  <2> SUFFICES ASSUME NEW s \in Walks, ~EndsAt(s), Good(UpFrom(s)) PROVE Good(s)
    OBVIOUS
  <2>1. walk[s] = Append(walk[UpFrom(s)], LineAt(s)) /\ LineAt(s) \in LineSet /\ s.n \in 1 .. MaxTree
    BY <1>1, <1>2, <1>3
  <2>2. walk[UpFrom(s)] \in Seq(LineSet) /\ Len(walk[UpFrom(s)]) \in 1 .. MaxTree - s.n
    BY WalkUp, <2>1, DriversAssumption
  <2> QED BY <2>1, <2>2, DriversAssumption, AppendProperties
<1>6. FirstOf(task) \in Walks /\ FirstOf(task).n = 1
  BY FirstIs
<1> HIDE DEF Good
<1>7. \A s \in Walks : s.task \in {1, 2} => Good(s)
  BY WalkUp, <1>3, <1>4, <1>5, TasksAre
<1>8. \A s \in Walks : s.task \in {10, 25} => Good(s)
  BY WalkUp, <1>4, <1>5, <1>7, TasksAre
<1>9. \A s \in Walks : Good(s)
  BY WalkUp, <1>3, <1>4, <1>5, <1>7, <1>8, TasksAre DEF Tasks
<1> QED BY <1>1, <1>6, <1>9, DriversAssumption DEF Good

(* The ancestors of a task: three at most before task 0. *)
LEMMA AncestorsAre ==
  ASSUME parent = Parents, exe = Files, NEW task \in Tasks
  PROVE  LET a == Char!Ancestor(task)
         IN /\ a[0] = task /\ a[1] = parent[task]
            /\ MaxTree >= 2 => a[2] = parent[parent[task]]
            /\ MaxTree >= 3 => a[3] = 0
<1> DEFINE Fun(f) == [k \in 0 .. MaxTree |-> IF k = 0 THEN task ELSE parent[f[k - 1]]]
           a == CHOOSE f : f = Fun(f)
<1>1. Char!Ancestor(task) = a
  BY DEF Char!Ancestor
<1>2. parent[parent[parent[task]]] = 0 /\ parent[0] = 0
  BY TasksAre DEF Tasks
<1>3. \E f : f = Fun(f)
  <2> DEFINE g == [k \in 0 .. MaxTree |-> IF k = 0 THEN task ELSE IF k = 1 THEN parent[task]
                                          ELSE IF k = 2 THEN parent[parent[task]] ELSE 0]
  <2>1. ASSUME NEW k \in 0 .. MaxTree
        PROVE  g[k] = IF k = 0 THEN task ELSE parent[g[k - 1]]
    BY <1>2, DriversAssumption
  <2>2. g = Fun(g)
    BY <2>1, Zenon
  <2> QED BY <2>2
<1> HIDE DEF Fun
<1>4. a = Fun(a)
  BY <1>3, Zenon
<1> HIDE DEF a
<1>5. \A k \in 0 .. MaxTree : a[k] = IF k = 0 THEN task ELSE parent[a[k - 1]]
  <2>1. a = [k \in 0 .. MaxTree |-> IF k = 0 THEN task ELSE parent[a[k - 1]]]
    BY <1>4 DEF Fun
  <2> QED BY <2>1, Zenon
<1>6. a[0] = task /\ a[1] = parent[task]
  BY <1>5, DriversAssumption
<1>7. MaxTree >= 2 => a[2] = parent[parent[task]]
  BY <1>5, <1>6, DriversAssumption
<1>8. MaxTree >= 3 => a[3] = 0
  BY <1>2, <1>5, <1>7, DriversAssumption
<1> QED BY <1>1, <1>6, <1>7, <1>8

(* The lines of the callers' reports, the caller's first. *)
Up(n, s) == IF n = 0 THEN s ELSE IF n = 1 THEN UpFrom(s) ELSE IF n = 2 THEN UpFrom(UpFrom(s)) ELSE UpFrom(UpFrom(UpFrom(s)))
LineUp(task, k) == LineAt(Up(k, FirstOf(task)))

(* How many there are. *)
HeightOf(task) ==
  IF task = 312 THEN IF MaxTree >= 4 THEN 4 ELSE MaxTree ELSE IF MaxTree >= 3 THEN 3 ELSE MaxTree

(* So the reports of the callers are to have as many lines. *)
LEMMA HeightIs ==
  ASSUME parent = Parents, exe = Files, NEW task \in {25, 312}
  PROVE  Char!Height(task) = HeightOf(task)
<1> DEFINE a == Char!Ancestor(task)
           Fits(n) == /\ n = MaxTree \/ a[n - 1] = 0
                      /\ \A m \in 1 .. n - 1 : a[m - 1] # 0
           h == HeightOf(task)
<1>1. /\ a[0] = task /\ a[1] = parent[task]
      /\ MaxTree >= 2 => a[2] = parent[parent[task]]
      /\ MaxTree >= 3 => a[3] = 0
  BY AncestorsAre DEF Tasks
<1> HIDE DEF a
<1>2. /\ parent[25] = 2 /\ parent[2] = 0 /\ parent[312] = 10 /\ parent[10] = 1 /\ parent[1] = 0
  BY TasksAre
<1>3. h \in 1 .. MaxTree /\ Fits(h)
  BY <1>1, <1>2, DriversAssumption DEF HeightOf
<1>4. \A n \in 1 .. MaxTree : Fits(n) => n = h
  <2> SUFFICES ASSUME NEW n \in 1 .. MaxTree, Fits(n) PROVE n = h
    OBVIOUS
  <2>1. ~(n < h)
    <3> SUFFICES ASSUME n < h PROVE FALSE
      OBVIOUS
    <3>1. n # MaxTree /\ a[n - 1] = 0
      BY <1>3, DriversAssumption
    <3>2. n \in 1 .. h - 1
      BY <1>3, DriversAssumption
    <3> QED BY <1>3, <3>1, <3>2
  <2>2. ~(h < n)
    <3> SUFFICES ASSUME h < n PROVE FALSE
      OBVIOUS
    <3>1. h # MaxTree /\ a[h - 1] = 0
      BY <1>3, DriversAssumption
    <3>2. h \in 1 .. n - 1
      BY <1>3, DriversAssumption
    <3> QED BY <3>1, <3>2
  <2> QED BY <1>3, <2>1, <2>2, DriversAssumption
<1>5. Char!Height(task) = CHOOSE n \in 1 .. MaxTree : Fits(n)
  BY DEF Char!Height, a
<1> HIDE DEF Fits, h
<1>6. (CHOOSE n \in 1 .. MaxTree : Fits(n)) = h
  BY <1>3, <1>4
<1> QED BY <1>5, <1>6 DEF h
(* Where the walk of a caller is after k tasks. *)
LEMMA WalksUp ==
  ASSUME parent = Parents, exe = Files, NEW task \in {25, 312}
  PROVE  LET at0 == FirstOf(task)
             at1 == UpFrom(at0)
             at2 == UpFrom(at1)
             at3 == UpFrom(at2)
             h == HeightOf(task)
         IN /\ h \in 1 .. 4 /\ h <= MaxTree
            /\ at0 \in Walks /\ at0.task = task /\ at0.n = 1 /\ (EndsAt(at0) <=> h = 1)
            /\ h >= 2 => at1 \in Walks /\ at1.task = parent[task] /\ at1.n = 2 /\ (EndsAt(at1) <=> h = 2)
            /\ h >= 3 => at2 \in Walks /\ at2.task = parent[parent[task]] /\ at2.n = 3 /\ (EndsAt(at2) <=> h = 3)
            /\ h >= 4 => at3 \in Walks /\ at3.task = 0 /\ at3.n = 4 /\ EndsAt(at3)
<1> DEFINE at0 == FirstOf(task)
           at1 == UpFrom(at0)
           at2 == UpFrom(at1)
           at3 == UpFrom(at2)
           h == HeightOf(task)
<1>1. /\ parent[25] = 2 /\ parent[2] = 0 /\ parent[312] = 10 /\ parent[10] = 1 /\ parent[1] = 0
  BY TasksAre
<1>2. h \in 1 .. 4 /\ h <= MaxTree /\ (task = 25 => h <= 3) /\ (h = 3 /\ task = 312 => MaxTree = 3) /\ (h < 3 => MaxTree = h)
  BY DriversAssumption DEF HeightOf
<1>3. at0 \in Walks /\ at0.task = task /\ at0.n = 1
  BY FirstIs DEF Tasks
<1> HIDE DEF h, at0
<1>4. EndsAt(at0) <=> h = 1
  BY <1>2, <1>3, DriversAssumption DEF EndsAt
<1>5. h >= 2 => at1 \in Walks /\ at1.task = parent[task] /\ at1.n = 2
  BY <1>2, <1>3, <1>4, WalkUp
<1> HIDE DEF at1
<1>6. h >= 2 => (EndsAt(at1) <=> h = 2)
  BY <1>1, <1>2, <1>5, DriversAssumption DEF EndsAt
<1>7. h >= 3 => at2 \in Walks /\ at2.task = parent[parent[task]] /\ at2.n = 3
  BY <1>2, <1>5, <1>6, WalkUp
<1> HIDE DEF at2
<1>8. h >= 3 => (EndsAt(at2) <=> h = 3)
  BY <1>1, <1>2, <1>7, DriversAssumption DEF EndsAt
<1>9. h >= 4 => at3 \in Walks /\ at3.task = 0 /\ at3.n = 4
  BY <1>1, <1>2, <1>7, <1>8, WalkUp
<1>10. h >= 4 => EndsAt(at3)
  BY <1>9 DEF EndsAt
<1> QED BY <1>2, <1>3, <1>4, <1>5, <1>6, <1>7, <1>8, <1>9, <1>10 DEF h, at0, at1, at2

(* So a report has the lines of the caller and its ancestors, the eldest   *)
(* first.                                                                  *)
LEMMA ReportHas ==
  ASSUME parent = Parents, exe = Files, NEW task \in {25, 312}
  PROVE  LET h == HeightOf(task)
         IN /\ Char!Report(task) \in Seq(LineSet) /\ Len(Char!Report(task)) = h
            /\ \A k \in 1 .. h : Char!Report(task)[k] = LineUp(task, h - k)
<1>1. PICK walk : /\ Char!Report(task) = walk[FirstOf(task)]
                  /\ \A s \in Walks : walk[s] = IF EndsAt(s) THEN <<LineAt(s)>> ELSE Append(walk[UpFrom(s)], LineAt(s))
  BY WalkFrom
<1> DEFINE at0 == FirstOf(task)
           at1 == UpFrom(at0)
           at2 == UpFrom(at1)
           at3 == UpFrom(at2)
           h == HeightOf(task)
<1>2. /\ h \in 1 .. 4
      /\ at0 \in Walks /\ (EndsAt(at0) <=> h = 1)
      /\ h >= 2 => at1 \in Walks /\ (EndsAt(at1) <=> h = 2)
      /\ h >= 3 => at2 \in Walks /\ (EndsAt(at2) <=> h = 3)
      /\ h >= 4 => at3 \in Walks /\ EndsAt(at3)
  BY WalksUp
<1>3. /\ LineUp(task, 0) = LineAt(at0) /\ LineUp(task, 1) = LineAt(at1)
      /\ LineUp(task, 2) = LineAt(at2) /\ LineUp(task, 3) = LineAt(at3)
  BY DEF LineUp, Up
<1>4. Char!Report(task) \in Seq(LineSet)
  BY ReportIs DEF Tasks
<1>9. /\ walk[at0] = IF EndsAt(at0) THEN <<LineAt(at0)>> ELSE Append(walk[at1], LineAt(at0))
      /\ at1 \in Walks => walk[at1] = IF EndsAt(at1) THEN <<LineAt(at1)>> ELSE Append(walk[at2], LineAt(at1))
      /\ at2 \in Walks => walk[at2] = IF EndsAt(at2) THEN <<LineAt(at2)>> ELSE Append(walk[at3], LineAt(at2))
      /\ at3 \in Walks => walk[at3] = IF EndsAt(at3) THEN <<LineAt(at3)>> ELSE Append(walk[UpFrom(at3)], LineAt(at3))
  <2> HIDE DEF h
  <2>1. walk[at0] = IF EndsAt(at0) THEN <<LineAt(at0)>> ELSE Append(walk[at1], LineAt(at0))
    BY <1>1, <1>2, Zenon
  <2>2. at1 \in Walks => walk[at1] = IF EndsAt(at1) THEN <<LineAt(at1)>> ELSE Append(walk[at2], LineAt(at1))
    BY <1>1, Zenon
  <2>3. at2 \in Walks => walk[at2] = IF EndsAt(at2) THEN <<LineAt(at2)>> ELSE Append(walk[at3], LineAt(at2))
    BY <1>1, Zenon
  <2>4. at3 \in Walks => walk[at3] = IF EndsAt(at3) THEN <<LineAt(at3)>> ELSE Append(walk[UpFrom(at3)], LineAt(at3))
    BY <1>1, Zenon
  <2> QED BY <2>1, <2>2, <2>3, <2>4
<1>10. Char!Report(task) = walk[at0]
  BY <1>1
<1> HIDE DEF h, at0, at1, at2, at3
<1>11. \A s \in Walks : LineAt(s) \in LineSet
  BY TasksAre DEF LineSet, LineAt, PathAt, Walks
<1> HIDE DEF LineSet
<1>5. CASE h = 1
  <2>1. Char!Report(task) = <<LineAt(at0)>>
    BY <1>2, <1>9, <1>10, <1>5, Zenon
  <2> QED BY <1>3, <1>4, <1>5, <2>1 DEF h
<1>6. CASE h = 2
  <2>1. ~EndsAt(at0) /\ at1 \in Walks /\ EndsAt(at1)
    BY <1>2, <1>6
  <2>2. walk[at1] = <<LineAt(at1)>> /\ Char!Report(task) = Append(walk[at1], LineAt(at0))
    BY <1>9, <1>10, <2>1, Zenon
  <2>3. walk[at1] \in Seq(LineSet) /\ Len(walk[at1]) = 1 /\ walk[at1][1] = LineAt(at1)
    BY <1>11, <2>1, <2>2
  <2>4. Len(Char!Report(task)) = 2 /\ Char!Report(task)[1] = LineAt(at1) /\ Char!Report(task)[2] = LineAt(at0)
    BY <1>2, <1>11, <2>2, <2>3, AppendProperties
  <2> QED BY <1>3, <1>4, <1>6, <2>4 DEF h
<1>7. CASE h = 3
  <2>1. ~EndsAt(at0) /\ at1 \in Walks /\ ~EndsAt(at1) /\ at2 \in Walks /\ EndsAt(at2)
    BY <1>2, <1>7
  <2>2. /\ walk[at2] = <<LineAt(at2)>> /\ walk[at1] = Append(walk[at2], LineAt(at1))
        /\ Char!Report(task) = Append(walk[at1], LineAt(at0))
    BY <1>9, <1>10, <2>1, Zenon
  <2>3. walk[at2] \in Seq(LineSet) /\ Len(walk[at2]) = 1 /\ walk[at2][1] = LineAt(at2)
    BY <1>11, <2>1, <2>2
  <2>4. /\ walk[at1] \in Seq(LineSet) /\ Len(walk[at1]) = 2
        /\ walk[at1][1] = LineAt(at2) /\ walk[at1][2] = LineAt(at1)
    BY <1>11, <2>1, <2>2, <2>3, AppendProperties
  <2>5. /\ Len(Char!Report(task)) = 3
        /\ Char!Report(task)[1] = LineAt(at2) /\ Char!Report(task)[2] = LineAt(at1) /\ Char!Report(task)[3] = LineAt(at0)
    BY <1>2, <1>11, <2>2, <2>4, AppendProperties
  <2> QED BY <1>3, <1>4, <1>7, <2>5 DEF h
<1>8. CASE h = 4
  <2>1. ~EndsAt(at0) /\ at1 \in Walks /\ ~EndsAt(at1) /\ at2 \in Walks /\ ~EndsAt(at2) /\ at3 \in Walks /\ EndsAt(at3)
    BY <1>2, <1>8
  <2>2. /\ walk[at3] = <<LineAt(at3)>> /\ walk[at2] = Append(walk[at3], LineAt(at2))
        /\ walk[at1] = Append(walk[at2], LineAt(at1)) /\ Char!Report(task) = Append(walk[at1], LineAt(at0))
    BY <1>9, <1>10, <2>1, Zenon
  <2>3. walk[at3] \in Seq(LineSet) /\ Len(walk[at3]) = 1 /\ walk[at3][1] = LineAt(at3)
    BY <1>11, <2>1, <2>2
  <2>4. /\ walk[at2] \in Seq(LineSet) /\ Len(walk[at2]) = 2
        /\ walk[at2][1] = LineAt(at3) /\ walk[at2][2] = LineAt(at2)
    BY <1>11, <2>1, <2>2, <2>3, AppendProperties
  <2>5. /\ walk[at1] \in Seq(LineSet) /\ Len(walk[at1]) = 3
        /\ walk[at1][1] = LineAt(at3) /\ walk[at1][2] = LineAt(at2) /\ walk[at1][3] = LineAt(at1)
    BY <1>11, <2>1, <2>2, <2>4, AppendProperties
  <2>6. /\ Len(Char!Report(task)) = 4
        /\ Char!Report(task)[1] = LineAt(at3) /\ Char!Report(task)[2] = LineAt(at2)
        /\ Char!Report(task)[3] = LineAt(at1) /\ Char!Report(task)[4] = LineAt(at0)
    BY <1>2, <1>11, <2>2, <2>5, AppendProperties
  <2> QED BY <1>3, <1>4, <1>8, <2>6 DEF h
<1> QED BY <1>2, <1>5, <1>6, <1>7, <1>8 DEF h

(* The name of a task with memory is its own, and that of another the name *)
(* of the task before.                                                     *)
LEMMA NamesAre ==
  ASSUME NEW s
  PROVE  /\ exe[s.task] = "none" => PathAt(s) = s.path
         /\ exe[s.task] # "none" /\ s.n = 1 => PathAt(s) = [file |-> exe[s.task], caller |-> TRUE]
         /\ exe[s.task] # "none" /\ s.n # 1 => PathAt(s) = [file |-> exe[s.task], caller |-> FALSE]
<1>1. PathAt(s) = IF exe[s.task] = "none" THEN s.path ELSE [file |-> exe[s.task], caller |-> s.n = 1]
  BY DEF PathAt, Char!PathOf, Char!None
<1>2. s.n = 1 => (s.n = 1) = TRUE
  OBVIOUS
<1>3. s.n # 1 => (s.n = 1) = FALSE
  OBVIOUS
<1> QED BY <1>1, <1>2, <1>3, Zenon

(* What its lines say: the name of a kernel thread, and of task 0, is that *)
(* of the task before.                                                     *)
LEMMA LinesSay ==
  ASSUME parent = Parents, exe = Files, NEW task \in {25, 312}
  PROVE  LET Says(k, t, file, caller) ==
               LineUp(task, k) = [path |-> [file |-> file, caller |-> caller], number |-> Char!int_to_str[t]]
             h == HeightOf(task)
         IN /\ Says(0, task, exe[task], TRUE)
            /\ h >= 2 => IF task = 312 THEN Says(1, 10, "sh", FALSE) ELSE Says(1, 2, "helper", TRUE)
            /\ h >= 3 => IF task = 312 THEN Says(2, 1, "init", FALSE) ELSE Says(2, 0, "helper", TRUE)
            /\ h >= 4 => Says(3, 0, "init", FALSE)
<1> DEFINE at0 == FirstOf(task)
           at1 == UpFrom(at0)
           at2 == UpFrom(at1)
           at3 == UpFrom(at2)
           h == HeightOf(task)
<1>1. /\ parent[25] = 2 /\ parent[2] = 0 /\ parent[312] = 10 /\ parent[10] = 1 /\ parent[1] = 0
  BY TasksAre
<1>2. /\ exe[0] = "none" /\ exe[1] = "init" /\ exe[2] = "none" /\ exe[10] = "sh" /\ exe[25] = "helper" /\ exe[312] = "ioctl_test"
  BY DEF Files, Tasks
<1>3. /\ h \in 1 .. 4 /\ at0.task = task /\ at0.n = 1
      /\ h >= 2 => at1.task = parent[task] /\ at1.n = 2
      /\ h >= 3 => at2.task = parent[parent[task]] /\ at2.n = 3
      /\ h >= 4 => at3.task = 0 /\ at3.n = 4
      /\ task = 25 => h <= 3
  <2>1. task = 25 => h <= 3
    BY DriversAssumption DEF HeightOf
  <2> QED BY <2>1, WalksUp
<1>4. at1.path = PathAt(at0) /\ at2.path = PathAt(at1) /\ at3.path = PathAt(at2)
  BY DEF UpFrom
<1>5. /\ LineUp(task, 0) = LineAt(at0) /\ LineUp(task, 1) = LineAt(at1)
      /\ LineUp(task, 2) = LineAt(at2) /\ LineUp(task, 3) = LineAt(at3)
  BY DEF LineUp, Up
<1> HIDE DEF h, at0, at1, at2, at3
<1>6. PathAt(at0) = [file |-> exe[task], caller |-> TRUE]
  BY <1>2, <1>3, NamesAre
<1>7. h >= 2 => PathAt(at1) = IF task = 312 THEN [file |-> "sh", caller |-> FALSE] ELSE [file |-> "helper", caller |-> TRUE]
  BY <1>1, <1>2, <1>3, <1>4, <1>6, NamesAre
<1>8. h >= 3 => PathAt(at2) = IF task = 312 THEN [file |-> "init", caller |-> FALSE] ELSE [file |-> "helper", caller |-> TRUE]
  BY <1>1, <1>2, <1>3, <1>4, <1>7, NamesAre
<1>9. h >= 4 => PathAt(at3) = [file |-> "init", caller |-> FALSE]
  BY <1>1, <1>2, <1>3, <1>4, <1>8, NamesAre
<1> QED BY <1>1, <1>3, <1>5, <1>6, <1>7, <1>8, <1>9 DEF LineAt, h
(* The nearest descendant of the k-th ancestor that has memory.            *)
NearestOf(task, k) == IF task = 25 THEN 0 ELSE IF k = 3 THEN 2 ELSE k
LEMMA NearestIs ==
  ASSUME parent = Parents, exe = Files, NEW task \in {25, 312}, NEW k \in 0 .. HeightOf(task) - 1
  PROVE  NearestOf(task, k) =
           CHOOSE x \in 0 .. k : /\ exe[Char!Ancestor(task)[x]] # Char!None
                                /\ \A y \in x + 1 .. k : exe[Char!Ancestor(task)[y]] = Char!None
<1> DEFINE a == Char!Ancestor(task)
           Near(x) == exe[a[x]] # "none" /\ \A y \in x + 1 .. k : exe[a[y]] = "none"
           j == NearestOf(task, k)
<1>1. /\ a[0] = task /\ a[1] = parent[task]
      /\ MaxTree >= 2 => a[2] = parent[parent[task]]
      /\ MaxTree >= 3 => a[3] = 0
  BY AncestorsAre DEF Tasks
<1> HIDE DEF a
<1>2. /\ parent[25] = 2 /\ parent[2] = 0 /\ parent[312] = 10 /\ parent[10] = 1 /\ parent[1] = 0
  BY TasksAre
<1>3. /\ exe[0] = "none" /\ exe[1] = "init" /\ exe[2] = "none" /\ exe[10] = "sh" /\ exe[25] = "helper" /\ exe[312] = "ioctl_test"
  BY DEF Files, Tasks
<1>4. k \in 0 .. 3 /\ k < MaxTree /\ (task = 25 => k <= 2)
  BY DriversAssumption DEF HeightOf
<1>5. j \in 0 .. k
  BY <1>4 DEF NearestOf
<1>6. Near(j)
  <2>1. exe[a[j]] # "none"
    <3>1. CASE task = 25
      BY <1>1, <1>3, <3>1 DEF NearestOf
    <3>2. CASE task = 312
      <4>1. (k = 0 => a[k] = 312) /\ (k = 1 => a[k] = 10) /\ (k = 2 => a[k] = 1) /\ (k = 3 => a[2] = 1)
        BY <1>1, <1>2, <1>4, <3>2, DriversAssumption
      <4>2. (k < 3 => j = k) /\ (k = 3 => j = 2)
        BY <1>4, <3>2 DEF NearestOf
      <4> QED BY <1>3, <1>4, <4>1, <4>2
    <3> QED BY <3>1, <3>2
  <2>2. \A y \in j + 1 .. k : exe[a[y]] = "none"
    <3> SUFFICES ASSUME NEW y \in j + 1 .. k PROVE exe[a[y]] = "none"
      OBVIOUS
    <3>1. CASE task = 25
      <4>1. y \in {1, 2} /\ (y = 2 => MaxTree >= 2)
        BY <1>4, <1>5, <3>1, DriversAssumption DEF NearestOf
      <4>2. a[y] = IF y = 1 THEN 2 ELSE 0
        BY <1>1, <1>2, <3>1, <4>1
      <4> QED BY <1>3, <4>1, <4>2
    <3>2. CASE task = 312
      <4>1. y = 3 /\ MaxTree >= 3
        BY <1>4, <1>5, <3>2, DriversAssumption DEF NearestOf
      <4> QED BY <1>1, <1>3, <4>1
    <3> QED BY <3>1, <3>2
  <2> QED BY <2>1, <2>2
<1>7. \A x \in 0 .. k : Near(x) => x = j
  <2> SUFFICES ASSUME NEW x \in 0 .. k, Near(x), x # j PROVE FALSE
    OBVIOUS
  <2> HIDE DEF j
  <2>1. j < x => x \in j + 1 .. k
    BY <1>5
  <2>2. x < j => j \in x + 1 .. k
    BY <1>5
  <2> QED BY <1>5, <1>6, <2>1, <2>2
<1> HIDE DEF Near, j
<1>8. (CHOOSE x \in 0 .. k : Near(x)) = j
  BY <1>5, <1>6, <1>7
<1> QED BY <1>8 DEF Near, j, a, Char!None

(* What a report should say, line for line. *)
LEMMA ToldHas ==
  ASSUME parent = Parents, exe = Files, NEW task \in {25, 312}
  PROVE  LET h == HeightOf(task)
         IN /\ Char!Told(task) = [n \in 1 .. h |-> Char!Told(task)[n]]
            /\ \A n \in 1 .. h : Char!Told(task)[n] = LineUp(task, h - n)
<1> DEFINE a == Char!Ancestor(task)
           h == HeightOf(task)
           Of(j, k) == [path |-> [file |-> exe[a[j]], caller |-> j = 0], number |-> Char!int_to_str[a[k]]]
<1>1. Char!Told(task) = [n \in 1 .. h |-> Of(NearestOf(task, h - n), h - n)]
  <2>1. Char!Height(task) = h
    BY HeightIs
  <2>2. h \in 1 .. 4
    BY WalksUp
  <2>3. \A n \in 1 .. h : h - n \in 0 .. h - 1
    BY <2>2
  <2> HIDE DEF h
  <2> DEFINE Chosen(k) == CHOOSE x \in 0 .. k : /\ exe[Char!Ancestor(task)[x]] # Char!None
                                            /\ \A y \in x + 1 .. k : exe[Char!Ancestor(task)[y]] = Char!None
  <2>4. \A k \in 0 .. h - 1 : Chosen(k) = NearestOf(task, k)
    BY NearestIs DEF h
  <2>5. Char!Told(task) = [n \in 1 .. h |-> Of(Chosen(h - n), h - n)]
    BY <2>1 DEF Char!Told
  <2> HIDE DEF Chosen, Of
  <2>6. ASSUME NEW n \in 1 .. h PROVE Of(Chosen(h - n), h - n) = Of(NearestOf(task, h - n), h - n)
    <3>1. h - n \in 0 .. h - 1
      BY <2>3
    <3>2. Chosen(h - n) = NearestOf(task, h - n)
      BY <2>4, <3>1
    <3> QED BY <3>2, Zenon
  <2> DEFINE Chose(n) == Of(Chosen(h - n), h - n)
             Nearest(n) == Of(NearestOf(task, h - n), h - n)
  <2>7. Char!Told(task) = [n \in 1 .. h |-> Chose(n)] /\ \A n \in 1 .. h : Chose(n) = Nearest(n)
    BY <2>5, <2>6
  <2> HIDE DEF Chose, Nearest
  <2>8. Char!Told(task) = [n \in 1 .. h |-> Nearest(n)]
    BY <2>7
  <2> QED BY <2>8 DEF Nearest
<1>2. /\ a[0] = task /\ a[1] = parent[task]
      /\ MaxTree >= 2 => a[2] = parent[parent[task]]
      /\ MaxTree >= 3 => a[3] = 0
  BY AncestorsAre DEF Tasks
<1> HIDE DEF a
<1>3. /\ parent[25] = 2 /\ parent[2] = 0 /\ parent[312] = 10 /\ parent[10] = 1 /\ parent[1] = 0
  BY TasksAre
<1>4. /\ exe[0] = "none" /\ exe[1] = "init" /\ exe[2] = "none" /\ exe[10] = "sh" /\ exe[25] = "helper" /\ exe[312] = "ioctl_test"
  BY DEF Files, Tasks
<1> DEFINE Says(k, t, file, caller) ==
             LineUp(task, k) = [path |-> [file |-> file, caller |-> caller], number |-> Char!int_to_str[t]]
<1>5. /\ h \in 1 .. 4 /\ h <= MaxTree /\ (task = 25 => h <= 3)
  <2>1. task = 25 => h <= 3
    BY DriversAssumption DEF HeightOf
  <2> QED BY <2>1, WalksUp
<1>6. /\ Says(0, task, exe[task], TRUE)
      /\ h >= 2 => IF task = 312 THEN Says(1, 10, "sh", FALSE) ELSE Says(1, 2, "helper", TRUE)
      /\ h >= 3 => IF task = 312 THEN Says(2, 1, "init", FALSE) ELSE Says(2, 0, "helper", TRUE)
      /\ h >= 4 => Says(3, 0, "init", FALSE)
  BY LinesSay
<1>7. ASSUME NEW k \in 0 .. h - 1 PROVE Of(NearestOf(task, k), k) = LineUp(task, k)
  <2> DEFINE j == NearestOf(task, k)
             file == exe[a[j]]
  <2>1. k \in 0 .. 3 /\ k < h
    BY <1>5
  <2>2. Of(j, k) = [path |-> [file |-> file, caller |-> j = 0], number |-> Char!int_to_str[a[k]]]
    OBVIOUS
  <2> HIDE DEF Of, h
  <2>3. (j = 0) \in BOOLEAN
    OBVIOUS
  <2>4. CASE task = 25
    <3>1. j = 0 /\ (j = 0) = TRUE
      BY <2>4 DEF NearestOf
    <3>2. file = "helper"
      BY <1>2, <1>4, <2>4, <3>1
    <3>3. a[k] = IF k = 0 THEN 25 ELSE IF k = 1 THEN 2 ELSE 0
      BY <1>2, <1>3, <1>5, <2>1, <2>4, DriversAssumption
    <3> HIDE DEF j, file
    <3>4. Says(k, a[k], "helper", TRUE)
      BY <1>4, <1>5, <1>6, <2>1, <2>4, <3>3
    <3> QED BY <2>2, <3>1, <3>2, <3>4, Zenon DEF Says, j
  <2>5. CASE task = 312
    <3>1. j = IF k = 3 THEN 2 ELSE k
      BY <2>5 DEF NearestOf
    <3>2. a[k] = IF k = 0 THEN 312 ELSE IF k = 1 THEN 10 ELSE IF k = 2 THEN 1 ELSE 0
      BY <1>2, <1>3, <1>5, <2>1, <2>5, DriversAssumption
    <3>3. a[j] = IF k = 0 THEN 312 ELSE IF k = 1 THEN 10 ELSE 1
      BY <1>2, <1>3, <1>5, <2>1, <2>5, <3>1, DriversAssumption
    <3>4. file = IF k = 0 THEN "ioctl_test" ELSE IF k = 1 THEN "sh" ELSE "init"
      BY <1>4, <2>1, <3>3
    <3>5. (k = 0 => (j = 0) = TRUE) /\ (k # 0 => (j = 0) = FALSE)
      BY <2>1, <3>1
    <3> HIDE DEF j, file
    <3>6. CASE k = 0
      <4>1. Says(k, a[k], file, TRUE)
        BY <1>4, <1>6, <2>5, <3>2, <3>4, <3>6
      <4> QED BY <2>2, <3>5, <3>6, <4>1, Zenon DEF Says, j
    <3>7. CASE k # 0
      <4>1. Says(k, a[k], file, FALSE)
        BY <1>5, <1>6, <2>1, <2>5, <3>2, <3>4, <3>7
      <4> QED BY <2>2, <3>5, <3>7, <4>1, Zenon DEF Says, j
    <3> QED BY <3>6, <3>7
  <2> QED BY <2>4, <2>5
<1> HIDE DEF Of, h
<1>8. \A n \in 1 .. h : h - n \in 0 .. h - 1
  BY <1>5
<1>9. ASSUME NEW n \in 1 .. h PROVE Char!Told(task)[n] = LineUp(task, h - n)
  <2>1. Char!Told(task)[n] = Of(NearestOf(task, h - n), h - n)
    BY <1>1
  <2>2. h - n \in 0 .. h - 1
    BY <1>8
  <2> QED BY <1>7, <2>1, <2>2
<1>11. Char!Told(task) = [n \in 1 .. h |-> Char!Told(task)[n]]
  BY <1>1
<1> QED BY <1>9, <1>11 DEF h
(* How a line is moved.                                                    *)
Spaces(k) == [m \in 1 .. k |-> " "]

(* Three sequences behind one another, in whichever order they are joined. *)
LEMMA ConcatThree ==
  ASSUME NEW S, NEW x \in Seq(S), NEW y \in Seq(S), NEW z \in Seq(S)
  PROVE  x \o (y \o z) = (x \o y) \o z /\ x \o y \in Seq(S)
OBVIOUS

(* What ioctl_test has built, line by line. *)
LEMMA FormatterIs ==
  ASSUME NEW S, NEW text \in Seq(S), Len(text) <= 4
  PROVE  \E res : /\ Char!string_formatter(text) = res[Len(text)]
                  /\ \A k \in 0 .. Len(text) :
                       res[k] = IF k = 0 THEN <<>> ELSE (res[k - 1] \o <<text[k]>>) \o Spaces(k)
<1> DEFINE Fun(f) == [k \in 0 .. Len(text) |-> IF k = 0 THEN <<>> ELSE (f[k - 1] \o <<text[k]>>) \o Spaces(k)]
           res == CHOOSE f : f = Fun(f)
<1>1. Char!string_formatter(text) = res[Len(text)]
  BY DEF Char!string_formatter, Spaces
<1>2. \E f : f = Fun(f)
  <2> DEFINE R1 == (<<>> \o <<text[1]>>) \o Spaces(1)
             R2 == (R1 \o <<text[2]>>) \o Spaces(2)
             R3 == (R2 \o <<text[3]>>) \o Spaces(3)
             R4 == (R3 \o <<text[4]>>) \o Spaces(4)
             g == [k \in 0 .. Len(text) |-> IF k = 0 THEN <<>> ELSE IF k = 1 THEN R1 ELSE IF k = 2 THEN R2
                                            ELSE IF k = 3 THEN R3 ELSE R4]
  <2>1. ASSUME NEW k \in 0 .. Len(text)
        PROVE  g[k] = IF k = 0 THEN <<>> ELSE (g[k - 1] \o <<text[k]>>) \o Spaces(k)
    <3>1. k \in {0, 1, 2, 3, 4} /\ (k # 0 => k - 1 \in 0 .. Len(text))
      OBVIOUS
    <3> HIDE DEF R1, R2, R3, R4
    <3>2. /\ R1 = (<<>> \o <<text[1]>>) \o Spaces(1) /\ R2 = (R1 \o <<text[2]>>) \o Spaces(2)
          /\ R3 = (R2 \o <<text[3]>>) \o Spaces(3) /\ R4 = (R3 \o <<text[4]>>) \o Spaces(4)
      BY DEF R1, R2, R3, R4
    <3>3. g[k] = IF k = 0 THEN <<>> ELSE IF k = 1 THEN R1 ELSE IF k = 2 THEN R2 ELSE IF k = 3 THEN R3 ELSE R4
      OBVIOUS
    <3>4. k # 0 => g[k - 1] = IF k = 1 THEN <<>> ELSE IF k = 2 THEN R1 ELSE IF k = 3 THEN R2 ELSE R3
      BY <3>1
    <3> HIDE DEF g
    <3> QED BY <3>1, <3>2, <3>3, <3>4
  <2>2. g = Fun(g)
    BY <2>1, Zenon
  <2> QED BY <2>2
<1> HIDE DEF Fun
<1>3. res = Fun(res)
  BY <1>2, Zenon
<1> HIDE DEF res
<1>4. \A k \in 0 .. Len(text) : res[k] = IF k = 0 THEN <<>> ELSE (res[k - 1] \o <<text[k]>>) \o Spaces(k)
  <2>1. res = [k \in 0 .. Len(text) |-> IF k = 0 THEN <<>> ELSE (res[k - 1] \o <<text[k]>>) \o Spaces(k)]
    BY <1>3 DEF Fun
  <2> QED BY <2>1, Zenon
<1> QED BY <1>1, <1>4

(* A staircase, step by step. *)
LEMMA StairsAre ==
  ASSUME NEW S, NEW text \in Seq(S), Len(text) \in 1 .. 4
  PROVE  \E steps : /\ Char!Stairs(text) = steps[Len(text)]
                    /\ \A k \in 1 .. Len(text) :
                         steps[k] = IF k = 1 THEN Spaces(0) \o <<text[1]>> ELSE steps[k - 1] \o (Spaces(k - 1) \o <<text[k]>>)
<1> DEFINE Part(k) == [m \in 1 .. k - 1 |-> " "] \o <<text[k]>>
           parts == [k \in DOMAIN text |-> Part(k)]
           Fun(f) == [n \in 1 .. Len(parts) |-> IF n = 1 THEN parts[n] ELSE f[n - 1] \o parts[n]]
           steps == CHOOSE f : f = Fun(f)
<1>1. DOMAIN text = 1 .. Len(text) /\ Len(text) \in Nat
  BY LenProperties
<1>4. Char!Stairs(text) = Char!FlattenSeq(parts)
  BY DEF Char!Stairs
<1>10. \A k \in 1 .. Len(text) : Part(k) = Spaces(k - 1) \o <<text[k]>>
  BY DEF Spaces
<1> HIDE DEF Part
<1>2. Len(parts) = Len(text) /\ parts # <<>>
  BY <1>1, SMTT(30)
<1>3. \A k \in 1 .. Len(text) : parts[k] = Spaces(k - 1) \o <<text[k]>>
  BY <1>1, <1>10
<1> HIDE DEF parts
<1>5. Char!FlattenSeq(parts) = steps[Len(parts)]
  BY <1>2 DEF Char!FlattenSeq
<1>6. \E f : f = Fun(f)
  <2> DEFINE P2 == parts[1] \o parts[2]
             P3 == P2 \o parts[3]
             P4 == P3 \o parts[4]
             g == [n \in 1 .. Len(parts) |-> IF n = 1 THEN parts[1] ELSE IF n = 2 THEN P2 ELSE IF n = 3 THEN P3 ELSE P4]
  <2>1. ASSUME NEW n \in 1 .. Len(parts)
        PROVE  g[n] = IF n = 1 THEN parts[n] ELSE g[n - 1] \o parts[n]
    <3>1. n \in {1, 2, 3, 4} /\ (n # 1 => n - 1 \in 1 .. Len(parts))
      BY <1>2
    <3> HIDE DEF P2, P3, P4
    <3>2. P2 = parts[1] \o parts[2] /\ P3 = P2 \o parts[3] /\ P4 = P3 \o parts[4]
      BY DEF P2, P3, P4
    <3>3. g[n] = IF n = 1 THEN parts[1] ELSE IF n = 2 THEN P2 ELSE IF n = 3 THEN P3 ELSE P4
      OBVIOUS
    <3>4. n # 1 => g[n - 1] = IF n = 2 THEN parts[1] ELSE IF n = 3 THEN P2 ELSE P3
      BY <3>1
    <3> HIDE DEF g
    <3> QED BY <3>1, <3>2, <3>3, <3>4
  <2>2. g = Fun(g)
    BY <2>1, Zenon
  <2> QED BY <2>2
<1> HIDE DEF Fun
<1>7. steps = Fun(steps)
  BY <1>6, Zenon
<1> HIDE DEF steps
<1>8. \A k \in 1 .. Len(text) : steps[k] = IF k = 1 THEN parts[k] ELSE steps[k - 1] \o parts[k]
  <2>1. steps = [n \in 1 .. Len(parts) |-> IF n = 1 THEN parts[n] ELSE steps[n - 1] \o parts[n]]
    BY <1>7 DEF Fun
  <2> QED BY <1>2, <2>1, Zenon
<1>9. \A k \in 1 .. Len(text) :
        steps[k] = IF k = 1 THEN Spaces(0) \o <<text[1]>> ELSE steps[k - 1] \o (Spaces(k - 1) \o <<text[k]>>)
  <2> SUFFICES ASSUME NEW k \in 1 .. Len(text)
               PROVE  steps[k] = IF k = 1 THEN Spaces(0) \o <<text[1]>> ELSE steps[k - 1] \o (Spaces(k - 1) \o <<text[k]>>)
    OBVIOUS
  <2>1. steps[k] = IF k = 1 THEN parts[k] ELSE steps[k - 1] \o parts[k]
    BY <1>8
  <2>2. parts[k] = Spaces(k - 1) \o <<text[k]>>
    BY <1>3
  <2>3. CASE k = 1
    <3>1. k - 1 = 0
      BY <2>3
    <3> QED BY <2>1, <2>2, <2>3, <3>1, Zenon
  <2>4. CASE k # 1
    BY <2>1, <2>2, <2>4, Zenon
  <2> QED BY <2>3, <2>4
<1> QED BY <1>2, <1>4, <1>5, <1>9

(* What ioctl_test prints is a staircase, with spaces behind it. *)
LEMMA Staircase ==
  ASSUME NEW S, NEW text \in Seq(S), Len(text) \in 1 .. 4
  PROVE  Char!IsPrefix(Char!Stairs(text), Char!string_formatter(text))
<1> DEFINE T == S \cup {" "}
           n == Len(text)
<1>1. PICK res : /\ Char!string_formatter(text) = res[n]
                 /\ \A k \in 0 .. n : res[k] = IF k = 0 THEN <<>> ELSE (res[k - 1] \o <<text[k]>>) \o Spaces(k)
  BY FormatterIs
<1>2. PICK steps : /\ Char!Stairs(text) = steps[n]
                   /\ \A k \in 1 .. n :
                        steps[k] = IF k = 1 THEN Spaces(0) \o <<text[1]>> ELSE steps[k - 1] \o (Spaces(k - 1) \o <<text[k]>>)
  BY StairsAre
<1>8. n \in 1 .. 4
  OBVIOUS
<1>11. \A k \in 1 .. n : text[k] \in T
  <2>1. \A k \in 1 .. n : text[k] \in S
    BY ElementOfSeq
  <2> QED BY <2>1
<1> HIDE DEF n
<1>3. \A k \in 0 .. 4 : Spaces(k) \in Seq(T)
  BY DEF Spaces
<1>4. ASSUME NEW k \in 1 .. n PROVE <<text[k]>> \in Seq(T)
  <2>1. text[k] \in T
    BY <1>11
  <2> HIDE DEF T
  <2> QED BY <2>1
<1>12. \A k \in 2 .. n : k \in 0 .. n /\ k \in 1 .. n /\ k # 0 /\ k # 1 /\ k \in 0 .. 4 /\ k - 1 \in 0 .. 4
  BY <1>8
<1> DEFINE Good(k) == steps[k] \in Seq(T) /\ res[k] = steps[k] \o Spaces(k)
<1>5. Good(1)
  <2>1. res[0] = <<>> /\ res[1] = (res[0] \o <<text[1]>>) \o Spaces(1)
    <3>1. /\ 0 \in 0 .. n /\ 1 \in 0 .. n /\ 1 # 0 /\ 1 - 1 = 0
      BY <1>8
    <3> QED BY <1>1, <3>1, Zenon
  <2>2. steps[1] = Spaces(0) \o <<text[1]>>
    <3>1. 1 \in 1 .. n
      BY <1>8
    <3> QED BY <1>2, <3>1, Zenon
  <2>3. Spaces(0) = <<>>
    BY DEF Spaces
  <2> DEFINE line == <<text[1]>>
  <2>4. line \in Seq(T)
    <3>1. 1 \in 1 .. n
      BY <1>8
    <3> HIDE DEF T
    <3> QED BY <1>4, <3>1
  <2> HIDE DEF line, T
  <2>5. <<>> \o line = line
    BY <2>4
  <2>6. steps[1] = line /\ res[1] = line \o Spaces(1)
    BY <2>1, <2>2, <2>3, <2>5, Zenon DEF line
  <2> QED BY <2>4, <2>6
<1>6. \A k \in 2 .. n : Good(k - 1) => Good(k)
  <2> SUFFICES ASSUME NEW k \in 2 .. n, Good(k - 1) PROVE Good(k)
    OBVIOUS
  <2> DEFINE old == steps[k - 1]
             gap == Spaces(k - 1)
             line == <<text[k]>>
             end == Spaces(k)
  <2>5. k \in 0 .. n /\ k \in 1 .. n /\ k # 0 /\ k # 1 /\ k \in 0 .. 4 /\ k - 1 \in 0 .. 4
    BY <1>12
  <2>1. old \in Seq(T) /\ gap \in Seq(T) /\ line \in Seq(T) /\ end \in Seq(T)
    <3> HIDE DEF T
    <3> QED BY <1>3, <1>4, <2>5
  <2>2. res[k] = ((old \o gap) \o line) \o end
    <3>1. res[k] = (res[k - 1] \o <<text[k]>>) \o Spaces(k)
      <4> QED BY <1>1, <2>5, Zenon
    <3> QED BY <3>1, Zenon
  <2>3. steps[k] = old \o (gap \o line)
    <3>1. steps[k] = steps[k - 1] \o (Spaces(k - 1) \o <<text[k]>>)
      <4> QED BY <1>2, <2>5, Zenon
    <3> QED BY <3>1
  <2> HIDE DEF old, gap, line, end, T
  <2>4. old \o (gap \o line) = (old \o gap) \o line /\ (old \o gap) \o line \in Seq(T)
    BY <2>1, ConcatThree, SMTT(30)
  <2> QED BY <2>2, <2>3, <2>4 DEF end
<1> HIDE DEF Good
<1>7. Good(n)
  <2>1. n >= 2 => Good(2)
    <3> SUFFICES ASSUME n >= 2 PROVE Good(2)
      OBVIOUS
    <3>1. 2 \in 2 .. n /\ 2 - 1 = 1
      BY <1>8
    <3> QED BY <1>5, <1>6, <3>1
  <2>2. n >= 3 => Good(3)
    <3> SUFFICES ASSUME n >= 3 PROVE Good(3)
      OBVIOUS
    <3>1. 3 \in 2 .. n /\ 3 - 1 = 2 /\ n >= 2
      BY <1>8
    <3> QED BY <1>6, <2>1, <3>1
  <2>3. n >= 4 => Good(4)
    <3> SUFFICES ASSUME n >= 4 PROVE Good(4)
      OBVIOUS
    <3>1. 4 \in 2 .. n /\ 4 - 1 = 3 /\ n >= 3
      BY <1>8
    <3> QED BY <1>6, <2>2, <3>1
  <2> QED BY <1>5, <1>8, <2>1, <2>2, <2>3
<1> HIDE DEF T
<1> DEFINE st == steps[n]
           sp == Spaces(n)
<1>9. st \in Seq(T) /\ sp \in Seq(T) /\ res[n] = st \o sp
  BY <1>3, <1>7, <1>8 DEF Good
<1> HIDE DEF st, sp
<1>10. Char!IsPrefix(st, st \o sp)
  BY <1>9 DEF Char!IsPrefix
<1> QED BY <1>1, <1>2, <1>9, <1>10 DEF st

(* Nothing is printed of nothing. *)
LEMMA NoStairs ==
  Char!IsPrefix(Char!Stairs(<<>>), Char!string_formatter(<<>>))
<1> DEFINE Part(k) == [m \in 1 .. k - 1 |-> " "] \o <<<<>>[k]>>
           parts == [k \in DOMAIN <<>> |-> Part(k)]
<1>1. Char!Stairs(<<>>) = Char!FlattenSeq(parts)
  BY DEF Char!Stairs
<1> HIDE DEF Part
<1>2. parts = <<>> /\ Len(parts) = 0
  OBVIOUS
<1> HIDE DEF parts
<1>3. Char!FlattenSeq(parts) = <<>>
  BY <1>2 DEF Char!FlattenSeq
<1>4. Char!string_formatter(<<>>) = <<>>
  <2> DEFINE none == <<>>
  <2>1. none \in Seq({0}) /\ Len(none) = 0 /\ Len(none) <= 4
    OBVIOUS
  <2> HIDE DEF none
  <2>2. PICK res : /\ Char!string_formatter(none) = res[Len(none)]
                   /\ \A k \in 0 .. Len(none) :
                        res[k] = IF k = 0 THEN <<>> ELSE (res[k - 1] \o <<none[k]>>) \o Spaces(k)
    BY <2>1, FormatterIs, Zenon
  <2>3. res[0] = <<>>
    BY <2>1, <2>2
  <2>4. Char!string_formatter(none) = <<>>
    BY <2>1, <2>2, <2>3
  <2> QED BY <2>4 DEF none
<1>5. Char!IsPrefix(<<>>, <<>>)
  BY DEF Char!IsPrefix
<1> QED BY <1>1, <1>3, <1>4, <1>5

(* So a report says what it should, and prints so. *)
LEMMA ReportTells ==
  ASSUME parent = Parents, exe = Files, NEW task \in {25, 312}
  PROVE  LET text == Char!Report(task)
         IN /\ text = Char!Told(task)
            /\ \A n \in 0 .. Len(text) :
                 Char!IsPrefix(Char!Stairs(SubSeq(text, 1, n)), Char!string_formatter(SubSeq(text, 1, n)))
<1> DEFINE text == Char!Report(task)
           h == HeightOf(task)
<1>1. /\ text \in Seq(LineSet) /\ Len(text) = h
      /\ \A k \in 1 .. h : text[k] = LineUp(task, h - k)
  BY ReportHas
<1>2. /\ Char!Told(task) = [n \in 1 .. h |-> Char!Told(task)[n]]
      /\ \A n \in 1 .. h : Char!Told(task)[n] = LineUp(task, h - n)
  BY ToldHas
<1>3. h \in 1 .. 4
  BY WalksUp
<1> HIDE DEF text, h
<1>4. text = [n \in 1 .. h |-> text[n]]
  BY <1>1, LenProperties
<1>5. text = Char!Told(task)
  BY <1>1, <1>2, <1>4
<1>6. ASSUME NEW n \in 0 .. h
      PROVE  Char!IsPrefix(Char!Stairs(SubSeq(text, 1, n)), Char!string_formatter(SubSeq(text, 1, n)))
  <2>1. CASE n = 0
    <3>1. SubSeq(text, 1, n) = <<>>
      BY <1>1, <2>1
    <3> QED BY <3>1, NoStairs
  <2>2. CASE n # 0
    <3>1. SubSeq(text, 1, n) \in Seq(LineSet) /\ Len(SubSeq(text, 1, n)) \in 1 .. 4
      BY <1>1, <1>3, <2>2
    <3> QED BY <3>1, Staircase
  <2> QED BY <2>1, <2>2
<1> QED BY <1>1, <1>5, <1>6 DEF text

(* What is written: a text, whole or cut, with its zero or without.        *)
LEMMA TextIn ==
  ASSUME NEW m \in Char!Texts, NEW s \in {m, Char!SetMsg(m)}
  PROVE  LET r == Char!Upto(s, BUF_LEN)
         IN r \in WrittenTexts /\ Len(r) \in Nat /\ \A j \in 1 .. Len(r) - 1 : r[j] # Char!Nul
<1>1. PICK n \in 0 .. BUF_LEN : m \in [1 .. n -> {1}]
  BY DEF Char!Texts, Char!SeqOf
<1>2. m \in Seq({1, Char!Nul}) /\ Len(m) = n /\ \A j \in 1 .. n : m[j] = 1
  <2>1. m \in Seq({1})
    BY <1>1, SeqDef
  <2> QED BY <1>1, <2>1
<1>3. /\ s \in Seq({1, Char!Nul}) /\ Len(s) \in Nat
      /\ \A j \in 1 .. Len(s) - 1 : s[j] = 1
  <2>1. CASE s = m
    BY <1>2, <2>1
  <2>2. CASE s = Char!SetMsg(m) /\ m = <<>>
    BY <2>2 DEF Char!SetMsg
  <2>3. CASE s = Append(m, Char!Nul)
    BY <1>2, <2>3, AppendProperties
  <2> QED BY <2>1, <2>2, <2>3 DEF Char!SetMsg
<1> DEFINE k == IF Len(s) < BUF_LEN THEN Len(s) ELSE BUF_LEN
           r == SubSeq(s, 1, k)
<1>4. k \in 0 .. BUF_LEN /\ k \in 0 .. Len(s)
  BY <1>3, DriversAssumption
<1> HIDE DEF k
<1>5. r \in Seq({1, Char!Nul}) /\ Len(r) = k /\ \A j \in 1 .. k : r[j] = s[j]
  BY <1>3, <1>4, SubSeqProperties
<1> HIDE DEF r
<1>6. r \in [1 .. k -> {1, Char!Nul}]
  BY <1>5, LenProperties, ElementOfSeq
<1>7. \A j \in 1 .. k - 1 : r[j] # Char!Nul
  BY <1>3, <1>4, <1>5 DEF Char!Nul
<1>8. r = Char!Upto(s, BUF_LEN)
  BY DEF r, k, Char!Upto
<1> QED
  BY <1>4, <1>5, <1>6, <1>7, <1>8 DEF WrittenTexts, SeqOf

(* A text that is written is a sequence of at most BUF_LEN characters.     *)
LEMMA LinesAre ==
  ASSUME NEW s \in WrittenTexts
  PROVE  s \in Seq({1, Char!Nul}) /\ Len(s) \in 0 .. BUF_LEN
<1>1. PICK n \in 0 .. BUF_LEN : s \in [1 .. n -> {1, Char!Nul}]
  BY DEF WrittenTexts, SeqOf
<1> QED BY <1>1, SeqDef, DriversAssumption

(* What is told of a written text is one without its zero. *)
LEMMA FrontIn ==
  ASSUME NEW s \in WrittenTexts, s # <<>>, Char!Last(s) = Char!Nul, \A j \in 1 .. Len(s) - 1 : s[j] # Char!Nul
  PROVE  Char!Front(s) \in Char!Texts /\ Char!Front(s) = SubSeq(s, 1, Len(s) - 1) /\ Len(s) >= 1
<1>1. s \in Seq({1, Char!Nul}) /\ Len(s) \in 0 .. BUF_LEN
  BY LinesAre
<1>2. Len(s) >= 1 /\ BUF_LEN \in Nat
  BY <1>1, EmptySeq, DriversAssumption
<1> DEFINE k == Len(s) - 1
           r == SubSeq(s, 1, k)
<1>3. k \in 0 .. BUF_LEN /\ k \in 0 .. Len(s)
  BY <1>1, <1>2
<1> HIDE DEF k
<1>4. Len(r) = k /\ r \in Seq({1, Char!Nul}) /\ \A j \in 1 .. k : r[j] = s[j]
  BY <1>1, <1>3, SubSeqProperties
<1> HIDE DEF r
<1>5. r \in [1 .. k -> {1}]
  BY <1>1, <1>3, <1>4, LenProperties, ElementOfSeq DEF k
<1>6. Char!Front(s) = r
  BY DEF Char!Front, r, k
<1> QED
  BY <1>2, <1>3, <1>5, <1>6 DEF Char!Texts, Char!SeqOf, r, k

(* Nothing to write is a text too.                                         *)
LEMMA NothingIs ==
  Char!Nothing.at <= Len(Char!Nothing.text) /\ \A j \in 1 .. Len(Char!Nothing.text) - 1 : Char!Nothing.text[j] # Char!Nul
BY DEF Char!Nothing

(* The sets of lines do not change.                                        *)
LEMMA SameLines ==
  ASSUME UNCHANGED exe PROVE Char!Paths' = Char!Paths /\ LineSet' = LineSet /\ WrittenTexts' = WrittenTexts
BY DEF Char!Paths, Char!Range, LineSet, WrittenTexts

(* The character device starts so.                                         *)
LEMMA CharStart == ASSUME DriversInit PROVE CharInv
<1>1. Char!CharInit /\ Char!OpenInit /\ pid = Pids /\ parent = Parents /\ exe = Files
  BY DEF DriversInit, Char!CharInit
<1>2. <<>> \in Char!Texts /\ <<>> \in WrittenTexts
  BY DriversAssumption DEF Char!Texts, Char!SeqOf, WrittenTexts, SeqOf
<1>3. CharTyped
  BY <1>1, <1>2, DriversAssumption DEF Char!CharInit, Char!OpenInit, CharTyped, Char!Nothing, Char!Index
<1> QED
  BY <1>1, <1>3 DEF Char!CharInit, Char!OpenInit, CharInv, CharRight, CharFresh, Char!Index

(* Every step of it keeps it well formed; device_write stays within        *)
(* Message.                                                                *)
LEMMA CharTypedStep ==
  ASSUME CharTyped, Shape(CharOpen), Shape(CharOpen)', Char!CharNext PROVE CharTyped'
<1>0. /\ UNCHANGED <<pid, parent, exe>> /\ cpc \in [Users -> Places]
      /\ WrittenTexts' = WrittenTexts /\ LineSet' = LineSet
  <2>1. UNCHANGED <<pid, parent, exe>>
    BY DEF Char!CharNext, Char!Loaded, Char!Leaving, Char!Unloaded, Char!OpenClose, Char!Closed, Char!Read, Char!Tree, Char!Test,
           Char!Take, Char!StorePtr, Char!Write, Char!Copy, Char!Written, Char!tasks
  <2> QED BY <2>1, SameLines DEF Shape, CharOpen
\* Where a process may be on its way to take what it reads.
<1> DEFINE Sure == \A p \in Users : cpc'[p] \in {"take", "store_ptr"} => clength'[p] > 0
<1>1. ASSUME UNCHANGED <<Char!read, Char!write>>, Sure PROVE CharTyped'
  BY <1>0, <1>1 DEF CharTyped, Char!read, Char!write
<1>2. CASE Char!Loaded \/ Char!Leaving
  <2>1. Sure
    BY <1>2 DEF CharTyped, Char!Loaded, Char!Leaving, Char!Insmod, Char!Rmmod, Char!read
  <2> QED BY <1>1, <1>2, <2>1 DEF Char!Loaded, Char!Leaving
<1>3. CASE Char!Unloaded
  <2>1. \A p \in Users : cpc'[p] \in {"away", "oops"}
    BY <1>3 DEF Char!Unloaded, Char!Cleanup
  <2>2. clength' = [p \in Users |-> 0] /\ cptr' = [p \in Users |-> 0] /\ cgot' = [p \in Users |-> <<>>] /\ input' = [p \in Users |-> Char!Nothing]
    BY <1>3 DEF Char!Unloaded, Char!Forget
  <2>3. Message' = [j \in 1 .. BUF_LEN |-> Char!Nul] /\ said' = <<>> /\ call_tree' = <<>> /\ call_tree_Ptr' = 0
    BY <1>3 DEF Char!Unloaded, Char!Index
  <2>4. <<>> \in Char!Texts /\ <<>> \in WrittenTexts
    BY DriversAssumption DEF Char!Texts, Char!SeqOf, WrittenTexts, SeqOf
  <2>5. cgot' \in [Users -> Seq(LineSet \cup {Char!Garbage})] /\ clength' \in [Users -> Nat] /\ cptr' \in [Users -> Nat]
    BY <2>2
  <2>6. input' \in [Users -> [text : WrittenTexts, at : 0 .. BUF_LEN]]
    BY <2>2, <2>4, DriversAssumption DEF Char!Nothing
  <2>7. \A q \in Users : LET t == input'[q].text
                         IN input'[q].at <= Len(t) /\ \A j \in 1 .. Len(t) - 1 : t[j] # Char!Nul
    BY <2>2, NothingIs
  <2>8. Message' \in [1 .. BUF_LEN -> {1, Char!Nul}] /\ said' \in Char!Texts \cup {Char!Unknown}
        /\ call_tree' \in Seq(LineSet) /\ Len(call_tree') <= MaxTree /\ call_tree_Ptr' \in Nat
    BY <2>3, <2>4, DriversAssumption
  <2> HIDE DEF Sure
  <2> QED BY <1>0, <2>1, <2>5, <2>6, <2>7, <2>8 DEF CharTyped
<1>4. ASSUME NEW p \in Users, Char!OpenClose(p) PROVE CharTyped'
  <2>1. Sure
    BY <1>0, <1>4 DEF CharTyped, Char!OpenClose, Char!OpenTest, Char!Load, Char!OpenStore, Char!SetPtr, Char!OpenGet, Char!Close,
       Char!CloseStore, Char!Goto, Char!read
  <2> QED BY <1>1, <1>4, <2>1 DEF Char!OpenClose
<1>5. ASSUME NEW p \in Users, Char!Closed(p) PROVE CharTyped'
  <2>1. Sure
    BY <1>0, <1>5 DEF CharTyped, Char!Closed, Char!Forget, Char!ClosePut, Char!Goto
  <2>2. /\ cgot' \in [Users -> Seq(LineSet \cup {Char!Garbage})]
        /\ cptr' \in [Users -> Nat] /\ clength' \in [Users -> Nat]
    BY <1>0, <1>5 DEF CharTyped, Char!Closed, Char!Forget
  <2>3. <<>> \in WrittenTexts /\ Char!Nothing = [text |-> <<>>, at |-> 0]
    BY DriversAssumption DEF WrittenTexts, SeqOf, Char!Nothing
  <2>4. \A q \in Users : input'[q] = IF q = p THEN Char!Nothing ELSE input[q]
    BY <1>5 DEF Char!Closed, Char!Forget
  <2>5. input' = [q \in Users |-> IF q = p THEN Char!Nothing ELSE input[q]]
    BY <1>5 DEF Char!Closed, Char!Forget
  <2>6. input' \in [Users -> [text : WrittenTexts, at : 0 .. BUF_LEN]]
    BY <2>3, <2>5, DriversAssumption DEF CharTyped
  <2>7. \A q \in Users : LET t == input'[q].text
                         IN input'[q].at <= Len(t) /\ \A j \in 1 .. Len(t) - 1 : t[j] # Char!Nul
    BY <2>4, NothingIs DEF CharTyped
  <2>8. UNCHANGED <<call_tree, call_tree_Ptr, Message, said>>
    BY <1>5 DEF Char!Closed
  <2> QED BY <1>0, <2>1, <2>2, <2>6, <2>7, <2>8 DEF CharTyped
<1>6. ASSUME NEW p \in Users, NEW n \in CharLengths, Char!Read(p, n) PROVE CharTyped'
  <2>1. n \in Nat /\ n > 0
    BY DEF CharLengths
  <2>2. Sure
    BY <1>0, <1>6, <2>1 DEF CharTyped, Char!Read, Char!Goto
  <2>3. cgot' = [cgot EXCEPT ![p] = <<>>] /\ UNCHANGED <<call_tree, call_tree_Ptr, cptr, Message, input, said>>
    BY <1>6 DEF Char!Read, Char!write
  <2>4. cgot' \in [Users -> Seq(LineSet \cup {Char!Garbage})]
    BY <2>3 DEF CharTyped
  <2>5. clength' \in [Users -> Nat]
    <3>1. clength' = [clength EXCEPT ![p] = n] \/ clength' = [clength EXCEPT ![p] = 0]
      BY <1>6 DEF Char!Read
    <3> QED BY <2>1, <3>1 DEF CharTyped
  <2> QED BY <1>0, <2>2, <2>3, <2>4, <2>5 DEF CharTyped
<1>7. ASSUME NEW p \in Users, Char!Tree(p) PROVE CharTyped'
  <2>1. Sure
    BY <1>0, <1>7 DEF CharTyped, Char!Tree, Char!Goto
  <2>2. pid[p] \in Tasks
    BY DEF CharTyped, Pids, Tasks
  <2>3. Char!Report(pid[p]) \in Seq(LineSet) /\ Len(Char!Report(pid[p])) <= MaxTree
    <3>1. parent = Parents /\ exe = Files
      BY DEF CharTyped
    <3> QED BY <2>2, <3>1, ReportIs, DriversAssumption
  <2>4. call_tree' = Char!Report(pid[p]) /\ call_tree_Ptr' = 0 /\ UNCHANGED <<cptr, cgot, clength, Message, input, said>>
    BY <1>7 DEF Char!Tree, Char!write
  <2> QED BY <1>0, <2>1, <2>3, <2>4 DEF CharTyped
<1>8. ASSUME NEW p \in Users, Char!Test(p) PROVE CharTyped'
  <2>1. Sure
    BY <1>0, <1>8 DEF CharTyped, Char!Test, Char!Goto, Char!read
  <2> QED BY <1>1, <1>8, <2>1 DEF Char!Test
<1>9. ASSUME NEW p \in Users, Char!Take(p) PROVE CharTyped'
  <2>1. Sure
    BY <1>0, <1>9 DEF CharTyped, Char!Take, Char!Goto
  <2> QED BY <1>0, <1>9, <2>1 DEF CharTyped, Char!Take, Char!write
<1>10. ASSUME NEW p \in Users, Char!StorePtr(p) PROVE CharTyped'
  <2> DEFINE x == cptr[p] + 1
             line == IF x \in DOMAIN call_tree THEN call_tree[x] ELSE Char!Garbage
  <2>1. /\ cpc[p] = "store_ptr" /\ cpc' = [cpc EXCEPT ![p] = "test"] /\ call_tree_Ptr' = x
        /\ cgot' = [cgot EXCEPT ![p] = Append(cgot[p], line)] /\ clength' = [clength EXCEPT ![p] = clength[p] - 1]
        /\ UNCHANGED <<call_tree, cptr, Message, input, said>>
    BY <1>0, <1>10 DEF CharTyped, Char!StorePtr, Char!Goto, Char!write
  <2>2. line \in LineSet \cup {Char!Garbage}
    BY DEF CharTyped
  <2> HIDE DEF line
  <2>3. cgot' \in [Users -> Seq(LineSet \cup {Char!Garbage})]
    BY <2>1, <2>2 DEF CharTyped
  <2>4. Sure
    BY <1>0, <2>1 DEF CharTyped
  <2>5. clength' \in [Users -> Nat] /\ call_tree_Ptr' \in Nat
    BY <2>1 DEF CharTyped
  <2> QED BY <1>0, <2>1, <2>3, <2>4, <2>5 DEF CharTyped
<1>11. ASSUME NEW p \in Users, NEW m \in Char!Texts, Char!Write(p, m) PROVE CharTyped'
  <2>1. PICK s \in {m, Char!SetMsg(m)} : input' = [input EXCEPT ![p] = [text |-> Char!Upto(s, BUF_LEN), at |-> 0]]
    BY <1>11 DEF Char!Write
  <2> DEFINE r == Char!Upto(s, BUF_LEN)
  <2>2. r \in WrittenTexts /\ Len(r) \in Nat /\ \A j \in 1 .. Len(r) - 1 : r[j] # Char!Nul
    BY TextIn
  <2> HIDE DEF r
  <2>3. Sure
    BY <1>0, <1>11 DEF CharTyped, Char!Write, Char!Goto, Char!read
  <2>4. input' = [input EXCEPT ![p] = [text |-> r, at |-> 0]]
    BY <2>1 DEF r
  <2>5. input' \in [Users -> [text : WrittenTexts, at : 0 .. BUF_LEN]] /\ \A q \in Users : input'[q] = IF q = p THEN [text |-> r, at |-> 0] ELSE input[q]
    BY <2>2, <2>4, DriversAssumption DEF CharTyped
  <2> QED BY <1>0, <1>11, <2>2, <2>3, <2>5 DEF CharTyped, Char!Write, Char!read
<1>12. ASSUME NEW p \in Users, Char!Copy(p) PROVE CharTyped'
  <2> DEFINE k == input[p].at + 1
             s == input[p].text
  <2>1. /\ cpc' = cpc /\ k <= Len(s) /\ Message' = [Message EXCEPT ![k] = s[k]] /\ input' = [input EXCEPT ![p].at = k]
        /\ UNCHANGED <<Char!read, said>>
    BY <1>12 DEF Char!Copy
  <2>2. s \in Seq({1, Char!Nul}) /\ Len(s) \in 0 .. BUF_LEN /\ k \in 1 .. BUF_LEN /\ s[k] \in {1, Char!Nul}
    <3>1. s \in WrittenTexts /\ input[p].at \in 0 .. BUF_LEN
      BY DEF CharTyped
    <3>2. s \in Seq({1, Char!Nul}) /\ Len(s) \in 0 .. BUF_LEN
      BY <3>1, LinesAre
    <3> HIDE DEF s
    <3> QED BY <2>1, <3>1, <3>2, DriversAssumption
  <2>3. \A q \in Users : /\ input'[q].text = input[q].text
                         /\ input'[q].at = IF q = p THEN k ELSE input[q].at
    BY <2>1 DEF CharTyped
  <2>4. input' \in [Users -> [text : WrittenTexts, at : 0 .. BUF_LEN]]
    BY <2>1, <2>2 DEF CharTyped
  <2>5. Message' \in [1 .. BUF_LEN -> {1, Char!Nul}]
    BY <2>1, <2>2 DEF CharTyped
  <2>6. \A q \in Users : LET t == input'[q].text
                         IN input'[q].at <= Len(t) /\ \A j \in 1 .. Len(t) - 1 : t[j] # Char!Nul
    BY <2>1, <2>3 DEF CharTyped
  <2> HIDE DEF k, s
  <2> QED BY <1>0, <2>1, <2>4, <2>5, <2>6 DEF CharTyped, Char!read
<1>13. ASSUME NEW p \in Users, Char!Written(p) PROVE CharTyped'
  <2> DEFINE s == input[p].text
  <2>1. s \in WrittenTexts /\ \A j \in 1 .. Len(s) - 1 : s[j] # Char!Nul
    BY DEF CharTyped
  <2>2. said' \in Char!Texts \cup {Char!Unknown}
    <3>1. said' = IF s = <<>> THEN said ELSE IF Char!Last(s) = Char!Nul THEN Char!Front(s) ELSE Char!Unknown
      BY <1>13 DEF Char!Written
    <3> HIDE DEF s
    <3> QED BY <2>1, <3>1, FrontIn DEF CharTyped
  <2>3. Sure
    BY <1>0, <1>13 DEF CharTyped, Char!Written, Char!Goto, Char!read
  <2> QED BY <1>0, <1>13, <2>2, <2>3 DEF CharTyped, Char!Written, Char!read
<1> QED
  BY <1>2, <1>3, <1>4, <1>5, <1>6, <1>7, <1>8, <1>9, <1>10, <1>11, <1>12, <1>13 DEF Char!CharNext

(* A process that is in the device is the only one. *)
LEMMA OnlyInside ==
  ASSUME OpenInv(CharOpen), cmodule # "out", ~coverlapped,
         NEW p \in Users, NEW q \in Users, p # q, cpc[p] \notin Outside
  PROVE  cpc[q] \in Outside
BY DEF OpenInv, Alone, CharOpen

(* The tasks do not change, and neither do their reports.                  *)
LEMMA SameReport ==
  ASSUME UNCHANGED <<pid, parent, exe>>, NEW p \in Users
  PROVE  Char!Report(pid[p])' = Char!Report(pid[p])
BY DEF Char!Report, Char!PathOf, Char!Paths, Char!Range

(* Every process has a report.                                             *)
LEMMA ReportOf ==
  ASSUME CharTyped, NEW p \in Users
  PROVE  Char!Report(pid[p]) \in Seq(LineSet) /\ Len(Char!Report(pid[p])) \in Nat
<1>1. parent = Parents /\ exe = Files /\ pid[p] \in Tasks
  BY DEF CharTyped, Pids, Tasks
<1> QED BY <1>1, ReportIs, DriversAssumption

(* A process whose own variables stay, and what it copies.                 *)
LEMMA CharOwnKeeps ==
  ASSUME UNCHANGED <<pid, parent, exe>>, NEW q \in Users, Copied(q), OwnLines(q),
         cpc'[q] = cpc[q], cgot'[q] = cgot[q], clength'[q] = clength[q], cptr'[q] = cptr[q], input'[q] = input[q],
         cpc[q] \notin Outside => UNCHANGED <<Message, call_tree, call_tree_Ptr>>
  PROVE  Copied(q)' /\ OwnLines(q)'
<1> DEFINE r == Char!Report(pid[q])
<1>1. r' = r
  BY SameReport
<1> HIDE DEF r
<1>2. OwnLines(q)'
  BY <1>1 DEF OwnLines, r, Outside, Copying
<1> QED BY <1>2 DEF Copied, Outside

(* The first zero ends the text. *)
LEMMA TextEnds ==
  ASSUME Message \in [1 .. BUF_LEN -> {1, Char!Nul}], NEW n \in 1 .. BUF_LEN, Message[n] = Char!Nul,
         \A j \in 1 .. n - 1 : Message[j] # Char!Nul
  PROVE  Char!TextOf(Message) = SubSeq(Message, 1, n - 1)
<1> DEFINE ends == {j \in Char!Index : Message[j] = Char!Nul}
           first == CHOOSE j \in ends : \A k \in ends : j <= k
<1>1. n \in ends /\ \A k \in ends : n <= k
  BY DEF Char!Index
<1>2. first \in ends /\ \A k \in ends : first <= k
  BY <1>1
<1>3. first = n
  BY <1>1, <1>2 DEF Char!Index
<1> HIDE DEF first
<1>4. Char!TextOf(Message) = SubSeq(Message, 1, IF ends = {} THEN BUF_LEN ELSE first - 1)
  BY DEF Char!TextOf, first
<1>5. ends # {}
  BY <1>1
<1> HIDE DEF ends
<1>6. (IF ends = {} THEN BUF_LEN ELSE first - 1) = n - 1
  BY <1>3, <1>5
<1> QED BY <1>4, <1>6, Zenon

(* A buffer of zeros tells nothing.                                        *)
LEMMA EmptyText ==
  ASSUME Message = [j \in 1 .. BUF_LEN |-> Char!Nul] PROVE Char!TextOf(Message) = <<>>
<1>1. 1 \in 1 .. BUF_LEN /\ Message[1] = Char!Nul /\ Message \in [1 .. BUF_LEN -> {1, Char!Nul}]
  BY DriversAssumption
<1>2. ASSUME NEW n \in 1 .. BUF_LEN, n = 1 PROVE Char!TextOf(Message) = SubSeq(Message, 1, 0)
  <2>1. Message[n] = Char!Nul /\ \A j \in 1 .. n - 1 : Message[j] # Char!Nul
    BY <1>1, <1>2
  <2>2. Char!TextOf(Message) = SubSeq(Message, 1, n - 1)
    BY <1>1, <2>1, TextEnds
  <2>3. n - 1 = 0
    BY <1>2
  <2> QED BY <2>2, <2>3, Zenon
<1>3. Char!TextOf(Message) = SubSeq(Message, 1, 0)
  BY <1>1, <1>2, Zenon
<1> QED BY <1>1, <1>3

(* Message tells the text that was set.                                    *)
TextKept == said # Char!Unknown /\ (\A p \in Users : cpc[p] = "copy" => input[p].at = 0) => Char!TextOf(Message) = said

(* Loading and unloading start the device anew.                            *)
LEMMA CharLoads ==
  ASSUME CharInv, OpenInv(CharOpen), UNCHANGED <<pid, parent, exe>>, Char!Loaded \/ Char!Leaving \/ Char!Unloaded
  PROVE  CharRight' /\ CharFresh'
<1>0. cmodule = "out" => \A q \in Users : cpc[q] \in {"away", "oops"}
  BY DEF OpenInv, Shape, CharOpen
<1>1. CASE Char!Loaded
  <2>1. /\ cmodule = "out" /\ cmodule' = "in"
        /\ UNCHANGED <<cpc, coverlapped, Message, said, call_tree, call_tree_Ptr, cptr, cgot, clength, input>>
    BY <1>1 DEF Char!Loaded, Char!Insmod, Char!open, Char!read, Char!write
  <2>2. ASSUME NEW q \in Users PROVE Copied(q)' /\ OwnLines(q)'
    <3>1. cpc'[q] \in {"away", "oops"} /\ cgot'[q] = <<>> /\ clength'[q] = 0
      BY <1>0, <2>1 DEF CharInv, CharFresh
    <3>2. Char!Report(pid[q]) \in Seq(LineSet) /\ Len(Char!Report(pid[q])) \in Nat /\ Char!Report(pid[q])' = Char!Report(pid[q])
      BY ReportOf, SameReport DEF CharInv
    <3> QED BY <3>1, <3>2 DEF Copied, OwnLines, Copying
  <2>3. Char!TextOf(Message) = said
    BY <2>1, EmptyText DEF CharInv, CharFresh
  <2> QED BY <2>1, <2>2, <2>3 DEF CharRight, CharFresh
<1>2. CASE Char!Leaving
  <2>1. /\ cmodule = "in" /\ cmodule' = "going"
        /\ UNCHANGED <<cpc, coverlapped, Message, said, call_tree, call_tree_Ptr, cptr, cgot, clength, input>>
    BY <1>2 DEF Char!Leaving, Char!Rmmod, Char!open, Char!read, Char!write
  <2>2. \A q \in Users : Copied(q) /\ OwnLines(q) => Copied(q)' /\ OwnLines(q)'
    BY <2>1, CharOwnKeeps
  <2> QED BY <2>1, <2>2 DEF CharInv, CharRight, CharFresh
<1>3. CASE Char!Unloaded
  BY <1>3 DEF Char!Unloaded, Char!Cleanup, Char!Forget, Char!Index, CharRight, CharFresh
<1> QED BY <1>1, <1>2, <1>3

(* The step of one process leaves what the others read and write as it is. *)
LEMMA CharUses ==
  ASSUME CharInv, CharTyped', OpenInv(CharOpen), UNCHANGED <<pid, parent, exe>>, NEW p \in Users,
         cmodule # "out", ~coverlapped,
         \A q \in Users : q # p => /\ cpc'[q] = cpc[q] /\ cgot'[q] = cgot[q] /\ clength'[q] = clength[q]
                                   /\ cptr'[q] = cptr[q] /\ input'[q] = input[q],
         UNCHANGED <<Message, call_tree, call_tree_Ptr>> \/ cpc[p] \notin Outside,
         Copied(p)' /\ OwnLines(p)'
  PROVE  \A q \in Users : Copied(q)' /\ OwnLines(q)'
<1> SUFFICES ASSUME NEW q \in Users, q # p PROVE Copied(q)' /\ OwnLines(q)'
  OBVIOUS
<1>1. Copied(q) /\ OwnLines(q)
  BY DEF CharInv, CharRight
<1>2. cpc[q] \notin Outside => UNCHANGED <<Message, call_tree, call_tree_Ptr>>
  BY OnlyInside
<1> QED BY <1>1, <1>2, CharOwnKeeps

(* The own text and report of the process that takes the step.             *)
LEMMA CharOwn ==
  ASSUME CharInv, CharTyped', OpenInv(CharOpen), UNCHANGED <<pid, parent, exe>>, NEW p \in Users,
         cmodule # "out", ~coverlapped
  PROVE  /\ Char!OpenClose(p) \/ Char!Closed(p) => Copied(p)' /\ OwnLines(p)'
         /\ (\E n \in CharLengths : Char!Read(p, n)) => Copied(p)' /\ OwnLines(p)'
         /\ Char!Tree(p) \/ Char!Test(p) \/ Char!Take(p) \/ Char!StorePtr(p) => Copied(p)' /\ OwnLines(p)'
         /\ (\E m \in Char!Texts : Char!Write(p, m)) => Copied(p)' /\ OwnLines(p)'
         /\ Char!Copy(p) \/ Char!Written(p) => Copied(p)' /\ OwnLines(p)'
<1> DEFINE r == Char!Report(pid[p])
           n == Len(cgot[p])
<1>0. /\ CharTyped /\ Copied(p) /\ OwnLines(p) /\ cpc \in [Users -> Places]
      /\ r' = r /\ r \in Seq(LineSet) /\ Len(r) \in Nat /\ n \in Nat
  <2>1. CharTyped /\ Copied(p) /\ OwnLines(p) /\ cpc \in [Users -> Places]
    BY DEF CharInv, CharRight, OpenInv, Shape, CharOpen
  <2>2. cgot[p] \in Seq(LineSet \cup {Char!Garbage})
    BY <2>1 DEF CharTyped
  <2> QED BY <2>1, <2>2, SameReport, ReportOf
<1> DEFINE Own == /\ n <= Len(r) /\ \A k \in 1 .. n : cgot[p][k] = r[k]
                  /\ cpc[p] = "tree" => n = 0
                  /\ cpc[p] \in Copying => call_tree = r /\ call_tree_Ptr = n
                  /\ cpc[p] \in {"take", "store_ptr"} => n < Len(r)
                  /\ cpc[p] = "store_ptr" => cptr[p] = n
                  /\ cpc[p] \notin Copying \cup {"tree"} => clength[p] = 0 \/ n = Len(r)
<1>own. Own /\ (Own' => OwnLines(p)')
  BY <1>0 DEF OwnLines
<1> HIDE DEF r
<1>1. CASE Char!OpenClose(p)
  <2>1. UNCHANGED <<call_tree, call_tree_Ptr, cptr, cgot, clength, input, Message>>
    BY <1>1 DEF Char!OpenClose, Char!read, Char!write
  <2>2. cpc[p] \notin Copying \cup {"tree", "copy"} /\ cpc'[p] \notin Copying \cup {"tree", "copy"}
    BY <1>0, <1>1 DEF Char!OpenClose, Char!OpenTest, Char!Load, Char!OpenStore, Char!SetPtr, Char!OpenGet, Char!Close, Char!CloseStore,
       Char!Goto, Copying
  <2> QED BY <1>0, <1>own, <2>1, <2>2 DEF Copied, Copying
<1>2. CASE Char!Closed(p)
  <2>1. cpc'[p] = "away" /\ cgot'[p] = <<>> /\ clength'[p] = 0
    BY <1>0, <1>2 DEF Char!Closed, Char!ClosePut, Char!Goto, Char!Forget
  <2> QED BY <1>0, <1>own, <2>1 DEF Copied, Copying
<1>3. ASSUME NEW l \in CharLengths, Char!Read(p, l) PROVE Copied(p)' /\ OwnLines(p)'
  <2>1. cgot'[p] = <<>> /\ (cpc'[p] = "tree" \/ (cpc'[p] = "open" /\ clength'[p] = 0))
    BY <1>0, <1>3 DEF Char!Read, Char!Goto, CharTyped
  <2> QED BY <1>0, <1>own, <2>1 DEF Copied, Copying
<1>4. CASE Char!Tree(p)
  <2>1. cpc[p] = "tree" /\ cpc'[p] = "test" /\ call_tree' = r /\ call_tree_Ptr' = 0 /\ UNCHANGED <<cptr, cgot, clength>>
    BY <1>0, <1>4 DEF Char!Tree, Char!Goto, r
  <2> QED BY <1>0, <1>own, <2>1 DEF Copied, Copying
<1>5. CASE Char!Test(p)
  <2>1. /\ cpc[p] = "test" /\ UNCHANGED <<call_tree, call_tree_Ptr, cptr, cgot, clength, input, Message>>
        /\ \/ cpc'[p] = "take" /\ call_tree_Ptr # Len(call_tree)
           \/ cpc'[p] = "open" /\ (clength[p] = 0 \/ call_tree_Ptr >= Len(call_tree))
    BY <1>0, <1>5 DEF Char!Test, Char!Goto, Char!read, Char!write
  <2> QED BY <1>0, <1>own, <2>1 DEF Copied, Copying
<1>6. CASE Char!Take(p)
  <2>1. /\ cpc[p] = "take" /\ cpc'[p] = "store_ptr" /\ cptr'[p] = call_tree_Ptr
        /\ UNCHANGED <<call_tree, call_tree_Ptr, cgot, clength>>
    BY <1>0, <1>6 DEF Char!Take, Char!Goto, CharTyped
  <2> QED BY <1>0, <1>own, <2>1 DEF Copied, Copying
<1>7. CASE Char!StorePtr(p)
  <2> DEFINE line == IF n + 1 \in DOMAIN r THEN r[n + 1] ELSE Char!Garbage
  <2>1. cpc[p] = "store_ptr" /\ n < Len(r) /\ call_tree = r /\ cptr[p] = n
    BY <1>7, <1>own DEF Char!StorePtr, Char!Goto, Copying
  <2>2. /\ cpc'[p] = "test" /\ call_tree_Ptr' = n + 1 /\ call_tree' = r
        /\ cgot'[p] = Append(cgot[p], r[n + 1])
    <3>1. n + 1 \in DOMAIN r
      BY <1>0, <2>1
    <3> QED BY <1>0, <1>7, <2>1, <3>1 DEF Char!StorePtr, Char!Goto, CharTyped
  <2>3. cgot[p] \in Seq(LineSet \cup {Char!Garbage}) /\ r[n + 1] \in LineSet
    BY <1>0, <2>1, SMTT(30) DEF CharTyped
  <2>4. Len(cgot'[p]) = n + 1 /\ \A k \in 1 .. n + 1 : cgot'[p][k] = r[k]
    BY <1>own, <2>2, <2>3, AppendProperties
  <2> QED BY <1>0, <1>own, <2>1, <2>2, <2>4 DEF Copied, Copying
<1>8. ASSUME NEW m \in Char!Texts, Char!Write(p, m) PROVE Copied(p)' /\ OwnLines(p)'
  <2>1. /\ cpc[p] = "open" /\ cpc'[p] = "copy" /\ input'[p].at = 0
        /\ UNCHANGED <<call_tree, call_tree_Ptr, cptr, cgot, clength, Message>>
    BY <1>0, <1>8 DEF Char!Write, Char!Goto, Char!read, CharTyped
  <2> QED BY <1>0, <1>own, <2>1 DEF Copied, Copying
<1>9. CASE Char!Copy(p)
  <2> DEFINE k == input[p].at + 1
             s == input[p].text
  <2>1. /\ cpc[p] = "copy" /\ cpc'[p] = "copy" /\ k <= Len(s) /\ Message' = [Message EXCEPT ![k] = s[k]]
        /\ input'[p].at = k /\ input'[p].text = s
        /\ UNCHANGED <<call_tree, call_tree_Ptr, cptr, cgot, clength>>
    BY <1>0, <1>9 DEF Char!Copy, Char!read, CharTyped
  <2>2. s \in Seq({1, Char!Nul}) /\ Len(s) \in 0 .. BUF_LEN /\ input[p].at \in 0 .. BUF_LEN
    BY <1>0, LinesAre DEF CharTyped
  <2>3. \A j \in 1 .. input[p].at : Message[j] = s[j]
    BY <1>0, <2>1 DEF Copied
  <2>4. \A j \in 1 .. k : Message'[j] = s[j]
    <3>1. k \in 1 .. BUF_LEN /\ Message \in [1 .. BUF_LEN -> {1, Char!Nul}]
      BY <1>0, <2>1, <2>2, DriversAssumption DEF CharTyped
    <3>2. \A j \in 1 .. k : j = k \/ j \in 1 .. input[p].at
      BY <2>2
    <3>3. \A j \in 1 .. k : j \in 1 .. BUF_LEN
      BY <3>1, DriversAssumption
    <3> HIDE DEF k, s
    <3> QED BY <2>1, <2>3, <3>1, <3>2, <3>3
  <2>5. Copied(p)'
    BY <2>1, <2>4 DEF Copied
  <2> QED BY <1>0, <1>own, <2>1, <2>5 DEF Copying
<1>10. CASE Char!Written(p)
  <2>1. /\ cpc[p] = "copy" /\ cpc'[p] = "open"
        /\ UNCHANGED <<call_tree, call_tree_Ptr, cptr, cgot, clength>>
    BY <1>0, <1>10 DEF Char!Written, Char!Goto, Char!read
  <2> QED BY <1>0, <1>own, <2>1 DEF Copied, Copying
<1> QED
  BY <1>1, <1>2, <1>3, <1>4, <1>5, <1>6, <1>7, <1>8, <1>9, <1>10

(* A process that writes is the only one that does; once it has written a  *)
(* text with its zero, that text is what Message tells.                    *)
LEMMA TextWritten ==
  ASSUME CharInv, OpenInv(CharOpen), NEW p \in Users, cmodule # "out", ~coverlapped, Char!Written(p)
  PROVE  TextKept'
<1> DEFINE s == input[p].text
<1>1. CharTyped /\ Copied(p) /\ TextKept /\ cpc \in [Users -> Places]
  BY DEF CharInv, CharRight, OpenInv, Shape, CharOpen, TextKept
<1>2. /\ cpc[p] = "copy" /\ cpc'[p] = "open" /\ input[p].at = Len(s) /\ Message' = Message /\ input' = input
      /\ said' = IF s = <<>> THEN said ELSE IF Char!Last(s) = Char!Nul THEN Char!Front(s) ELSE Char!Unknown
  BY <1>1 DEF Char!Written, Char!Goto
<1>3. s \in WrittenTexts /\ \A j \in 1 .. Len(s) - 1 : s[j] # Char!Nul
  BY <1>1 DEF CharTyped
<1>4. \A q \in Users : q # p => cpc[q] # "copy"
  BY <1>2, OnlyInside DEF Outside
<1>5. s \in Seq({1, Char!Nul}) /\ Len(s) \in 0 .. BUF_LEN /\ \A j \in 1 .. Len(s) : Message[j] = s[j]
  BY <1>1, <1>2, <1>3, LinesAre DEF Copied
<1> HIDE DEF s
<1>6. CASE s = <<>>
  <2>1. said' = said /\ Len(s) = 0
    BY <1>2, <1>6
  <2>2. \A q \in Users : cpc[q] = "copy" => input[q].at = 0
    BY <1>2, <1>4, <2>1
  <2> QED BY <1>1, <1>2, <2>1, <2>2 DEF TextKept
<1>7. CASE s # <<>> /\ Char!Last(s) = Char!Nul
  <2> DEFINE n == Len(s)
  <2>1. said' = Char!Front(s) /\ Char!Front(s) = SubSeq(s, 1, n - 1) /\ n >= 1
    BY <1>2, <1>3, <1>7, FrontIn
  <2>2. n \in 1 .. BUF_LEN /\ Message[n] = Char!Nul /\ \A j \in 1 .. n - 1 : Message[j] # Char!Nul
    <3>1. n \in 1 .. BUF_LEN /\ s[n] = Char!Nul
      BY <1>5, <1>7, <2>1 DEF Char!Last
    <3> QED BY <1>3, <1>5, <3>1
  <2> HIDE DEF n
  <2>3. Message \in [1 .. BUF_LEN -> {1, Char!Nul}]
    BY <1>1 DEF CharTyped
  <2>4. Char!TextOf(Message) = SubSeq(Message, 1, n - 1)
    BY <2>2, <2>3, TextEnds
  <2>5. SubSeq(Message, 1, n - 1) = SubSeq(s, 1, n - 1)
    <3> DEFINE k == n - 1
    <3>1. Message \in Seq({1, Char!Nul}) /\ Len(Message) = BUF_LEN
      BY <2>3, DriversAssumption, SeqDef
    <3>2. k \in 0 .. BUF_LEN /\ k \in 0 .. Len(s) /\ \A j \in 1 .. k : Message[j] = s[j]
      BY <1>5, <2>2, DriversAssumption DEF n
    <3> HIDE DEF k
    <3>3. /\ SubSeq(Message, 1, k) \in Seq({1, Char!Nul}) /\ Len(SubSeq(Message, 1, k)) = k
          /\ \A j \in 1 .. k : SubSeq(Message, 1, k)[j] = Message[j]
      BY <3>1, <3>2, SubSeqProperties
    <3>4. /\ SubSeq(s, 1, k) \in Seq({1, Char!Nul}) /\ Len(SubSeq(s, 1, k)) = k
          /\ \A j \in 1 .. k : SubSeq(s, 1, k)[j] = s[j]
      BY <1>5, <3>2, SubSeqProperties
    <3>5. SubSeq(Message, 1, k) = SubSeq(s, 1, k)
      BY <3>2, <3>3, <3>4, SeqEqual
    <3> QED BY <3>5 DEF k
  <2>6. Char!TextOf(Message)' = said'
    <3>1. Char!TextOf(Message)' = Char!TextOf(Message)
      BY <1>2
    <3> QED BY <2>1, <2>4, <2>5, <3>1
  <2> QED BY <2>6 DEF TextKept
<1>8. CASE s # <<>> /\ Char!Last(s) # Char!Nul
  BY <1>2, <1>8 DEF TextKept
<1> QED BY <1>6, <1>7, <1>8

(* Every step keeps what processes read and write right.                   *)
LEMMA CharRightStep ==
  ASSUME CharInv, CharTyped', OpenInv(CharOpen), Char!CharNext PROVE CharRight' /\ CharFresh'
<1>0. UNCHANGED <<pid, parent, exe>>
  BY DEF CharInv, CharTyped
<1>1. CASE Char!Loaded \/ Char!Leaving \/ Char!Unloaded
  BY <1>0, <1>1, CharLoads
<1>2. ASSUME NEW p \in Users,
             \/ Char!OpenClose(p) \/ Char!Closed(p) \/ Char!Tree(p) \/ Char!Test(p) \/ Char!Take(p) \/ Char!StorePtr(p)
             \/ Char!Copy(p) \/ Char!Written(p)
             \/ (\E n \in CharLengths : Char!Read(p, n)) \/ (\E m \in Char!Texts : Char!Write(p, m))
      PROVE  CharRight' /\ CharFresh'
  <2>1. cmodule' = cmodule /\ (~coverlapped' => ~coverlapped)
    <3> USE DEF Char!open, Char!kernel
    <3>0. CASE Char!OpenTest(p)
      BY <3>0 DEF Char!OpenTest
    <3>1. CASE Char!OpenClose(p)
      <4>1. CASE Char!Load(p) \/ Char!OpenStore(p) \/ Char!SetPtr(p) \/ Char!OpenGet(p) \/ Char!Close(p) \/ Char!CloseStore(p)
        BY <4>1 DEF Char!Load, Char!OpenStore, Char!SetPtr, Char!OpenGet, Char!Close, Char!CloseStore
      <4> QED BY <3>0, <3>1, <4>1 DEF Char!OpenClose
    <3>2. CASE Char!Closed(p)
      BY <3>2 DEF Char!Closed, Char!ClosePut
    <3>3. CASE Char!Tree(p) \/ Char!Test(p) \/ Char!Take(p) \/ Char!StorePtr(p)
      BY <3>3 DEF Char!Tree, Char!Test, Char!Take, Char!StorePtr
    <3>4. CASE Char!Copy(p) \/ Char!Written(p)
      BY <3>4 DEF Char!Copy, Char!Written
    <3>5. CASE (\E n \in CharLengths : Char!Read(p, n)) \/ (\E m \in Char!Texts : Char!Write(p, m))
      BY <3>5 DEF Char!Read, Char!Write
    <3> QED BY <1>2, <3>1, <3>2, <3>3, <3>4, <3>5
  <2>2. cmodule # "out"
    <3> SUFFICES ASSUME cmodule = "out" PROVE FALSE
      OBVIOUS
    <3>1. cpc[p] \in {"away", "oops"}
      BY DEF OpenInv, Shape, CharOpen
    <3> QED BY <1>2, <3>1 DEF Char!OpenClose, Char!OpenTest, Char!Load, Char!OpenStore, Char!SetPtr, Char!OpenGet, Char!Close, Char!CloseStore,
         Char!Closed, Char!ClosePut, Char!Tree, Char!Test, Char!Take, Char!StorePtr, Char!Copy, Char!Written, Char!Read, Char!Write, Char!Goto
  <2>3. ASSUME ~coverlapped' PROVE (\A q \in Users : Copied(q)' /\ OwnLines(q)') /\ TextKept'
    <3>1. Copied(p)' /\ OwnLines(p)'
      BY <1>0, <1>2, <2>1, <2>2, <2>3, CharOwn
    <3>2. \A q \in Users : q # p => /\ cpc'[q] = cpc[q] /\ cgot'[q] = cgot[q] /\ clength'[q] = clength[q]
                                    /\ cptr'[q] = cptr[q] /\ input'[q] = input[q]
      <4> SUFFICES ASSUME NEW q \in Users, q # p
                   PROVE  /\ cpc'[q] = cpc[q] /\ cgot'[q] = cgot[q] /\ clength'[q] = clength[q]
                          /\ cptr'[q] = cptr[q] /\ input'[q] = input[q]
        OBVIOUS
      <4> USE DEF Char!Goto, Char!read, Char!write
      <4>0. /\ cpc \in [Users -> Places] /\ CharTyped
        BY DEF CharInv, OpenInv, Shape, CharOpen
      <4>1. CASE Char!OpenClose(p)
        BY <4>0, <4>1 DEF Char!OpenClose, Char!OpenTest, Char!Load, Char!OpenStore, Char!SetPtr, Char!OpenGet, Char!Close, Char!CloseStore
      <4>2. CASE Char!Closed(p)
        BY <4>0, <4>2 DEF Char!Closed, Char!ClosePut, Char!Forget
      <4>3. CASE Char!Tree(p) \/ Char!Test(p) \/ Char!Take(p) \/ Char!StorePtr(p)
        BY <4>0, <4>3 DEF Char!Tree, Char!Test, Char!Take, Char!StorePtr, CharTyped
      <4>4. CASE Char!Copy(p) \/ Char!Written(p)
        BY <4>0, <4>4 DEF Char!Copy, Char!Written, CharTyped
      <4>5. CASE (\E n \in CharLengths : Char!Read(p, n)) \/ (\E m \in Char!Texts : Char!Write(p, m))
        BY <4>0, <4>5 DEF Char!Read, Char!Write, CharTyped
      <4> QED BY <1>2, <4>1, <4>2, <4>3, <4>4, <4>5
    <3>3. UNCHANGED <<Message, call_tree, call_tree_Ptr>> \/ cpc[p] \notin Outside
      BY <1>2 DEF Char!OpenClose, Char!Closed, Char!Tree, Char!Test, Char!Take, Char!StorePtr, Char!Copy, Char!Written, Char!Read, Char!Write,
         Char!Goto, Char!read, Char!write, Outside
    <3>4. TextKept'
      <4>1. CASE Char!Written(p)
        BY <2>1, <2>2, <2>3, <4>1, TextWritten
      <4>2. CASE Char!Copy(p)
        <5>1. cpc'[p] = "copy" /\ input'[p].at = input[p].at + 1 /\ input[p].at \in Nat
          BY <4>2 DEF Char!Copy, CharInv, CharTyped
        <5> QED BY <5>1 DEF TextKept
      <4>3. CASE ~Char!Written(p) /\ ~Char!Copy(p)
        <5>1. UNCHANGED <<Message, said>> /\ cpc[p] # "copy"
          BY <1>2, <4>3 DEF Char!OpenClose, Char!OpenTest, Char!Load, Char!OpenStore, Char!SetPtr, Char!OpenGet, Char!Close, Char!CloseStore,
             Char!Closed, Char!ClosePut, Char!Tree, Char!Test, Char!Take, Char!StorePtr, Char!Read, Char!Write, Char!Goto, Char!write
        <5>2. TextKept
          BY <2>1, <2>2, <2>3 DEF CharInv, CharRight, TextKept
        <5>3. Char!TextOf(Message)' = Char!TextOf(Message)
          BY <5>1
        <5>4. (\A q \in Users : cpc'[q] = "copy" => input'[q].at = 0) => (\A q \in Users : cpc[q] = "copy" => input[q].at = 0)
          BY <3>2, <5>1
        <5> QED BY <5>1, <5>2, <5>3, <5>4 DEF TextKept
      <4> QED BY <4>1, <4>2, <4>3
    <3>5. \A q \in Users : Copied(q)' /\ OwnLines(q)'
      BY <1>0, <2>1, <2>2, <2>3, <3>1, <3>2, <3>3, CharUses
    <3> QED BY <3>4, <3>5
  <2> QED BY <2>1, <2>2, <2>3 DEF CharRight, CharFresh, TextKept
<1> QED
  BY <1>1, <1>2 DEF Char!CharNext

-----------------------------------------------------------------------------
(* The kernel's part of the state is well formed. *)
KernelTyped(s) == s.users \in Int /\ s.unheld \subseteq Users /\ s.module \in {"in", "going", "out"}

(* Every step keeps it so.                                                 *)
LEMMA KernelStep ==
  ASSUME NEW s, NEW t, KernelTyped(s), OpenStep(s, t) PROVE KernelTyped(t)
<1> USE DEF KernelTyped
<1>1. CASE Loads(s, t) \/ Leaves(s, t) \/ Frees(s, t)
  BY <1>1 DEF Loads, Leaves, Frees
<1>2. ASSUME NEW p \in Users, Steps(p, s, t) PROVE KernelTyped(t)
  BY <1>2 DEF Steps, Tested, HasLoaded, Increments, Decrements, Gets, Puts, Uses, SameModule
<1> QED BY <1>1, <1>2 DEF OpenStep

(* The inductive invariant of both devices.                                *)
DriversTyped ==
  /\ OpenInv(CharOpen) /\ OpenInv(HelloOpen) /\ KernelTyped(CharOpen) /\ KernelTyped(HelloOpen)
  /\ HelloInv /\ CharInv

(* Both devices start so.                                                  *)
LEMMA DriversTypedStart == ASSUME DriversInit PROVE DriversTyped
<1>1. KernelTyped(CharOpen) /\ KernelTyped(HelloOpen)
  BY DEF DriversInit, Char!CharInit, Hello!HelloInit, Char!OpenInit, Hello!OpenInit, KernelTyped, CharOpen, HelloOpen
<1> QED BY <1>1, DriversStart, HelloStart, CharStart DEF DriversTyped

(* A device that does nothing stays as it is.                              *)
LEMMA CharSame == ASSUME CharInv, UNCHANGED cvars PROVE CharInv'
<1>1. LineSet' = LineSet /\ WrittenTexts' = WrittenTexts /\ \A p \in Users : Char!Report(pid[p])' = Char!Report(pid[p])
  BY SameLines, SameReport DEF cvars
<1>2. CharTyped'
  BY <1>1 DEF CharInv, CharTyped, cvars
<1>3. CharFresh'
  BY DEF CharInv, CharFresh, cvars
<1>4. \A p \in Users : Copied(p) /\ OwnLines(p) => Copied(p)' /\ OwnLines(p)'
  BY CharOwnKeeps DEF cvars
<1>5. Char!TextOf(Message)' = Char!TextOf(Message)
  BY DEF cvars
<1>6. CharRight'
  BY <1>4, <1>5 DEF CharInv, CharRight, cvars
<1> QED BY <1>2, <1>3, <1>6 DEF CharInv

(* Every step of either device keeps it.                                   *)
LEMMA DriversTypedStep ==
  ASSUME DriversTyped, [DriversNext]_<<driver, cvars, hvars, msrvars>> PROVE DriversTyped'
<1>1. OpenInv(CharOpen)' /\ OpenInv(HelloOpen)'
  BY DriversStep DEF DriversTyped
<1>2. CASE UNCHANGED cvars
  <2>1. CharInv' /\ KernelTyped(CharOpen)'
    BY <1>2, CharSame DEF DriversTyped, cvars, KernelTyped, CharOpen
  <2>2. HelloInv' /\ KernelTyped(HelloOpen)'
    <3>1. CASE UNCHANGED hvars
      BY <3>1 DEF DriversTyped, hvars, HelloInv, HelloTyped, HelloRight, OwnPieces, TextPieces, KernelTyped, HelloOpen
    <3>2. CASE Hello!HelloNext
      <4>1. KernelTyped(HelloOpen')
        BY <3>2, HelloSteps, KernelStep DEF DriversTyped, OpenInv
      <4>2. HelloInv'
        BY <3>2, HelloTypedStep, HelloRightStep DEF DriversTyped, HelloInv
      <4> QED BY <4>1, <4>2 DEF KernelTyped, HelloOpen
    <3> QED BY <1>2, <3>1, <3>2 DEF DriversNext
  <2> QED BY <1>1, <2>1, <2>2 DEF DriversTyped
<1>3. CASE Char!CharNext /\ UNCHANGED hvars
  <2>1. KernelTyped(CharOpen')
    BY <1>3, CharSteps, KernelStep DEF DriversTyped, OpenInv
  <2>2. CharInv'
    <3>1. CharTyped'
      BY <1>1, <1>3, CharTypedStep DEF DriversTyped, OpenInv, CharInv
    <3> QED BY <1>3, <3>1, CharRightStep DEF DriversTyped, CharInv
  <2>3. HelloInv' /\ KernelTyped(HelloOpen)'
    BY <1>3 DEF DriversTyped, hvars, HelloInv, HelloTyped, HelloRight, OwnPieces, TextPieces, KernelTyped, HelloOpen
  <2>4. KernelTyped(CharOpen)'
    BY <2>1 DEF KernelTyped, CharOpen
  <2> QED BY <1>1, <2>2, <2>3, <2>4 DEF DriversTyped
<1> QED
  BY <1>2, <1>3 DEF DriversNext

(* So it always holds.                                                     *)
LEMMA DriversKeepTyped == DriversSpec => []DriversTyped
BY DriversTypedStart, DriversTypedStep, PTL DEF DriversSpec

(* Any number of processes share one read pointer in each device.  Outside *)
(* the window of device_open each reads its own report (chardev.c:222) or  *)
(* text from the beginning, line by line, to its length or the end, and    *)
(* never what belongs to another or lies behind the end.  A report names   *)
(* the caller and its ancestors, up to task 0 or the MaxTree-th.  A text   *)
(* that was set with its zero reads back until the next write              *)
(* (chardev.c:250), whatever a longer one left behind it.                  *)
THEOREM ReadersServed == DriversSpec => []ReadsItsOwn
<1>1. DriversTyped => ReadsItsOwn
  <2> SUFFICES ASSUME DriversTyped PROVE ReadsItsOwn
    OBVIOUS
  <2>1. Char!OwnReport
    <3> SUFFICES ASSUME cmodule # "out", ~coverlapped, NEW p \in Users
                 PROVE  /\ cgot[p] = SubSeq(Char!Report(pid[p]), 1, Len(cgot[p]))
                        /\ Len(cgot[p]) <= Len(Char!Report(pid[p]))
                        /\ cpc[p] = "open" => clength[p] = 0 \/ Len(cgot[p]) = Len(Char!Report(pid[p]))
      BY DEF Char!OwnReport
    <3> DEFINE r == Char!Report(pid[p])
               g == cgot[p]
               n == Len(g)
    <3>1. CharTyped /\ OwnLines(p)
      BY DEF DriversTyped, CharInv, CharRight
    <3>2. r \in Seq(LineSet) /\ Len(r) \in Nat /\ g \in Seq(LineSet \cup {Char!Garbage}) /\ n \in Nat
      <4>1. g \in Seq(LineSet \cup {Char!Garbage})
        BY <3>1 DEF CharTyped
      <4> QED BY <3>1, <4>1, ReportOf
    <3>3. n <= Len(r) /\ \A k \in 1 .. n : g[k] = r[k]
      BY <3>1 DEF OwnLines
    <3>4. cpc[p] = "open" => clength[p] = 0 \/ n = Len(r)
      BY <3>1 DEF OwnLines, Copying
    <3> HIDE DEF r, g
    <3>5. g = SubSeq(r, 1, n)
      <4>1. /\ SubSeq(r, 1, n) \in Seq(LineSet) /\ Len(SubSeq(r, 1, n)) = n
            /\ \A k \in 1 .. n : SubSeq(r, 1, n)[k] = r[k]
        BY <3>2, <3>3, SubSeqProperties
      <4>2. SubSeq(r, 1, n) \in Seq(LineSet \cup {Char!Garbage})
        BY <4>1
      <4> QED BY <3>2, <3>3, <4>1, <4>2, SeqEqual
    <3> QED BY <3>3, <3>4, <3>5 DEF r, g
  <2>2. Char!ReadsBack
    BY DEF DriversTyped, CharInv, CharRight, Char!ReadsBack
  <2>3. Hello!OwnText
    <3> SUFFICES ASSUME hmodule # "out", ~hoverlapped, NEW p \in Users
                 PROVE  /\ hgot[p] = [k \in 1 .. Len(hgot[p]) |-> Hello!Piece(told[p], k)] /\ Len(hgot[p]) <= 3
                        /\ ended[p] => Len(hgot[p]) = 3
                        /\ hpc[p] \in {"open", "get"} => told[p] = counter - 1
      BY DEF Hello!OwnText
    <3>1. OwnPieces(p) /\ told[p] \in Nat /\ counter \in Nat
      BY DEF DriversTyped, HelloInv, HelloRight, HelloTyped
    <3>2. PICK n \in 0 .. 3 : hgot[p] = TextPieces(p, n) /\ (ended[p] => n = 3)
      BY <3>1 DEF OwnPieces
    <3>3. Len(hgot[p]) = n /\ hgot[p] = [k \in 1 .. n |-> Hello!Piece(told[p], k)]
      BY <3>2 DEF TextPieces
    <3>4. hpc[p] \in {"open", "get"} => told[p] = counter - 1
      BY <3>1 DEF OwnPieces, InText
    <3> QED BY <3>2, <3>3, <3>4
  <2>4. Char!TellsAncestors
    <3> SUFFICES ASSUME NEW p \in Users
                 PROVE  LET text == Char!Report(pid[p])
                        IN /\ text = Char!Told(pid[p])
                           /\ \A n \in 0 .. Len(text) :
                                Char!IsPrefix(Char!Stairs(SubSeq(text, 1, n)), Char!string_formatter(SubSeq(text, 1, n)))
      BY DEF Char!TellsAncestors
    <3>1. parent = Parents /\ exe = Files /\ pid = Pids
      BY DEF DriversTyped, CharInv, CharTyped
    <3>2. pid[p] \in {25, 312}
      BY <3>1 DEF Pids
    <3> QED BY <3>1, <3>2, ReportTells
  <2> QED BY <2>1, <2>2, <2>3, <2>4 DEF ReadsItsOwn
<1> QED BY <1>1, DriversKeepTyped, PTL

(* The state of both devices is well formed; a report has at most MaxTree  *)
(* lines and device_write stays within Message.                            *)
LEMMA DevicesTyped == DriversSpec => [](Char!CharTypeOK /\ Hello!HelloTypeOK)
<1>1. DriversTyped => Char!CharTypeOK /\ Hello!HelloTypeOK
  <2> SUFFICES ASSUME DriversTyped PROVE Char!CharTypeOK /\ Hello!HelloTypeOK
    OBVIOUS
  <2>1. Char!OpenTypeOK /\ cpc \in [Users -> Places]
    BY DEF DriversTyped, OpenInv, Shape, KernelTyped, CharOpen, Char!OpenTypeOK
  <2>2. Hello!OpenTypeOK
    BY DEF DriversTyped, OpenInv, Shape, KernelTyped, HelloOpen, Hello!OpenTypeOK
  <2>3. Char!CharTypeOK
    <3>1. WrittenTexts = Char!SeqOf({1} \cup {Char!Nul}, BUF_LEN)
      BY DEF WrittenTexts, SeqOf, Char!SeqOf
    <3>2. Places = Char!Opening \cup Char!Closing \cup {"away", "open", "oops", "tree", "test", "take", "store_ptr", "copy"}
      BY DEF Places, Special, Tests, Outside, Char!Opening, Char!Testing, Char!Closing
    <3>3. Message \in [Char!Index -> {1} \cup {Char!Nul}]
      BY DEF DriversTyped, CharInv, CharTyped, Char!Index
    <3> QED BY <2>1, <3>1, <3>2, <3>3 DEF DriversTyped, CharInv, CharTyped, Char!CharTypeOK
  <2>4. Hello!HelloTypeOK
    <3>1. HelloPlaces = Hello!Opening \cup Hello!Closing \cup {"away", "open", "oops", "test", "take", "store_ptr"}
      BY DEF HelloPlaces, Special, Tests, Outside, Hello!Opening, Hello!Testing, Hello!Closing
    <3> QED BY <2>2, <3>1 DEF DriversTyped, HelloInv, HelloTyped, Hello!HelloTypeOK
  <2> QED BY <2>3, <2>4
<1> QED BY <1>1, DriversKeepTyped, PTL

-----------------------------------------------------------------------------
(* The operations of the vectors of msrtest.                               *)
Ops == UNION {{Vector[v][k] : k \in DOMAIN Vector[v]} : v \in DOMAIN Vector}

(* The places of the three vectors. *)
StartAt == Place("msr_start")
StopAt  == Place("msr_stop")
ClockAt == Place("read_tsc")

(* In any order of the vectors: each is where Place says, they share no    *)
(* place, and behind read_tsc comes one of the others or their end.        *)
PlacesRight ==
  /\ StartAt \in 1 .. 13 /\ StopAt \in 1 .. 13
  /\ DOMAIN Memory = 1 .. 13 /\ \A k \in 1 .. 13 : Memory[k] \in Ops
  /\ \A k \in 0 .. 6 : StartAt + k \in 1 .. 13 /\ Memory[StartAt + k] = msr_start[k + 1]
  /\ \A k \in 0 .. 4 : StopAt + k \in 1 .. 13 /\ Memory[StopAt + k] = msr_stop[k + 1]
  /\ ClockAt \in 1 .. 13 /\ Memory[ClockAt] = Op("MSR_RDTSC", "none", 0)
  /\ ClockAt \notin StopAt .. StopAt + 4 /\ ClockAt \notin StartAt .. StartAt + 6
  /\ \A k \in 0 .. 6 : StartAt + k \notin StopAt .. StopAt + 4
  /\ ClockAt + 1 \in {StartAt, StopAt, 14}

(* The registers that a process sees.                                      *)
Regs(p) == msr[cpu[p]]

(* Its counters are stopped, or run, and have counted what happened since  *)
(* msr_start; ReadOut: both counts are in msr_stop's entries.              *)
Frozen(p) == Regs(p).global_ctrl = 0 /\ Regs(p).pmc = since[p] /\ Regs(p).fixed_ctr = since[p]
Counts(p) == /\ Regs(p).global_ctrl = 1 /\ Regs(p).perfevtsel = 1 /\ Regs(p).fixed_ctr_ctrl = 1
             /\ Regs(p).pmc = since[p] /\ Regs(p).fixed_ctr = since[p]
ReadOut(p) == val[p][StopAt + 2] = since[p] /\ val[p][StopAt + 3] = since[p]

(* From read_tsc on the time passed is not less than the events counted.   *)
BeforeStart(p) ==
  /\ at[p] \in {1, 2} => since[p] = 0
  /\ at[p] = 2 /\ i[p] >= 1 => val[p][ClockAt] <= now
  /\ at[p] \in 3 .. 6 => ts_start[p] + since[p] <= now

(* msr_start has reset and enabled the counters as far as it has been      *)
(* executed.                                                               *)
Starts(p) ==
  at[p] = 3 =>
    /\ i[p] \in 1 .. 5 => Regs(p).global_ctrl = 0 /\ since[p] = 0
    /\ i[p] \in 2 .. 5 => Regs(p).pmc = 0
    /\ i[p] \in 3 .. 5 => Regs(p).fixed_ctr = 0
    /\ i[p] \in 4 .. 5 => Regs(p).perfevtsel = 1
    /\ i[p] = 5 => Regs(p).fixed_ctr_ctrl = 1
    /\ i[p] = 6 => Counts(p)

(* Between msr_start and msr_stop the counters run; msr_stop stops them    *)
(* and then reads them.                                                    *)
Stops(p) ==
  /\ at[p] = 4 \/ (at[p] = 5 /\ i[p] <= 0) => Counts(p)
  /\ at[p] = 5 /\ i[p] >= 1 => Frozen(p)
  /\ at[p] = 5 /\ i[p] >= 3 => val[p][StopAt + 2] = since[p]
  /\ at[p] = 5 /\ i[p] >= 4 => val[p][StopAt + 3] = since[p]

(* The second read_tsc may run on through msr_start or msr_stop, whatever  *)
(* lies behind it: not through the entries that were read, unless it stops *)
(* the counters first and reads them again.                                *)
AfterStop(p) ==
  /\ at[p] \in {6, 7} => ReadOut(p)
  /\ at[p] = 6 /\ ClockAt + 1 = StopAt => Frozen(p)
  /\ at[p] = 6 /\ i[p] >= 1 => val[p][ClockAt] >= ts_start[p] + since[p]
  /\ at[p] = 7 => ts_end[p] - ts_start[p] >= since[p]

(* All this of a process that has the driver and was not disturbed.        *)
Right(p) == fd[p] = "open" /\ ~disturbed[p] => BeforeStart(p) /\ Starts(p) /\ Stops(p) /\ AfterStop(p)

(* The state is well formed; no counter is ahead of the clock.             *)
MsrTyped ==
  /\ MsrTypeOK /\ layout \in Layouts
  /\ val \in [Procs -> [DOMAIN Memory -> Nat]]
  /\ ts_start \in [Procs -> Nat] /\ ts_end \in [Procs -> Nat] /\ since \in [Procs -> Nat]
  /\ disturbed \in [Procs -> BOOLEAN] /\ behind \in {"MSR_NOP", "MSR_STOP", "unknown"}
  /\ \A c \in CPUs :
       /\ msr[c].pmc <= now /\ msr[c].fixed_ctr <= now
       /\ {msr[c].global_ctrl, msr[c].perfevtsel, msr[c].fixed_ctr_ctrl} \subseteq {0, 1}

(* Where the loop over a vector may be, for each call of main; it runs on  *)
(* for at most one vector.                                                 *)
Steady(p) ==
  /\ at[p] = 1 => fd[p] = "none" /\ since[p] = 0
  /\ i[p] # -1 => at[p] \in {2, 3, 5, 6}
  /\ at[p] = 3 => i[p] <= 6
  /\ at[p] = 5 => i[p] <= 4
  /\ at[p] = 6 /\ ClockAt + 1 = StartAt => i[p] <= 7
  /\ at[p] = 6 /\ ClockAt + 1 = StopAt => i[p] <= 5

(* The inductive invariant of the MSR driver and its test program.         *)
MsrInv0 == PlacesRight /\ MsrTyped /\ (\A p \in Procs : Steady(p) /\ Right(p))
-----------------------------------------------------------------------------
(* Sequences of one, two and three sequences, laid behind one another.     *)
LEMMA OneFlat ==
  ASSUME NEW S, NEW a \in Seq(S), NEW s, s = [k \in 1 .. 1 |-> a]
  PROVE  FlattenSeq(s) = a
<1>1. Len(s) = 1 /\ s[1] = a
  OBVIOUS
<1> DEFINE Eq(f) == f = [n \in 1 .. Len(s) |-> IF n = 1 THEN s[n] ELSE f[n - 1] \o s[n]]
<1>2. \E f : Eq(f)
  <2>1. Eq([n \in 1 .. 1 |-> a])
    BY <1>1
  <2> QED BY <2>1
<1>3. PICK f : Eq(f) /\ FlattenSeq(s) = f[Len(s)]
  BY <1>1, <1>2 DEF FlattenSeq
<1> QED
  BY <1>1, <1>3

(* Two sequences behind one another.                                       *)
LEMMA TwoFlat ==
  ASSUME NEW S, NEW a \in Seq(S), NEW b \in Seq(S), NEW s,
         Len(s) = 2, s[1] = a, s[2] = b
  PROVE  FlattenSeq(s) = a \o b
<1> DEFINE Eq(f) == f = [n \in 1 .. Len(s) |-> IF n = 1 THEN s[n] ELSE f[n - 1] \o s[n]]
<1>1. Eq([n \in 1 .. 2 |-> IF n = 1 THEN a ELSE a \o b])
  OBVIOUS
<1>2. \E f : Eq(f)
  BY <1>1
<1> DEFINE f == CHOOSE f : Eq(f)
<1>3. FlattenSeq(s) = f[Len(s)]
  BY DEF FlattenSeq
<1> HIDE DEF f
<1>5. f = [n \in 1 .. 2 |-> IF n = 1 THEN s[n] ELSE f[n - 1] \o s[n]]
  BY <1>2 DEF f
<1>4. f[1] = a /\ f[2] = f[1] \o b
  <2>1. \A j \in DOMAIN f : f[j] = IF j = 1 THEN s[j] ELSE f[j - 1] \o s[j]
    BY <1>5, Zenon
  <2>2. DOMAIN f = 1 .. 2 /\ 1 \in 1 .. 2 /\ 2 \in 1 .. 2 /\ 2 # 1 /\ 2 - 1 = 1
    BY <1>5
  <2>3. f[1] = s[1] /\ f[2] = f[2 - 1] \o s[2]
    BY <2>1, <2>2, Zenon
  <2> QED BY <2>2, <2>3, Zenon
<1> QED
  BY <1>3, <1>4

(* Three sequences behind one another.                                     *)
LEMMA ThreeFlat ==
  ASSUME NEW S, NEW a \in Seq(S), NEW b \in Seq(S), NEW c \in Seq(S), NEW s,
         Len(s) = 3, s[1] = a, s[2] = b, s[3] = c
  PROVE  FlattenSeq(s) = (a \o b) \o c
<1> DEFINE Eq(f) == f = [n \in 1 .. Len(s) |-> IF n = 1 THEN s[n] ELSE f[n - 1] \o s[n]]
<1>1. Eq([n \in 1 .. 3 |-> IF n = 1 THEN a ELSE IF n = 2 THEN a \o b ELSE (a \o b) \o c])
  OBVIOUS
<1>2. \E f : Eq(f)
  BY <1>1
<1> DEFINE f == CHOOSE f : Eq(f)
<1>3. FlattenSeq(s) = f[Len(s)]
  BY DEF FlattenSeq
<1> HIDE DEF f
<1>5. f = [n \in 1 .. 3 |-> IF n = 1 THEN s[n] ELSE f[n - 1] \o s[n]]
  BY <1>2 DEF f
<1>4. f[1] = a /\ f[2] = f[1] \o b /\ f[3] = f[2] \o c
  <2>1. \A j \in DOMAIN f : f[j] = IF j = 1 THEN s[j] ELSE f[j - 1] \o s[j]
    BY <1>5, Zenon
  <2>2. DOMAIN f = 1 .. 3 /\ 1 \in 1 .. 3 /\ 2 \in 1 .. 3 /\ 3 \in 1 .. 3 /\ 2 # 1 /\ 3 # 1 /\ 2 - 1 = 1 /\ 3 - 1 = 2
    BY <1>5
  <2>3. f[1] = s[1] /\ f[2] = f[2 - 1] \o s[2] /\ f[3] = f[3 - 1] \o s[3]
    BY <2>1, <2>2, Zenon
  <2> QED BY <2>2, <2>3, Zenon
<1> QED
  BY <1>3, <1>4

(* The three vectors. *)
LEMMA VectorTypes ==
  /\ DOMAIN Vector = {"msr_start", "msr_stop", "read_tsc"}
  /\ msr_start \in Seq(Ops) /\ Vector.msr_start = msr_start /\ Len(msr_start) = 7
  /\ msr_stop \in Seq(Ops) /\ Vector.msr_stop = msr_stop /\ Len(msr_stop) = 5
  /\ Vector.read_tsc \in Seq(Ops) /\ Len(Vector.read_tsc) = 1 /\ Vector.read_tsc[1] = Op("MSR_RDTSC", "none", 0)
<1>1. Vector.msr_start = msr_start /\ Vector.msr_stop = msr_stop /\ Vector.read_tsc = <<Op("MSR_RDTSC", "none", 0)>>
      /\ DOMAIN Vector = {"msr_start", "msr_stop", "read_tsc"}
  BY DEF Vector
<1>2. \A v \in DOMAIN Vector : \A k \in DOMAIN Vector[v] : Vector[v][k] \in Ops
  BY DEF Ops
<1>3. msr_start \in Seq(Ops) /\ Len(msr_start) = 7
  <2>1. DOMAIN msr_start = 1 .. 7 /\ Len(msr_start) = 7
    BY DEF msr_start
  <2>2. \A k \in 1 .. 7 : msr_start[k] \in Ops
    BY <1>1, <1>2, <2>1
  <2>3. msr_start = [k \in 1 .. 7 |-> msr_start[k]]
    BY DEF msr_start
  <2> QED BY <2>1, <2>2, <2>3, SeqDef
<1>4. msr_stop \in Seq(Ops) /\ Len(msr_stop) = 5
  <2>1. DOMAIN msr_stop = 1 .. 5 /\ Len(msr_stop) = 5
    BY DEF msr_stop
  <2>2. \A k \in 1 .. 5 : msr_stop[k] \in Ops
    BY <1>1, <1>2, <2>1
  <2>3. msr_stop = [k \in 1 .. 5 |-> msr_stop[k]]
    BY DEF msr_stop
  <2> QED BY <2>1, <2>2, <2>3, SeqDef
<1>5. Vector.read_tsc[1] \in Ops
  BY <1>1, <1>2
<1> QED
  BY <1>1, <1>3, <1>4, <1>5

(* Where the vectors are in one layout: each begins behind those before it. *)
LEMMA LayoutAt ==
  ASSUME layout \in Layouts
  PROVE  LET a == Vector[layout[1]]
             b == Vector[layout[2]]
             c == Vector[layout[3]]
         IN /\ Memory = (a \o b) \o c
            /\ Place(layout[1]) = 1 /\ Place(layout[2]) = 1 + Len(a) /\ Place(layout[3]) = 1 + Len(a \o b)
<1> DEFINE a == Vector[layout[1]]
           b == Vector[layout[2]]
           c == Vector[layout[3]]
<1>1. layout \in [1 .. 3 -> DOMAIN Vector] /\ \A j, k \in 1 .. 3 : layout[j] = layout[k] => j = k
  BY LayoutsAssumption DEF IsInjective
<1>2. \A v \in DOMAIN Vector : Vector[v] \in Seq(Ops)
  BY VectorTypes
<1>3. a \in Seq(Ops) /\ b \in Seq(Ops) /\ c \in Seq(Ops)
  BY <1>1, <1>2
<1>4. Memory = (a \o b) \o c
  <2> DEFINE s == [k \in DOMAIN layout |-> Vector[layout[k]]]
  <2>1. Len(s) = 3 /\ s[1] = a /\ s[2] = b /\ s[3] = c
    BY <1>1
  <2> HIDE DEF s, a, b, c
  <2>2. FlattenSeq(s) = (a \o b) \o c
    BY <1>3, <2>1, ThreeFlat, SMTT(30)
  <2> QED BY <2>2 DEF Memory, s
<1>5. ASSUME NEW n \in 1 .. 3
      PROVE Place(layout[n]) = 1 + Len(FlattenSeq([j \in 1 .. n - 1 |-> Vector[layout[j]]]))
  <2>1. (CHOOSE k \in DOMAIN layout : layout[k] = layout[n]) = n
    BY <1>1
  <2> QED BY <2>1 DEF Place
<1>6. Place(layout[1]) = 1
  <2> DEFINE s == [j \in 1 .. 0 |-> Vector[layout[j]]]
  <2>1. Len(s) = 0
    OBVIOUS
  <2>2. FlattenSeq(s) = s
    BY <2>1 DEF FlattenSeq
  <2> QED BY <1>5, <2>1, <2>2
<1>7. Place(layout[2]) = 1 + Len(a)
  <2> DEFINE s == [j \in 1 .. 1 |-> Vector[layout[j]]]
  <2>1. s = [k \in 1 .. 1 |-> a]
    OBVIOUS
  <2>2. FlattenSeq(s) = a
    BY <1>3, <2>1, OneFlat
  <2> QED BY <1>5, <2>2
<1>8. Place(layout[3]) = 1 + Len(a \o b)
  <2> DEFINE s == [j \in 1 .. 2 |-> Vector[layout[j]]]
  <2>1. Len(s) = 2 /\ s[1] = a /\ s[2] = b
    OBVIOUS
  <2>3. Place(layout[3]) = 1 + Len(FlattenSeq(s))
    BY <1>5
  <2>2. FlattenSeq(s) = a \o b
    <3> HIDE DEF s, a, b
    <3> QED BY <1>3, <2>1, TwoFlat
  <2> HIDE DEF s, a, b
  <2> QED BY <2>2, <2>3
<1> QED
  BY <1>4, <1>6, <1>7, <1>8

(* Every operation of a vector is in memory behind the first.              *)
LEMMA LayoutHas ==
  ASSUME layout \in Layouts
  PROVE  LET a == Len(Vector[layout[1]])
             b == Len(Vector[layout[2]])
             c == Len(Vector[layout[3]])
         IN /\ Memory \in Seq(Ops)
            /\ a \in Nat /\ b \in Nat /\ c \in Nat /\ DOMAIN Memory = 1 .. a + b + c
            /\ Place(layout[1]) = 1 /\ Place(layout[2]) = 1 + a /\ Place(layout[3]) = 1 + a + b
            /\ \A n \in 1 .. 3 : \A k \in 1 .. Len(Vector[layout[n]]) :
                 Memory[Place(layout[n]) + k - 1] = Vector[layout[n]][k]
<1> DEFINE a == Vector[layout[1]]
           b == Vector[layout[2]]
           c == Vector[layout[3]]
<1>1. layout \in [1 .. 3 -> DOMAIN Vector] /\ \A v \in DOMAIN Vector : Vector[v] \in Seq(Ops)
  BY LayoutsAssumption, VectorTypes
<1>2. a \in Seq(Ops) /\ b \in Seq(Ops) /\ c \in Seq(Ops)
  BY <1>1
<1>3. /\ Memory = (a \o b) \o c
      /\ Place(layout[1]) = 1 /\ Place(layout[2]) = 1 + Len(a) /\ Place(layout[3]) = 1 + Len(a \o b)
  BY LayoutAt
<1> HIDE DEF a, b, c
<1>4. /\ a \o b \in Seq(Ops) /\ Len(a \o b) = Len(a) + Len(b)
      /\ \A k \in 1 .. Len(a) + Len(b) : (a \o b)[k] = IF k <= Len(a) THEN a[k] ELSE b[k - Len(a)]
  BY <1>2, ConcatProperties
<1>5. /\ Memory \in Seq(Ops) /\ Len(Memory) = Len(a \o b) + Len(c)
      /\ \A k \in 1 .. Len(a \o b) + Len(c) :
           Memory[k] = IF k <= Len(a \o b) THEN (a \o b)[k] ELSE c[k - Len(a \o b)]
  BY <1>2, <1>3, <1>4, ConcatProperties
<1>6. Len(a) \in Nat /\ Len(b) \in Nat /\ Len(c) \in Nat /\ DOMAIN Memory = 1 .. Len(a) + Len(b) + Len(c)
  BY <1>2, <1>4, <1>5, LenProperties
<1>7. \A k \in 1 .. Len(a) : Memory[1 + k - 1] = a[k]
  BY <1>4, <1>5, <1>6
<1>8. \A k \in 1 .. Len(b) : Memory[1 + Len(a) + k - 1] = b[k]
  <2> SUFFICES ASSUME NEW k \in 1 .. Len(b) PROVE Memory[1 + Len(a) + k - 1] = b[k]
    OBVIOUS
  <2> DEFINE j == Len(a) + k
  <2>1. j \in 1 .. Len(a) + Len(b) /\ ~ (j <= Len(a)) /\ j - Len(a) = k /\ 1 + Len(a) + k - 1 = j
    BY <1>6
  <2> HIDE DEF j
  <2>2. Memory[j] = (a \o b)[j]
    BY <1>4, <1>5, <1>6, <2>1
  <2>3. (a \o b)[j] = b[j - Len(a)]
    BY <1>4, <2>1
  <2> QED BY <2>1, <2>2, <2>3
<1>9. \A k \in 1 .. Len(c) : Memory[1 + Len(a) + Len(b) + k - 1] = c[k]
  BY <1>4, <1>5, <1>6
<1>10. ASSUME NEW n \in 1 .. 3, NEW k \in 1 .. Len(Vector[layout[n]])
       PROVE  Memory[Place(layout[n]) + k - 1] = Vector[layout[n]][k]
  <2>1. CASE n = 1
    BY <1>3, <1>7, <2>1 DEF a
  <2>2. CASE n = 2
    BY <1>3, <1>8, <2>2 DEF b
  <2>3. CASE n = 3
    <3>1. Place(layout[n]) = 1 + Len(a) + Len(b)
      BY <1>3, <1>4, <1>6, <2>3
    <3> QED BY <1>9, <2>3, <3>1 DEF c
  <2> QED BY <2>1, <2>2, <2>3
<1>11. Place(layout[3]) = 1 + Len(a) + Len(b)
  BY <1>3, <1>4, <1>6
<1> QED
  BY <1>3, <1>5, <1>6, <1>10, <1>11 DEF a, b, c

(* So the vectors are where they should be, in each of the six orders.     *)
LEMMA PlacesAre == layout \in Layouts => PlacesRight
<1> SUFFICES ASSUME layout \in Layouts PROVE PlacesRight
  OBVIOUS
<1>1. /\ layout \in [1 .. 3 -> {"msr_start", "msr_stop", "read_tsc"}]
      /\ \A j, k \in 1 .. 3 : layout[j] = layout[k] => j = k
  BY LayoutsAssumption, VectorTypes DEF IsInjective
<1>2. layout[1] # layout[2] /\ layout[1] # layout[3] /\ layout[2] # layout[3]
      /\ {layout[1], layout[2], layout[3]} = {"msr_start", "msr_stop", "read_tsc"}
  BY <1>1
<1> DEFINE L == [v \in {"msr_start", "msr_stop", "read_tsc"} |-> Len(Vector[v])]
<1>3. L["msr_start"] = 7 /\ L["msr_stop"] = 5 /\ L["read_tsc"] = 1
  BY VectorTypes
<1>4. /\ DOMAIN Memory = 1 .. L[layout[1]] + L[layout[2]] + L[layout[3]]
      /\ Place(layout[1]) = 1 /\ Place(layout[2]) = 1 + L[layout[1]]
      /\ Place(layout[3]) = 1 + L[layout[1]] + L[layout[2]]
  <2>1. \A n \in 1 .. 3 : L[layout[n]] = Len(Vector[layout[n]])
    BY <1>1
  <2> HIDE DEF L
  <2>2. L[layout[1]] = Len(Vector[layout[1]]) /\ L[layout[2]] = Len(Vector[layout[2]]) /\ L[layout[3]] = Len(Vector[layout[3]])
    BY <2>1
  <2> QED BY <2>2, LayoutHas, Zenon
<1>5. \A v \in {"msr_start", "msr_stop", "read_tsc"} : \A k \in 1 .. L[v] : Memory[Place(v) + k - 1] = Vector[v][k]
  <2>1. \A n \in 1 .. 3 : \A k \in 1 .. Len(Vector[layout[n]]) : Memory[Place(layout[n]) + k - 1] = Vector[layout[n]][k]
    BY LayoutHas
  <2>2. \A v \in {"msr_start", "msr_stop", "read_tsc"} : \E n \in 1 .. 3 : v = layout[n]
    BY <1>2
  <2> QED BY <2>1, <2>2, SMTT(30)
<1> HIDE DEF L
<1>11. \/ layout[1] = "msr_start" /\ layout[2] = "msr_stop" /\ layout[3] = "read_tsc"
       \/ layout[1] = "msr_start" /\ layout[2] = "read_tsc" /\ layout[3] = "msr_stop"
       \/ layout[1] = "msr_stop" /\ layout[2] = "msr_start" /\ layout[3] = "read_tsc"
       \/ layout[1] = "msr_stop" /\ layout[2] = "read_tsc" /\ layout[3] = "msr_start"
       \/ layout[1] = "read_tsc" /\ layout[2] = "msr_start" /\ layout[3] = "msr_stop"
       \/ layout[1] = "read_tsc" /\ layout[2] = "msr_stop" /\ layout[3] = "msr_start"
  BY <1>1, <1>2
<1>10. DOMAIN Memory = 1 .. 13 /\
       \/ StartAt = 1 /\ StopAt = 8 /\ ClockAt = 13
       \/ StartAt = 1 /\ StopAt = 9 /\ ClockAt = 8
       \/ StartAt = 6 /\ StopAt = 1 /\ ClockAt = 13
       \/ StartAt = 7 /\ StopAt = 1 /\ ClockAt = 6
       \/ StartAt = 2 /\ StopAt = 9 /\ ClockAt = 1
       \/ StartAt = 7 /\ StopAt = 2 /\ ClockAt = 1
  BY <1>3, <1>4, <1>11 DEF StartAt, StopAt, ClockAt
<1>6. StartAt \in 1 .. 13 /\ StopAt \in 1 .. 13 /\ ClockAt \in Nat
  BY <1>10
<1>7. \A k \in 0 .. 6 : Memory[StartAt + k] = msr_start[k + 1]
  <2> SUFFICES ASSUME NEW k \in 0 .. 6 PROVE Memory[StartAt + k] = msr_start[k + 1]
    OBVIOUS
  <2>1. k + 1 \in 1 .. L["msr_start"] /\ StartAt + (k + 1) - 1 = StartAt + k
    BY <1>3, <1>6
  <2>2. Memory[StartAt + (k + 1) - 1] = Vector["msr_start"][k + 1]
    BY <1>5, <2>1 DEF StartAt
  <2> QED BY <2>1, <2>2, VectorTypes
<1>8. \A k \in 0 .. 4 : Memory[StopAt + k] = msr_stop[k + 1]
  <2> SUFFICES ASSUME NEW k \in 0 .. 4 PROVE Memory[StopAt + k] = msr_stop[k + 1]
    OBVIOUS
  <2>1. k + 1 \in 1 .. L["msr_stop"] /\ StopAt + (k + 1) - 1 = StopAt + k
    BY <1>3, <1>6
  <2>2. Memory[StopAt + (k + 1) - 1] = Vector["msr_stop"][k + 1]
    BY <1>5, <2>1 DEF StopAt
  <2> QED BY <2>1, <2>2, VectorTypes
<1>9. Memory[ClockAt] = Op("MSR_RDTSC", "none", 0)
  <2>1. 1 \in 1 .. L["read_tsc"] /\ ClockAt + 1 - 1 = ClockAt
    BY <1>3, <1>6
  <2>2. Memory[ClockAt + 1 - 1] = Vector["read_tsc"][1]
    BY <1>5, <2>1 DEF ClockAt
  <2> QED BY <2>1, <2>2, VectorTypes
<1>12. \A k \in DOMAIN Memory : Memory[k] \in Ops
  BY LayoutHas, LenProperties, ElementOfSeq
<1> QED
  BY <1>6, <1>7, <1>8, <1>9, <1>10, <1>12 DEF PlacesRight

(* The compiler's order does not change.                                   *)
LEMMA SameLayout ==
  ASSUME UNCHANGED layout
  PROVE  /\ PlacesRight' = PlacesRight /\ Memory' = Memory
         /\ StartAt' = StartAt /\ StopAt' = StopAt /\ ClockAt' = ClockAt
BY DEF PlacesRight, Memory, StartAt, StopAt, ClockAt, Place

(* What the operations are. *)
LEMMA OpsAre ==
  \A o \in Ops : /\ o.op \in {"MSR_WRITE", "MSR_READ", "MSR_STOP", "MSR_RDTSC"}
                 /\ o.op \in {"MSR_WRITE", "MSR_READ"} => o.ecx \in Registers
                 /\ o.op = "MSR_WRITE" => o.eax \in {0, 1} /\ (o.ecx \in {"pmc", "fixed_ctr"} => o.eax = 0)
<1> USE DEF Op, WriteMsr, ReadMsr, Stop, Registers
<1>1. /\ msr_start = <<msr_start[1], msr_start[2], msr_start[3], msr_start[4], msr_start[5], msr_start[6], msr_start[7]>>
      /\ msr_stop = <<msr_stop[1], msr_stop[2], msr_stop[3], msr_stop[4], msr_stop[5]>>
  BY DEF msr_start, msr_stop
<1> SUFFICES ASSUME NEW v \in DOMAIN Vector, NEW k \in DOMAIN Vector[v]
             PROVE  LET o == Vector[v][k] IN
                    /\ o.op \in {"MSR_WRITE", "MSR_READ", "MSR_STOP", "MSR_RDTSC"}
                    /\ o.op \in {"MSR_WRITE", "MSR_READ"} => o.ecx \in Registers
                    /\ o.op = "MSR_WRITE" => o.eax \in {0, 1} /\ (o.ecx \in {"pmc", "fixed_ctr"} => o.eax = 0)
  BY DEF Ops
<1>2. CASE v = "msr_start"
  <2>1. k \in 1 .. 7
    BY <1>2, VectorTypes, LenProperties
  <2> QED BY <1>2, <2>1 DEF Vector, msr_start
<1>3. CASE v = "msr_stop"
  <2>1. k \in 1 .. 5
    BY <1>3, VectorTypes, LenProperties
  <2> QED BY <1>3, <2>1 DEF Vector, msr_stop
<1>4. CASE v = "read_tsc"
  <2>1. k = 1
    BY <1>4, VectorTypes, LenProperties
  <2> QED BY <1>4, <2>1, VectorTypes
<1> QED
  BY <1>2, <1>3, <1>4, VectorTypes

(* One turn of the loop, with what it finds. *)
HereIs(p) == Place(Main[at[p]]) + i[p]
Found(p) == IF HereIs(p) \in DOMAIN Memory THEN Memory[HereIs(p)] ELSE Op(behind, "none", 0)
Executes(p, here, entry) ==
  LET c == cpu[p]
  IN /\ i[p] # -1
     /\ val' = CASE entry.op = "MSR_READ"  -> [val EXCEPT ![p][here] = msr[c][entry.ecx]]
                 [] entry.op = "MSR_RDTSC" -> [val EXCEPT ![p][here] = now]
                 [] OTHER -> val
     /\ IF entry.op = "MSR_WRITE"
        THEN /\ msr' = [msr EXCEPT ![c][entry.ecx] = entry.eax]
             /\ disturbed' = [q \in Procs |-> disturbed[q] \/ (q # p /\ cpu[q] = c /\ Measuring(q))]
        ELSE UNCHANGED <<msr, disturbed>>
     /\ IF entry.op \in {"MSR_STOP", "unknown"} \/ i[p] = MSR_VEC_LIMIT
        THEN i' = [i EXCEPT ![p] = -1] /\ Return(p)
        ELSE i' = [i EXCEPT ![p] = @ + 1] /\ UNCHANGED <<at, ts_start, ts_end>>
     /\ since' = IF at[p] = 3 /\ entry.op = "MSR_WRITE" THEN [since EXCEPT ![p] = 0] ELSE since
     /\ UNCHANGED <<layout, behind, fd, cpu, now>>

(* So a turn does.                                                         *)
LEMMA TurnExecutes == \A p \in Procs : Turn(p) => Executes(p, HereIs(p), Found(p))
BY DEF Turn, Executes, HereIs, Found

(* The calls of main.                                                      *)
LEMMA MainIs == /\ DOMAIN Main = 1 .. 7
                /\ Main[1] = "loadDriver" /\ Main[2] = "read_tsc" /\ Main[3] = "msr_start" /\ Main[4] = "calc_pi"
                /\ Main[5] = "msr_stop" /\ Main[6] = "read_tsc" /\ Main[7] = "results"
BY DEF Main

(* What the loop finds is one of the operations, or what lies behind the   *)
(* last.                                                                   *)
LEMMA EntryTyped ==
  ASSUME NEW p \in Procs, PlacesRight, MsrTyped
  PROVE  \/ Found(p) \in Ops /\ HereIs(p) \in 1 .. 13
         \/ Found(p).op \in {"MSR_NOP", "MSR_STOP", "unknown"}
BY DEF PlacesRight, MsrTyped, Found, Op

(* What it finds while it is within the vector that was called.            *)
LEMMA EntryOwn ==
  ASSUME NEW p \in Procs, PlacesRight, MsrTyped, Steady(p), i[p] # -1
  PROVE  /\ at[p] \in {2, 3, 5, 6} /\ i[p] \in 0 .. MSR_VEC_LIMIT
         /\ at[p] = 3 => i[p] \in 0 .. 6 /\ HereIs(p) = StartAt + i[p] /\ Found(p) = msr_start[i[p] + 1]
         /\ at[p] = 5 => i[p] \in 0 .. 4 /\ HereIs(p) = StopAt + i[p] /\ Found(p) = msr_stop[i[p] + 1]
         /\ at[p] \in {2, 6} => HereIs(p) = ClockAt + i[p]
         /\ at[p] \in {2, 6} /\ i[p] = 0 => Found(p) = Op("MSR_RDTSC", "none", 0)
         /\ at[p] = 6 /\ i[p] >= 1 =>
              \/ ClockAt + 1 = StartAt /\ i[p] \in 1 .. 7 /\ Found(p) = msr_start[i[p]]
              \/ ClockAt + 1 = StopAt /\ i[p] \in 1 .. 5 /\ Found(p) = msr_stop[i[p]]
              \/ ClockAt + 1 = 14 /\ Found(p) = Op(behind, "none", 0)
<1>1. at[p] \in {2, 3, 5, 6} /\ i[p] \in 0 .. MSR_VEC_LIMIT
  BY LimitAssumption DEF Steady, MsrTyped, MsrTypeOK
<1>2. ASSUME at[p] = 3
      PROVE  i[p] \in 0 .. 6 /\ HereIs(p) = StartAt + i[p] /\ Found(p) = msr_start[i[p] + 1]
  <2>1. i[p] \in 0 .. 6 /\ HereIs(p) = StartAt + i[p]
    BY <1>1, <1>2, MainIs, LimitAssumption DEF Steady, HereIs, StartAt
  <2> QED BY <2>1 DEF PlacesRight, Found
<1>3. ASSUME at[p] = 5
      PROVE  i[p] \in 0 .. 4 /\ HereIs(p) = StopAt + i[p] /\ Found(p) = msr_stop[i[p] + 1]
  <2>1. i[p] \in 0 .. 4 /\ HereIs(p) = StopAt + i[p]
    BY <1>1, <1>3, MainIs, LimitAssumption DEF Steady, HereIs, StopAt
  <2> QED BY <2>1 DEF PlacesRight, Found
<1>4. at[p] \in {2, 6} => HereIs(p) = ClockAt + i[p]
  BY MainIs DEF HereIs, ClockAt
<1>5. at[p] \in {2, 6} /\ i[p] = 0 => Found(p) = Op("MSR_RDTSC", "none", 0)
  BY <1>4 DEF PlacesRight, Found
<1>6. ASSUME at[p] = 6, i[p] >= 1
      PROVE  \/ ClockAt + 1 = StartAt /\ i[p] \in 1 .. 7 /\ Found(p) = msr_start[i[p]]
             \/ ClockAt + 1 = StopAt /\ i[p] \in 1 .. 5 /\ Found(p) = msr_stop[i[p]]
             \/ ClockAt + 1 = 14 /\ Found(p) = Op(behind, "none", 0)
  <2> DEFINE k == i[p] - 1
  <2>1. k \in Nat /\ k + 1 = i[p]
    BY <1>1, <1>6, LimitAssumption
  <2>2. CASE ClockAt + 1 = StartAt
    <3>1. k \in 0 .. 6
      BY <1>6, <2>1, <2>2, LimitAssumption DEF Steady
    <3>2. HereIs(p) = StartAt + k
      BY <1>4, <1>6, <2>1, <2>2 DEF PlacesRight
    <3>3. Found(p) = msr_start[k + 1]
      BY <3>1, <3>2 DEF PlacesRight, Found
    <3> QED BY <2>1, <2>2, <3>1, <3>3
  <2>3. CASE ClockAt + 1 = StopAt
    <3>1. k \in 0 .. 4
      BY <1>6, <2>1, <2>3, LimitAssumption DEF Steady
    <3>2. HereIs(p) = StopAt + k
      BY <1>4, <1>6, <2>1, <2>3 DEF PlacesRight
    <3>3. Found(p) = msr_stop[k + 1]
      BY <3>1, <3>2 DEF PlacesRight, Found
    <3> QED BY <2>1, <2>3, <3>1, <3>3
  <2>4. CASE ClockAt + 1 = 14
    BY <1>4, <1>6, <2>1, <2>4 DEF PlacesRight, Found
  <2> QED BY <2>2, <2>3, <2>4 DEF PlacesRight
<1> QED
  BY <1>1, <1>2, <1>3, <1>4, <1>5, <1>6

-----------------------------------------------------------------------------
(* msrtest starts so.                                                      *)
LEMMA MsrStart == ASSUME MsrInit PROVE MsrInv0
<1>1. PlacesRight
  BY PlacesAre DEF MsrInit
<1>2. MsrTyped
  <2>1. MsrTypeOK
    BY MainIs, LimitAssumption DEF MsrInit, MsrTypeOK, Registers
  <2>2. val \in [Procs -> [DOMAIN Memory -> Nat]]
    BY DEF MsrInit
  <2>3. disturbed \in [Procs -> BOOLEAN]
    BY Zenon DEF MsrInit
  <2> QED BY <2>1, <2>2, <2>3 DEF MsrInit, MsrTyped, Registers
<1>3. ASSUME NEW p \in Procs PROVE Steady(p) /\ Right(p)
  BY DEF MsrInit, Steady, Right
<1> QED
  BY <1>1, <1>2, <1>3 DEF MsrInv0

(* Every step keeps the state well formed: a turn of the loop, an event,   *)
(* and the others.                                                         *)
LEMMA TypeTurn ==
  ASSUME MsrInv0, NEW p \in Procs, Turn(p) PROVE MsrTyped'
<1> USE DEF MsrInv0
<1> DEFINE h == HereIs(p)
           e == Found(p)
<1>1. Executes(p, h, e)
  BY TurnExecutes
<1>2. \/ e \in Ops /\ h \in 1 .. 13
      \/ e.op \in {"MSR_NOP", "MSR_STOP", "unknown"}
  BY EntryTyped
<1>3. /\ at[p] \in {2, 3, 5, 6} /\ i[p] \in 0 .. MSR_VEC_LIMIT
  BY <1>1, EntryOwn DEF Executes
<1>4. /\ Memory' = Memory /\ DOMAIN Memory = 1 .. 13
  BY <1>1, SameLayout DEF Executes, PlacesRight
<1>5. ClockAt \in 1 .. 13 /\ Place("read_tsc") = ClockAt /\ Place("read_tsc")' = ClockAt
  BY <1>1 DEF PlacesRight, ClockAt, Executes, Place
<1> HIDE DEF h, e
<1>6. e.op \in {"MSR_READ", "MSR_WRITE"} => e.ecx \in Registers /\ h \in 1 .. 13
  BY <1>2, OpsAre
<1>7. e.op = "MSR_WRITE" => e.eax \in {0, 1} /\ (e.ecx \in {"pmc", "fixed_ctr"} => e.eax = 0)
  BY <1>2, OpsAre
<1>8. e.op = "MSR_RDTSC" => h \in 1 .. 13
  BY <1>2
<1>9. val' \in [Procs -> [DOMAIN Memory -> Nat]]
  <2> USE DEF MsrTyped, MsrTypeOK
  <2>1. val \in [Procs -> [1 .. 13 -> Nat]] /\ now \in Nat
    BY <1>4, LimitAssumption
  <2>2. CASE e.op = "MSR_READ"
    <3>1. msr[cpu[p]][e.ecx] \in Nat
      BY <1>6, <2>2, LimitAssumption
    <3> QED BY <1>1, <1>4, <1>6, <2>1, <2>2, <3>1 DEF Executes
  <2>3. CASE e.op = "MSR_RDTSC"
    BY <1>1, <1>4, <1>8, <2>1, <2>3 DEF Executes
  <2>4. CASE e.op \notin {"MSR_READ", "MSR_RDTSC"}
    BY <1>1, <1>4, <2>1, <2>4 DEF Executes
  <2> QED BY <2>2, <2>3, <2>4
<1>10. /\ msr' \in [CPUs -> [Registers -> 0 .. MaxEvents + 1]]
       /\ \A c \in CPUs :
            /\ msr'[c].pmc <= now /\ msr'[c].fixed_ctr <= now
            /\ {msr'[c].global_ctrl, msr'[c].perfevtsel, msr'[c].fixed_ctr_ctrl} \subseteq {0, 1}
  <2> USE DEF MsrTyped, MsrTypeOK
  <2>1. CASE e.op = "MSR_WRITE"
    <3>1. msr' = [msr EXCEPT ![cpu[p]][e.ecx] = e.eax] /\ cpu[p] \in CPUs
      BY <1>1, <2>1 DEF Executes
    <3>2. e.eax \in 0 .. MaxEvents + 1 /\ now \in Nat
      BY <1>7, <2>1, LimitAssumption
    <3>3. msr' \in [CPUs -> [Registers -> 0 .. MaxEvents + 1]]
      BY <1>6, <2>1, <3>1, <3>2
    <3> QED BY <1>6, <1>7, <2>1, <3>1, <3>2, <3>3 DEF Registers
  <2>2. CASE e.op # "MSR_WRITE"
    BY <1>1, <2>2 DEF Executes
  <2> QED BY <2>1, <2>2
<1>11. disturbed' \in [Procs -> BOOLEAN]
  <2>1. CASE e.op = "MSR_WRITE"
    <3>1. disturbed' = [q \in Procs |-> disturbed[q] \/ (q # p /\ cpu[q] = cpu[p] /\ Measuring(q))]
      BY <1>1, <2>1 DEF Executes
    <3> QED BY <3>1, Zenon
  <2>2. CASE e.op # "MSR_WRITE"
    BY <1>1, <2>2 DEF Executes, MsrTyped
  <2> QED BY <2>1, <2>2
<1>12. /\ at' \in [Procs -> DOMAIN Main] /\ i' \in [Procs -> -1 .. MSR_VEC_LIMIT]
       /\ ts_start' \in [Procs -> Nat] /\ ts_end' \in [Procs -> Nat]
  <2>1. /\ at \in [Procs -> 1 .. 7] /\ i \in [Procs -> -1 .. MSR_VEC_LIMIT]
        /\ ts_start \in [Procs -> Nat] /\ ts_end \in [Procs -> Nat]
    BY MainIs DEF MsrTyped, MsrTypeOK
  <2>2. val'[p][ClockAt] \in Nat
    BY <1>4, <1>5, <1>9
  <2>3. CASE i' = [i EXCEPT ![p] = -1] /\ Return(p)
    BY <1>3, <1>5, <2>1, <2>2, <2>3, MainIs, LimitAssumption DEF Return
  <2>4. CASE i[p] # MSR_VEC_LIMIT /\ i' = [i EXCEPT ![p] = @ + 1] /\ UNCHANGED <<at, ts_start, ts_end>>
    BY <1>3, <2>1, <2>4, MainIs, LimitAssumption
  <2> QED BY <1>1, <2>3, <2>4 DEF Executes
<1>13. since' \in [Procs -> Nat]
  BY <1>1 DEF Executes, MsrTyped
<1> QED
  BY <1>1, <1>4, <1>9, <1>10, <1>11, <1>12, <1>13 DEF Executes, MsrTyped, MsrTypeOK

(* An event counts on the CPUs where counting is enabled, and the clock    *)
(* moves on.                                                               *)
LEMMA TypeEvent ==
  ASSUME MsrTyped, NEW c \in CPUs, Event(c) PROVE MsrTyped'
<1>1. /\ msr \in [CPUs -> [Registers -> 0 .. MaxEvents + 1]] /\ now \in Nat /\ now' = now + 1 /\ now' <= MaxEvents
      /\ MaxEvents \in Nat
  BY LimitAssumption DEF MsrTyped, MsrTypeOK, Event
<1> DEFINE x == IF Counting(c, "perfevtsel") THEN 1 ELSE 0
           y == IF Counting(c, "fixed_ctr_ctrl") THEN 1 ELSE 0
<1>2. x \in {0, 1} /\ y \in {0, 1}
  OBVIOUS
<1>3. msr' = [msr EXCEPT ![c]["pmc"] = @ + x, ![c]["fixed_ctr"] = @ + y]
  BY DEF Event
<1> HIDE DEF x, y
<1>4. ASSUME NEW d \in CPUs
      PROVE  /\ msr'[d] \in [Registers -> 0 .. MaxEvents + 1]
             /\ msr'[d].pmc <= now' /\ msr'[d].fixed_ctr <= now'
             /\ {msr'[d].global_ctrl, msr'[d].perfevtsel, msr'[d].fixed_ctr_ctrl} \subseteq {0, 1}
  <2>1. msr[d].pmc <= now /\ msr[d].fixed_ctr <= now
        /\ {msr[d].global_ctrl, msr[d].perfevtsel, msr[d].fixed_ctr_ctrl} \subseteq {0, 1}
    BY DEF MsrTyped
  <2>2. CASE d # c
    <3>1. msr'[d] = msr[d]
      BY <1>1, <1>3, <2>2
    <3> QED BY <1>1, <2>1, <3>1 DEF Registers
  <2>3. CASE d = c
    <3>1. msr'[d] = [msr[d] EXCEPT !["pmc"] = @ + x, !["fixed_ctr"] = @ + y]
      BY <1>1, <1>3, <2>3
    <3> QED BY <1>1, <1>2, <2>1, <3>1 DEF Registers
  <2> QED BY <2>2, <2>3
<1>5. msr' \in [CPUs -> [Registers -> 0 .. MaxEvents + 1]]
  BY <1>1, <1>3, <1>4
<1>6. since' \in [Procs -> Nat]
  BY DEF Event, MsrTyped
<1>7. UNCHANGED <<layout, behind, fd, at, i, cpu, val, ts_start, ts_end, disturbed>> /\ Memory' = Memory
  BY SameLayout DEF Event
<1> QED
  BY <1>1, <1>4, <1>5, <1>6, <1>7 DEF MsrTyped, MsrTypeOK

(* The other steps.                                                        *)
LEMMA TypeOther ==
  ASSUME MsrInv0, NEW p \in Procs, loadDriver(p) \/ Ioctl(p) \/ calc_pi(p) \/ closeDriver(p) \/ Migrate(p)
  PROVE  MsrTyped'
<1> USE DEF MsrTyped, MsrTypeOK
<1>0. MsrTyped /\ PlacesRight /\ at \in [Procs -> 1 .. 7]
  BY MainIs DEF MsrInv0
<1>1. CASE loadDriver(p)
  BY <1>0, <1>1, MainIs, SameLayout DEF loadDriver
<1>2. CASE Ioctl(p)
  <2>1. at[p] \in 1 .. 6 /\ Memory' = Memory
    BY <1>0, <1>2, MainIs, VectorTypes, SameLayout DEF Ioctl
  <2>2. ClockAt \in DOMAIN Memory /\ Place("read_tsc") = ClockAt
    BY <1>0 DEF PlacesRight, ClockAt
  <2>3. CASE i' = [i EXCEPT ![p] = 0] /\ UNCHANGED <<val, at, ts_start, ts_end>>
    BY <1>0, <1>2, <2>1, <2>3, LimitAssumption DEF Ioctl
  <2>4. CASE UNCHANGED <<i, val>> /\ Return(p)
    <3>1. val'[p][ClockAt] \in Nat
      BY <1>0, <2>2, <2>4
    <3>2. at' \in [Procs -> DOMAIN Main] /\ ts_start' \in [Procs -> Nat] /\ ts_end' \in [Procs -> Nat]
      BY <1>0, <2>1, <2>2, <2>4, <3>1, MainIs DEF Return
    <3> QED BY <1>0, <1>2, <2>1, <2>4, <3>2 DEF Ioctl
  <2> QED BY <1>2, <2>3, <2>4 DEF Ioctl
<1>3. CASE calc_pi(p)
  <2>1. at[p] = 4
    BY <1>0, <1>3, MainIs DEF calc_pi
  <2> QED BY <1>0, <1>3, <2>1, MainIs, SameLayout DEF calc_pi
<1>4. CASE closeDriver(p)
  BY <1>0, <1>4, SameLayout DEF closeDriver
<1>5. CASE Migrate(p)
  BY <1>0, <1>5, SameLayout DEF Migrate
<1> QED
  BY <1>1, <1>2, <1>3, <1>4, <1>5

-----------------------------------------------------------------------------
(* A step that leaves a process alone. *)
LEMMA AloneRight ==
  ASSUME NEW q \in Procs, MsrTyped, Steady(q) /\ Right(q), UNCHANGED <<layout, now>>,
         at'[q] = at[q], i'[q] = i[q], fd'[q] = fd[q], since'[q] = since[q], val'[q] = val[q],
         ts_start'[q] = ts_start[q], ts_end'[q] = ts_end[q],
         ~disturbed'[q] => ~disturbed[q] /\ (at[q] \in 3 .. 6 => Regs(q)' = Regs(q))
  PROVE  Steady(q)' /\ Right(q)'
<1>1. StartAt' = StartAt /\ StopAt' = StopAt /\ ClockAt' = ClockAt
  BY SameLayout
<1>2. Steady(q)'
  BY <1>1 DEF Steady
<1>3. Right(q)'
  <2> SUFFICES ASSUME fd[q] = "open", ~disturbed'[q] PROVE (BeforeStart(q) /\ Starts(q) /\ Stops(q) /\ AfterStop(q))'
    BY DEF Right
  <2>1. BeforeStart(q) /\ Starts(q) /\ Stops(q) /\ AfterStop(q)
    BY DEF Right
  <2>2. BeforeStart(q)'
    BY <1>1, <2>1 DEF BeforeStart
  <2>3. Starts(q)' /\ Stops(q)'
    BY <1>1, <2>1 DEF Starts, Stops, Counts, Frozen
  <2>4. AfterStop(q)'
    BY <1>1, <2>1 DEF AfterStop, ReadOut, Frozen
  <2> QED BY <2>2, <2>3, <2>4
<1> QED
  BY <1>2, <1>3

(* A turn of one process leaves the others right, or disturbs them.        *)
LEMMA OtherTurn ==
  ASSUME MsrInv0, NEW p \in Procs, Turn(p), NEW q \in Procs \ {p}
  PROVE  Steady(q)' /\ Right(q)'
<1> DEFINE h == HereIs(p)
           e == Found(p)
<1>1. Executes(p, h, e)
  BY TurnExecutes
<1>2. MsrTyped /\ Steady(q) /\ Right(q)
  BY DEF MsrInv0
<1> HIDE DEF h, e
<1>3. UNCHANGED <<layout, now>> /\ fd'[q] = fd[q] /\ since'[q] = since[q] /\ val'[q] = val[q]
  BY <1>1, <1>2 DEF Executes, MsrTyped
<1>4. at'[q] = at[q] /\ i'[q] = i[q] /\ ts_start'[q] = ts_start[q] /\ ts_end'[q] = ts_end[q]
  BY <1>1, <1>2 DEF Executes, Return, MsrTyped, MsrTypeOK
<1>5. ASSUME ~disturbed'[q] PROVE ~disturbed[q] /\ (at[q] \in 3 .. 6 => Regs(q)' = Regs(q))
  <2>1. CASE e.op = "MSR_WRITE"
    <3>1. /\ msr' = [msr EXCEPT ![cpu[p]][e.ecx] = e.eax]
          /\ disturbed' = [r \in Procs |-> disturbed[r] \/ (r # p /\ cpu[r] = cpu[p] /\ Measuring(r))]
      BY <1>1, <2>1 DEF Executes
    <3>2. ~disturbed[q] /\ ~(cpu[q] = cpu[p] /\ at[q] \in 3 .. 6)
      BY <1>5, <3>1 DEF Measuring
    <3>3. cpu[q] # cpu[p] => msr'[cpu[q]] = msr[cpu[q]]
      BY <1>2, <3>1 DEF MsrTyped, MsrTypeOK
    <3> QED BY <1>1, <3>2, <3>3 DEF Regs, Executes
  <2>2. CASE e.op # "MSR_WRITE"
    BY <1>1, <1>5, <2>2 DEF Executes, Regs
  <2> QED BY <2>1, <2>2
<1> QED
  BY <1>2, <1>3, <1>4, <1>5, AloneRight

(* A process's own turn, by where it is in main. *)
LEMMA OwnTurn2 ==
  ASSUME MsrInv0, NEW p \in Procs, Turn(p), at[p] = 2
  PROVE  Steady(p)' /\ Right(p)'
<1> DEFINE h == HereIs(p)
           e == Found(p)
<1>0. PlacesRight /\ MsrTyped /\ Steady(p) /\ Right(p)
  BY DEF MsrInv0
<1>1. Executes(p, h, e)
  BY TurnExecutes
<1>2. i[p] \in 0 .. MSR_VEC_LIMIT /\ h = ClockAt + i[p] /\ (i[p] = 0 => e = Op("MSR_RDTSC", "none", 0))
  BY <1>0, <1>1, EntryOwn DEF Executes
<1> HIDE DEF h, e
<1>3. StartAt' = StartAt /\ StopAt' = StopAt /\ ClockAt' = ClockAt
  BY <1>1, SameLayout DEF Executes
<1>4. /\ at \in [Procs -> 1 .. 7] /\ i \in [Procs -> -1 .. MSR_VEC_LIMIT] /\ now \in Nat
      /\ val \in [Procs -> [1 .. 13 -> Nat]] /\ since \in [Procs -> Nat] /\ ts_start \in [Procs -> Nat]
      /\ ClockAt \in 1 .. 13
  BY <1>0, MainIs DEF MsrTyped, MsrTypeOK, PlacesRight
<1>5. now' = now /\ fd' = fd /\ since' = since
  BY <1>1 DEF Executes
<1>6. fd[p] = "open" /\ ~disturbed'[p] => since[p] = 0 /\ val'[p][ClockAt] <= now
  <2> SUFFICES ASSUME fd[p] = "open", ~disturbed'[p] PROVE since[p] = 0 /\ val'[p][ClockAt] <= now
    OBVIOUS
  <2>1. ~disturbed[p]
    BY <1>1 DEF Executes
  <2>2. since[p] = 0 /\ (i[p] >= 1 => val[p][ClockAt] <= now)
    BY <1>0, <2>1 DEF Right, BeforeStart
  <2>3. CASE i[p] = 0
    <3>1. val' = [val EXCEPT ![p][h] = now] /\ h = ClockAt
      BY <1>1, <1>2, <1>4, <2>3 DEF Executes, Op
    <3> QED BY <1>4, <2>2, <3>1
  <2>4. CASE i[p] >= 1
    <3>1. h # ClockAt
      BY <1>2, <1>4, <2>4
    <3>2. val'[p][ClockAt] = val[p][ClockAt]
      BY <1>1, <1>4, <3>1 DEF Executes
    <3> QED BY <2>2, <2>4, <3>2
  <2> QED BY <1>2, <2>3, <2>4
<1>7. CASE i' = [i EXCEPT ![p] = -1] /\ Return(p)
  <2>1. at'[p] = 3 /\ i'[p] = -1 /\ ts_start'[p] = val'[p][ClockAt]
    BY <1>4, <1>7 DEF Return, ClockAt
  <2>2. Steady(p)'
    BY <2>1 DEF Steady
  <2>3. Right(p)'
    <3>0. ts_start'[p] \in Nat
      BY TypeTurn DEF MsrTyped
    <3>1. fd[p] = "open" /\ ~disturbed'[p] => ts_start'[p] + since'[p] <= now'
      BY <1>4, <1>5, <1>6, <2>1, <3>0
    <3> QED BY <1>5, <2>1, <3>1 DEF Right, BeforeStart, Starts, Stops, AfterStop
  <2> QED BY <2>2, <2>3
<1>8. CASE i' = [i EXCEPT ![p] = @ + 1] /\ UNCHANGED <<at, ts_start, ts_end>>
  <2>1. at'[p] = 2
    BY <1>8
  <2>2. Steady(p)'
    BY <2>1 DEF Steady
  <2>3. Right(p)'
    BY <1>3, <1>5, <1>6, <2>1 DEF Right, BeforeStart, Starts, Stops, AfterStop
  <2> QED BY <2>2, <2>3
<1> QED
  BY <1>1, <1>7, <1>8 DEF Executes

(* The places of the counters that msr_stop reads are not the clock's.     *)
LEMMA PlacesIn ==
  ASSUME PlacesRight, MsrTyped
  PROVE  /\ StartAt \in 1 .. 13 /\ StopAt \in Nat /\ ClockAt \in 1 .. 13 /\ StartAt # StopAt
         /\ \A k \in 0 .. 4 : StopAt + k \in 1 .. 13 /\ ClockAt # StopAt + k
BY DEF PlacesRight

(* What a write of its own does to the registers a process sees. *)
LEMMA OwnWrite ==
  ASSUME MsrInv0, NEW p \in Procs, NEW h, NEW e, Executes(p, h, e)
  PROVE  /\ Regs(p) \in [Registers -> Nat] /\ disturbed'[p] = disturbed[p]
         /\ IF e.op = "MSR_WRITE" THEN Regs(p)' = [Regs(p) EXCEPT ![e.ecx] = e.eax] ELSE Regs(p)' = Regs(p)
<1>1. /\ msr \in [CPUs -> [Registers -> Nat]] /\ cpu \in [Procs -> CPUs] /\ cpu' = cpu
      /\ disturbed \in [Procs -> BOOLEAN]
  BY LimitAssumption DEF MsrInv0, MsrTyped, MsrTypeOK, Executes
<1>2. disturbed'[p] = disturbed[p]
  <2>1. CASE e.op = "MSR_WRITE"
    <3>1. disturbed'[p] = (disturbed[p] \/ (p # p /\ cpu[p] = cpu[p] /\ Measuring(p)))
      BY <2>1 DEF Executes
    <3> QED BY <1>1, <3>1
  <2>2. CASE e.op # "MSR_WRITE"
    BY <2>2 DEF Executes
  <2> QED BY <2>1, <2>2
<1>3. CASE e.op = "MSR_WRITE"
  <2>1. msr' = [msr EXCEPT ![cpu[p]][e.ecx] = e.eax]
    BY <1>3 DEF Executes
  <2> QED BY <1>1, <1>2, <1>3, <2>1 DEF Regs
<1>4. CASE e.op # "MSR_WRITE"
  BY <1>1, <1>2, <1>4 DEF Regs, Executes
<1> QED
  BY <1>3, <1>4

(* Within msr_start, entry for entry.                                      *)
LEMMA OwnTurn3 ==
  ASSUME MsrInv0, NEW p \in Procs, Turn(p), at[p] = 3
  PROVE  Steady(p)' /\ Right(p)'
<1> DEFINE h == HereIs(p)
           e == Found(p)
<1>0. PlacesRight /\ MsrTyped /\ Steady(p) /\ Right(p)
  BY DEF MsrInv0
<1>1. Executes(p, h, e)
  BY TurnExecutes
<1>2. i[p] \in 0 .. 6 /\ e = msr_start[i[p] + 1]
  BY <1>0, <1>1, EntryOwn DEF Executes
<1> HIDE DEF h, e
<1>3. StartAt' = StartAt /\ StopAt' = StopAt /\ ClockAt' = ClockAt
  BY <1>1, SameLayout DEF Executes
<1>4. /\ at \in [Procs -> 1 .. 7] /\ i \in [Procs -> -1 .. MSR_VEC_LIMIT] /\ now \in Nat
      /\ since \in [Procs -> Nat] /\ ts_start \in [Procs -> Nat]
  BY <1>0, MainIs DEF MsrTyped, MsrTypeOK
<1>5. now' = now /\ fd' = fd
  BY <1>1 DEF Executes
<1>6. Regs(p) \in [Registers -> Nat] /\ disturbed'[p] = disturbed[p]
  BY <1>1, OwnWrite
<1> DEFINE good == fd[p] = "open" /\ ~disturbed[p]
<1>7. good => BeforeStart(p) /\ Starts(p)
  BY <1>0 DEF Right
<1>8. CASE i[p] = 6
  <2>1. e = Op("MSR_STOP", "none", 0)
    BY <1>2, <1>8 DEF msr_start, Stop
  <2>2. i' = [i EXCEPT ![p] = -1] /\ Return(p) /\ since' = since /\ Regs(p)' = Regs(p)
    BY <1>1, <2>1, OwnWrite DEF Executes, Op
  <2>3. at'[p] = 4 /\ i'[p] = -1 /\ ts_start' = ts_start
    BY <1>4, <2>2 DEF Return
  <2>4. good => (BeforeStart(p) /\ Starts(p) /\ Stops(p) /\ AfterStop(p))'
    BY <1>5, <1>7, <1>8, <2>2, <2>3 DEF BeforeStart, Starts, Stops, AfterStop, Counts
  <2> QED BY <1>5, <1>6, <2>3, <2>4 DEF Steady, Right
<1>9. CASE i[p] # 6
  <2>1. i[p] \in 0 .. 5
    BY <1>2, <1>9
  <2>2. /\ e.op = "MSR_WRITE"
        /\ i[p] = 0 => e.ecx = "global_ctrl" /\ e.eax = 0
        /\ i[p] = 1 => e.ecx = "pmc" /\ e.eax = 0
        /\ i[p] = 2 => e.ecx = "fixed_ctr" /\ e.eax = 0
        /\ i[p] = 3 => e.ecx = "perfevtsel" /\ e.eax = 1
        /\ i[p] = 4 => e.ecx = "fixed_ctr_ctrl" /\ e.eax = 1
        /\ i[p] = 5 => e.ecx = "global_ctrl" /\ e.eax = 1
    BY <1>2, <2>1 DEF msr_start, WriteMsr, Op
  <2>3. i' = [i EXCEPT ![p] = @ + 1] /\ UNCHANGED <<at, ts_start, ts_end>>
    BY <1>1, <2>1, <2>2, LimitAssumption DEF Executes
  <2>4. since'[p] = 0 /\ Regs(p)' = [Regs(p) EXCEPT ![e.ecx] = e.eax]
    BY <1>1, <1>4, <2>2, OwnWrite DEF Executes
  <2>5. at'[p] = 3 /\ i'[p] = i[p] + 1 /\ ts_start' = ts_start
    BY <1>4, <2>3
  <2>6. good => BeforeStart(p)'
    BY <1>4, <1>5, <1>7, <2>4, <2>5 DEF BeforeStart
  <2>7. good => Starts(p)'
    <3> USE <1>6, <1>7, <2>2, <2>4, <2>5 DEF Starts, Registers, Counts
    <3>1. CASE i[p] = 0
      BY <3>1
    <3>2. CASE i[p] = 1
      BY <3>2
    <3>3. CASE i[p] = 2
      BY <3>3
    <3>4. CASE i[p] = 3
      BY <3>4
    <3>5. CASE i[p] = 4
      BY <3>5
    <3>6. CASE i[p] = 5
      BY <3>6
    <3> QED BY <2>1, <3>1, <3>2, <3>3, <3>4, <3>5, <3>6
  <2>8. (Stops(p) /\ AfterStop(p))'
    BY <2>5 DEF Stops, AfterStop
  <2> QED BY <1>5, <1>6, <2>1, <2>5, <2>6, <2>7, <2>8 DEF Steady, Right
<1> QED
  BY <1>8, <1>9

(* Within msr_stop, entry for entry.                                       *)
LEMMA OwnTurn5 ==
  ASSUME MsrInv0, NEW p \in Procs, Turn(p), at[p] = 5
  PROVE  Steady(p)' /\ Right(p)'
<1> DEFINE h == HereIs(p)
           e == Found(p)
<1>0. PlacesRight /\ MsrTyped /\ Steady(p) /\ Right(p)
  BY DEF MsrInv0
<1>1. Executes(p, h, e)
  BY TurnExecutes
<1>2. i[p] \in 0 .. 4 /\ h = StopAt + i[p] /\ e = msr_stop[i[p] + 1]
  BY <1>0, <1>1, EntryOwn DEF Executes
<1> HIDE DEF h, e
<1>3. StartAt' = StartAt /\ StopAt' = StopAt /\ ClockAt' = ClockAt
  BY <1>1, SameLayout DEF Executes
<1>4. /\ at \in [Procs -> 1 .. 7] /\ i \in [Procs -> -1 .. MSR_VEC_LIMIT] /\ now \in Nat
      /\ since \in [Procs -> Nat] /\ ts_start \in [Procs -> Nat] /\ val \in [Procs -> [1 .. 13 -> Nat]]
      /\ StopAt \in Int /\ StopAt + 2 \in 1 .. 13 /\ StopAt + 3 \in 1 .. 13
  <2>1. StopAt + 0 \in 1 .. 13 /\ StopAt + 2 \in 1 .. 13 /\ StopAt + 3 \in 1 .. 13 /\ StopAt \in Nat
    BY PlacesIn, <1>0
  <2> QED BY <1>0, <2>1, MainIs DEF MsrTyped, MsrTypeOK, PlacesRight
<1>5. now' = now /\ fd' = fd /\ since' = since
  BY <1>1, <1>4 DEF Executes
<1>6. Regs(p) \in [Registers -> Nat] /\ disturbed'[p] = disturbed[p]
  BY <1>1, OwnWrite
<1> DEFINE good == fd[p] = "open" /\ ~disturbed[p]
<1>7. good => BeforeStart(p) /\ Stops(p)
  BY <1>0 DEF Right
<1>8. CASE i[p] = 4
  <2>1. e = Op("MSR_STOP", "none", 0)
    BY <1>2, <1>8 DEF msr_stop, Stop
  <2>2. i' = [i EXCEPT ![p] = -1] /\ Return(p) /\ Regs(p)' = Regs(p) /\ val' = val
    BY <1>1, <2>1, OwnWrite DEF Executes, Op
  <2>3. at'[p] = 6 /\ i'[p] = -1 /\ ts_start' = ts_start
    BY <1>4, <2>2 DEF Return
  <2>4. good => (BeforeStart(p) /\ Starts(p) /\ Stops(p) /\ AfterStop(p))'
    BY <1>3, <1>5, <1>7, <1>8, <2>2, <2>3 DEF BeforeStart, Starts, Stops, AfterStop, ReadOut, Frozen
  <2> QED BY <1>5, <1>6, <2>3, <2>4 DEF Steady, Right
<1>9. CASE i[p] # 4
  <2>1. i[p] \in 0 .. 3
    BY <1>2, <1>9
  <2>2. /\ e.op \in {"MSR_WRITE", "MSR_READ"}
        /\ i[p] = 0 => e.op = "MSR_WRITE" /\ e.ecx = "global_ctrl" /\ e.eax = 0
        /\ i[p] = 1 => e.op = "MSR_WRITE" /\ e.ecx = "fixed_ctr_ctrl"
        /\ i[p] = 2 => e.op = "MSR_READ" /\ e.ecx = "pmc"
        /\ i[p] = 3 => e.op = "MSR_READ" /\ e.ecx = "fixed_ctr"
    BY <1>2, <2>1 DEF msr_stop, WriteMsr, ReadMsr, Op
  <2>3. i' = [i EXCEPT ![p] = @ + 1] /\ UNCHANGED <<at, ts_start, ts_end>>
    BY <1>1, <2>1, <2>2, LimitAssumption DEF Executes
  <2>4. IF e.op = "MSR_WRITE" THEN Regs(p)' = [Regs(p) EXCEPT ![e.ecx] = e.eax] ELSE Regs(p)' = Regs(p)
    BY <1>1, OwnWrite
  <2>5. at'[p] = 5 /\ i'[p] = i[p] + 1 /\ ts_start' = ts_start
    BY <1>4, <2>3
  <2>6. IF e.op = "MSR_READ" THEN val' = [val EXCEPT ![p][h] = Regs(p)[e.ecx]] ELSE val' = val
    BY <1>1, <2>2 DEF Executes, Regs
  <2>7. good => BeforeStart(p)'
    BY <1>4, <1>5, <1>7, <2>5 DEF BeforeStart
  <2>8. good => Stops(p)'
    <3>1. CASE i[p] = 0
      BY <3>1, <1>3, <1>5, <1>6, <1>7, <2>2, <2>4, <2>5 DEF Stops, Frozen, Counts, Registers
    <3>2. CASE i[p] = 1
      BY <3>2, <1>3, <1>5, <1>6, <1>7, <2>2, <2>4, <2>5 DEF Stops, Frozen, Registers
    <3>3. CASE i[p] = 2
      <4>1. val'[p][StopAt + 2] = Regs(p).pmc
        BY <1>2, <1>4, <2>2, <2>6, <3>3
      <4> QED BY <4>1, <3>3, <1>3, <1>5, <1>7, <2>2, <2>4, <2>5 DEF Stops, Frozen
    <3>4. CASE i[p] = 3
      <4>1. val'[p][StopAt + 2] = val[p][StopAt + 2] /\ val'[p][StopAt + 3] = Regs(p).fixed_ctr
        BY <1>2, <1>4, <2>2, <2>6, <3>4
      <4> QED BY <4>1, <3>4, <1>3, <1>5, <1>7, <2>2, <2>4, <2>5 DEF Stops, Frozen
    <3> QED BY <2>1, <3>1, <3>2, <3>3, <3>4
  <2>9. (Starts(p) /\ AfterStop(p))'
    BY <2>5 DEF Starts, AfterStop
  <2> QED BY <1>5, <1>6, <2>1, <2>5, <2>7, <2>8, <2>9 DEF Steady, Right
<1> QED
  BY <1>8, <1>9

(* Within the second read_tsc, and whatever lies behind it.                *)
LEMMA OwnTurn6 ==
  ASSUME MsrInv0, NEW p \in Procs, Turn(p), at[p] = 6
  PROVE  Steady(p)' /\ Right(p)'
<1> DEFINE h == HereIs(p)
           e == Found(p)
<1>0. PlacesRight /\ MsrTyped /\ Steady(p) /\ Right(p)
  BY DEF MsrInv0
<1>1. Executes(p, h, e)
  BY TurnExecutes
<1>2. /\ i[p] \in 0 .. MSR_VEC_LIMIT /\ h = ClockAt + i[p] /\ (i[p] = 0 => e = Op("MSR_RDTSC", "none", 0))
      /\ i[p] >= 1 =>
           \/ ClockAt + 1 = StartAt /\ i[p] \in 1 .. 7 /\ e = msr_start[i[p]]
           \/ ClockAt + 1 = StopAt /\ i[p] \in 1 .. 5 /\ e = msr_stop[i[p]]
           \/ ClockAt + 1 = 14 /\ e = Op(behind, "none", 0)
  BY <1>0, <1>1, EntryOwn DEF Executes
<1> HIDE DEF h, e
<1>3. StartAt' = StartAt /\ StopAt' = StopAt /\ ClockAt' = ClockAt
  BY <1>1, SameLayout DEF Executes
<1>4. /\ at \in [Procs -> 1 .. 7] /\ i \in [Procs -> -1 .. MSR_VEC_LIMIT] /\ now \in Nat
      /\ since \in [Procs -> Nat] /\ ts_start \in [Procs -> Nat] /\ ts_end \in [Procs -> Nat]
      /\ val \in [Procs -> [1 .. 13 -> Nat]]
      /\ behind \in {"MSR_NOP", "MSR_STOP", "unknown"}
      /\ StopAt \in Nat /\ StopAt + 2 \in 1 .. 13 /\ StopAt + 3 \in 1 .. 13 /\ StartAt \in 1 .. 13
      /\ ClockAt \in 1 .. 13 /\ ClockAt # StopAt + 2 /\ ClockAt # StopAt + 3 /\ StartAt # StopAt
      /\ ClockAt + 1 = StopAt => StopAt + 4 \in 1 .. 13
  BY <1>0, PlacesIn, MainIs DEF MsrTyped, MsrTypeOK, PlacesRight
<1>5. now' = now /\ fd' = fd /\ since' = since
  BY <1>1, <1>4 DEF Executes
<1>6. Regs(p) \in [Registers -> Nat] /\ disturbed'[p] = disturbed[p]
  BY <1>1, OwnWrite
<1> DEFINE good == fd[p] = "open" /\ ~disturbed[p]
<1>7. good => BeforeStart(p) /\ AfterStop(p)
  BY <1>0 DEF Right
\* What is read again is what was read before.
<1>8. good => /\ val'[p][StopAt + 2] = since[p] /\ val'[p][StopAt + 3] = since[p]
              /\ val'[p][ClockAt] >= ts_start[p] + since[p]
              /\ ClockAt + 1 = StopAt => Regs(p)'.global_ctrl = 0 /\ Regs(p)'.pmc = since[p] /\ Regs(p)'.fixed_ctr = since[p]
  <2> SUFFICES ASSUME good
               PROVE /\ val'[p][StopAt + 2] = since[p] /\ val'[p][StopAt + 3] = since[p]
                     /\ val'[p][ClockAt] >= ts_start[p] + since[p]
                     /\ ClockAt + 1 = StopAt => Regs(p)'.global_ctrl = 0 /\ Regs(p)'.pmc = since[p] /\ Regs(p)'.fixed_ctr = since[p]
    OBVIOUS
  <2>1. /\ val[p][StopAt + 2] = since[p] /\ val[p][StopAt + 3] = since[p]
        /\ ClockAt + 1 = StopAt => Regs(p).global_ctrl = 0 /\ Regs(p).pmc = since[p] /\ Regs(p).fixed_ctr = since[p]
        /\ i[p] >= 1 => val[p][ClockAt] >= ts_start[p] + since[p]
        /\ ts_start[p] + since[p] <= now
    BY <1>7 DEF BeforeStart, AfterStop, ReadOut, Frozen
  <2>2. CASE i[p] = 0
    <3>0. h = ClockAt /\ e.op = "MSR_RDTSC"
      BY <1>2, <1>4, <2>2 DEF Op
    <3>1. val' = [val EXCEPT ![p][ClockAt] = now] /\ Regs(p)' = Regs(p)
      BY <1>1, <3>0, OwnWrite DEF Executes
    <3>2. val'[p][StopAt + 2] = val[p][StopAt + 2] /\ val'[p][StopAt + 3] = val[p][StopAt + 3] /\ val'[p][ClockAt] = now
      BY <1>4, <3>1
    <3> QED BY <1>4, <2>1, <3>1, <3>2
  <2>3. CASE i[p] >= 1 /\ ClockAt + 1 = StartAt
    <3>1. i[p] \in 1 .. 7 /\ e = msr_start[i[p]] /\ ClockAt + 1 # StopAt
      BY <1>2, <1>4, <2>3
    <3>2. e.op \in {"MSR_WRITE", "MSR_STOP"}
      BY <3>1 DEF msr_start, WriteMsr, Stop, Op
    <3>3. val' = val
      BY <1>1, <3>2 DEF Executes
    <3> QED BY <2>1, <2>3, <3>1, <3>3
  <2>4. CASE i[p] >= 1 /\ ClockAt + 1 = StopAt
    <3>1. i[p] \in 1 .. 5 /\ e = msr_stop[i[p]] /\ h = StopAt + i[p] - 1
      BY <1>2, <1>4, <2>4
    <3>2. /\ i[p] = 1 => e.op = "MSR_WRITE" /\ e.ecx = "global_ctrl" /\ e.eax = 0
          /\ i[p] = 2 => e.op = "MSR_WRITE" /\ e.ecx = "fixed_ctr_ctrl"
          /\ i[p] = 3 => e.op = "MSR_READ" /\ e.ecx = "pmc" /\ h = StopAt + 2
          /\ i[p] = 4 => e.op = "MSR_READ" /\ e.ecx = "fixed_ctr" /\ h = StopAt + 3
          /\ i[p] = 5 => e.op = "MSR_STOP"
      BY <1>4, <3>1 DEF msr_stop, WriteMsr, ReadMsr, Stop, Op
    <3>3. Regs(p)'.global_ctrl = 0 /\ Regs(p)'.pmc = since[p] /\ Regs(p)'.fixed_ctr = since[p]
      <4>1. IF e.op = "MSR_WRITE" THEN Regs(p)' = [Regs(p) EXCEPT ![e.ecx] = e.eax] ELSE Regs(p)' = Regs(p)
        BY <1>1, OwnWrite
      <4> QED BY <1>6, <2>1, <2>4, <3>1, <3>2, <4>1 DEF Registers
    <3>4. CASE i[p] \in {1, 2, 5}
      <4>1. val' = val
        BY <1>1, <3>2, <3>4 DEF Executes
      <4> QED BY <2>1, <2>4, <3>3, <4>1
    <3>5. CASE i[p] = 3
      <4>1. val' = [val EXCEPT ![p][StopAt + 2] = since[p]]
        BY <1>1, <2>1, <2>4, <3>2, <3>5 DEF Executes, Regs
      <4>2. val'[p][StopAt + 2] = since[p] /\ val'[p][StopAt + 3] = val[p][StopAt + 3] /\ val'[p][ClockAt] = val[p][ClockAt]
        BY <1>4, <4>1
      <4> QED BY <2>1, <2>4, <3>3, <4>2
    <3>6. CASE i[p] = 4
      <4>1. val' = [val EXCEPT ![p][StopAt + 3] = since[p]]
        BY <1>1, <2>1, <2>4, <3>2, <3>6 DEF Executes, Regs
      <4>2. val'[p][StopAt + 3] = since[p] /\ val'[p][StopAt + 2] = val[p][StopAt + 2] /\ val'[p][ClockAt] = val[p][ClockAt]
        BY <1>4, <4>1
      <4> QED BY <2>1, <2>4, <3>3, <4>2
    <3> QED BY <3>1, <3>4, <3>5, <3>6
  <2>5. CASE i[p] >= 1 /\ ClockAt + 1 \notin {StartAt, StopAt}
    <3>1. e.op \in {"MSR_NOP", "MSR_STOP", "unknown"}
      BY <1>2, <1>4, <2>5 DEF Op
    <3>2. val' = val
      BY <1>1, <3>1 DEF Executes
    <3> QED BY <2>1, <2>5, <3>2
  <2> QED BY <1>2, <2>2, <2>3, <2>4, <2>5
<1>9. val'[p][ClockAt] \in Nat
  BY <1>1, <1>4, TypeTurn, SameLayout, <1>0 DEF MsrTyped, Executes, PlacesRight
<1>10. CASE i' = [i EXCEPT ![p] = -1] /\ Return(p)
  <2>1. at'[p] = 7 /\ i'[p] = -1 /\ ts_start' = ts_start /\ ts_end'[p] = val'[p][ClockAt]
    BY <1>4, <1>10 DEF Return, ClockAt
  <2>2. good => ts_end'[p] - ts_start[p] >= since[p]
    BY <1>4, <1>8, <1>9, <2>1
  <2>3. good => (BeforeStart(p) /\ Starts(p) /\ Stops(p) /\ AfterStop(p))'
    BY <1>3, <1>5, <1>8, <2>1, <2>2 DEF BeforeStart, Starts, Stops, AfterStop, ReadOut
  <2> QED BY <1>5, <1>6, <2>1, <2>3 DEF Steady, Right
<1>11. CASE e.op # "MSR_STOP" /\ i' = [i EXCEPT ![p] = @ + 1] /\ UNCHANGED <<at, ts_start, ts_end>>
  <2>1. at'[p] = 6 /\ i'[p] = i[p] + 1
    BY <1>4, <1>11
  <2>2. ClockAt + 1 = StartAt => i[p] \in 0 .. 6
    <3>1. msr_start[7].op = "MSR_STOP"
      BY DEF msr_start, Stop, Op
    <3> QED BY <1>2, <1>4, <1>11, <3>1
  <2>3. ClockAt + 1 = StopAt => i[p] \in 0 .. 4
    <3>1. msr_stop[5].op = "MSR_STOP"
      BY DEF msr_stop, Stop, Op
    <3> QED BY <1>2, <1>4, <1>11, <3>1
  <2>4. Steady(p)'
    BY <1>3, <2>1, <2>2, <2>3 DEF Steady
  <2>5. good => (BeforeStart(p) /\ Starts(p) /\ Stops(p) /\ AfterStop(p))'
    BY <1>3, <1>5, <1>7, <1>8, <1>11, <2>1 DEF BeforeStart, Starts, Stops, AfterStop, ReadOut, Frozen
  <2> QED BY <1>5, <1>6, <2>4, <2>5 DEF Right
<1> QED
  BY <1>1, <1>10, <1>11 DEF Executes

(* An event is counted by a process and by its counters alike. *)
LEMMA EventRight ==
  ASSUME MsrInv0, NEW c \in CPUs, Event(c), NEW q \in Procs
  PROVE  Steady(q)' /\ Right(q)'
<1>0. PlacesRight /\ MsrTyped /\ Steady(q) /\ Right(q)
  BY DEF MsrInv0
<1>1. StartAt' = StartAt /\ StopAt' = StopAt /\ ClockAt' = ClockAt
  BY SameLayout DEF Event
<1>2. /\ at \in [Procs -> 1 .. 7] /\ i \in [Procs -> -1 .. MSR_VEC_LIMIT] /\ now \in Nat
      /\ since \in [Procs -> Nat] /\ ts_start \in [Procs -> Nat] /\ ts_end \in [Procs -> Nat]
      /\ val \in [Procs -> [1 .. 13 -> Nat]] /\ ClockAt \in 1 .. 13
      /\ cpu \in [Procs -> CPUs] /\ msr \in [CPUs -> [Registers -> Nat]]
  BY <1>0, LimitAssumption, MainIs DEF MsrTyped, MsrTypeOK, PlacesRight
<1>3. UNCHANGED <<fd, at, i, cpu, val, ts_start, ts_end, disturbed>> /\ now' = now + 1
  BY DEF Event
<1>4. Steady(q)'
  <2>1. at[q] = 1 => since'[q] = since[q]
    BY <1>2 DEF Event
  <2> QED BY <1>0, <1>1, <1>3, <2>1 DEF Steady
<1> DEFINE good == fd[q] = "open" /\ ~disturbed[q]
<1>5. good => BeforeStart(q) /\ Starts(q) /\ Stops(q) /\ AfterStop(q)
  BY <1>0 DEF Right
<1>6. ASSUME cpu[q] # c \/ Regs(q).global_ctrl # 1
      PROVE  since'[q] = since[q] /\ Regs(q)' = Regs(q)
  <2>1. since'[q] = since[q]
    BY <1>2, <1>6 DEF Event, Regs
  <2>2. msr'[cpu[q]] = msr[cpu[q]]
    <3>1. CASE cpu[q] # c
      BY <1>2, <3>1 DEF Event
    <3>2. CASE cpu[q] = c /\ msr[c].global_ctrl # 1
      <4>1. ~Counting(c, "perfevtsel") /\ ~Counting(c, "fixed_ctr_ctrl")
        BY <3>2 DEF Counting
      <4>2. msr' = [msr EXCEPT ![c]["pmc"] = @ + 0, ![c]["fixed_ctr"] = @ + 0]
        BY <4>1 DEF Event
      <4>3. msr'[c] \in [Registers -> Nat] /\ \A r \in Registers : msr'[c][r] = msr[c][r]
        BY <1>2, <4>2 DEF Registers
      <4>4. msr[c] \in [Registers -> Nat]
        BY <1>2
      <4> QED BY <3>2, <4>3, <4>4
    <3> QED BY <1>6, <3>1, <3>2 DEF Regs
  <2> QED BY <1>3, <2>1, <2>2 DEF Regs
<1>7. ASSUME good, cpu[q] # c \/ Regs(q).global_ctrl # 1
      PROVE  (BeforeStart(q) /\ Starts(q) /\ Stops(q) /\ AfterStop(q))'
  <2> USE <1>1, <1>2, <1>3, <1>5, <1>6, <1>7
  <2>1. BeforeStart(q)'
    BY DEF BeforeStart
  <2>2. Starts(q)'
    BY DEF Starts, Counts
  <2>3. Stops(q)'
    BY DEF Stops, Counts, Frozen
  <2>4. AfterStop(q)'
    BY DEF AfterStop, ReadOut, Frozen
  <2> QED BY <2>1, <2>2, <2>3, <2>4
<1>8. ASSUME good, cpu[q] = c, Regs(q).global_ctrl = 1
      PROVE  (BeforeStart(q) /\ Starts(q) /\ Stops(q) /\ AfterStop(q))'
  <2>1. since'[q] = IF at[q] \in 3 .. 5 THEN since[q] + 1 ELSE since[q]
    BY <1>2, <1>8 DEF Event, Regs
  <2>2. BeforeStart(q)'
    BY <1>1, <1>2, <1>3, <1>5, <1>8, <2>1 DEF BeforeStart
  <2>3. ASSUME Counts(q), at[q] \in 3 .. 5 PROVE Counts(q)'
    <3>1. Counting(c, "perfevtsel") /\ Counting(c, "fixed_ctr_ctrl")
      BY <1>8, <2>3 DEF Counts, Counting, Regs
    <3>2. msr' = [msr EXCEPT ![c]["pmc"] = @ + 1, ![c]["fixed_ctr"] = @ + 1]
      BY <3>1 DEF Event
    <3>3. Regs(q)' = [Regs(q) EXCEPT !["pmc"] = @ + 1, !["fixed_ctr"] = @ + 1]
      BY <1>2, <1>3, <1>8, <3>2 DEF Regs
    <3>4. Regs(q) \in [Registers -> Nat]
      BY <1>2 DEF Regs
    <3> QED BY <1>2, <2>1, <2>3, <3>3, <3>4 DEF Counts, Registers
  <2>4. Starts(q)'
    <3>1. at[q] = 3 => i[q] \notin 1 .. 5 /\ (i[q] = 6 => Counts(q))
      BY <1>5, <1>8 DEF Starts
    <3> QED BY <1>3, <2>3, <3>1 DEF Starts
  <2>5. Stops(q)'
    <3>1. /\ at[q] = 4 \/ (at[q] = 5 /\ i[q] <= 0) => Counts(q)
          /\ ~(at[q] = 5 /\ i[q] >= 1)
      BY <1>5, <1>8 DEF Stops, Frozen
    <3>2. at[q] = 5 => i[q] <= 0
      BY <1>2, <3>1
    <3> QED BY <1>2, <1>3, <2>3, <3>1, <3>2 DEF Stops
  <2>6. AfterStop(q)'
    BY <1>1, <1>2, <1>3, <1>5, <1>8, <2>1 DEF AfterStop, ReadOut, Frozen
  <2> QED BY <2>2, <2>4, <2>5, <2>6
<1>9. good => (BeforeStart(q) /\ Starts(q) /\ Stops(q) /\ AfterStop(q))'
  BY <1>7, <1>8
<1> QED
  BY <1>3, <1>4, <1>9 DEF Right

(* Opening, closing, calls, the computation and the scheduler keep it,     *)
(* too.                                                                    *)
LEMMA OtherRight ==
  ASSUME MsrInv0, NEW p \in Procs, loadDriver(p) \/ Ioctl(p) \/ calc_pi(p) \/ closeDriver(p) \/ Migrate(p),
         NEW q \in Procs
  PROVE  Steady(q)' /\ Right(q)'
<1>0. PlacesRight /\ MsrTyped /\ Steady(q) /\ Right(q)
  BY DEF MsrInv0
<1>1. UNCHANGED <<layout, now, since, msr>>
  BY DEF loadDriver, Ioctl, calc_pi, closeDriver, Migrate
<1>2. StartAt' = StartAt /\ StopAt' = StopAt /\ ClockAt' = ClockAt
  BY <1>1, SameLayout
<1>3. /\ at \in [Procs -> 1 .. 7] /\ i \in [Procs -> -1 .. MSR_VEC_LIMIT] /\ now \in Nat
      /\ fd \in [Procs -> {"none", "open", "failed"}] /\ cpu \in [Procs -> CPUs] /\ disturbed \in [Procs -> BOOLEAN]
      /\ since \in [Procs -> Nat] /\ ts_start \in [Procs -> Nat] /\ ts_end \in [Procs -> Nat]
  BY <1>0, MainIs DEF MsrTyped, MsrTypeOK
<1>4. CASE q # p
  <2>1. /\ at'[q] = at[q] /\ i'[q] = i[q] /\ fd'[q] = fd[q] /\ val'[q] = val[q] /\ cpu'[q] = cpu[q]
        /\ ts_start'[q] = ts_start[q] /\ ts_end'[q] = ts_end[q] /\ disturbed'[q] = disturbed[q]
    BY <1>3, <1>4 DEF loadDriver, Ioctl, calc_pi, closeDriver, Migrate, Return
  <2>2. Regs(q)' = Regs(q)
    BY <1>1, <2>1 DEF Regs
  <2> QED BY <1>0, <1>1, <2>1, <2>2, AloneRight
<1>5. CASE q = p
  <2>1. CASE loadDriver(p)
    <3>1. at'[q] = 2 /\ i' = i /\ at[q] = 1 /\ i[q] = -1 /\ since[q] = 0
      BY <1>0, <1>3, <1>5, <2>1 DEF loadDriver, Steady
    <3> QED BY <1>1, <3>1 DEF Steady, Right, BeforeStart, Starts, Stops, AfterStop
  <2>2. CASE Ioctl(p) /\ fd[p] = "open"
    <3>1. i[q] = -1 /\ i'[q] = 0 /\ at[q] \in {2, 3, 5, 6} /\ UNCHANGED <<val, at, ts_start, ts_end, fd, disturbed, cpu>>
      BY <1>3, <1>5, <2>2, MainIs, VectorTypes DEF Ioctl
    <3>2. Steady(q)'
      BY <1>0, <1>2, <3>1 DEF Steady
    <3>3. ASSUME fd[q] = "open", ~disturbed[q] PROVE (BeforeStart(q) /\ Starts(q) /\ Stops(q) /\ AfterStop(q))'
      <4>1. BeforeStart(q) /\ Starts(q) /\ Stops(q) /\ AfterStop(q)
        BY <1>0, <3>3 DEF Right
      <4> QED BY <1>1, <1>2, <3>1, <4>1 DEF BeforeStart, Starts, Stops, AfterStop, ReadOut, Frozen, Counts, Regs
    <3> QED BY <3>1, <3>2, <3>3 DEF Right
  <2>3. CASE Ioctl(p) /\ fd[p] = "failed"
    <3>1. i'[q] = -1 /\ fd'[q] = "failed" /\ at'[q] # 1
      BY <1>3, <1>5, <2>3, MainIs, VectorTypes DEF Ioctl, Return
    <3> QED BY <3>1 DEF Steady, Right
  <2>4. CASE calc_pi(p)
    <3>1. at[q] = 4 /\ at'[q] = 5 /\ UNCHANGED <<i, fd, cpu, val, ts_start, ts_end, disturbed>>
      BY <1>3, <1>5, <2>4, MainIs DEF calc_pi
    <3>2. i[q] = -1
      BY <1>0, <3>1 DEF Steady
    <3>3. ASSUME fd[q] = "open", ~disturbed[q] PROVE (BeforeStart(q) /\ Starts(q) /\ Stops(q) /\ AfterStop(q))'
      <4>1. BeforeStart(q) /\ Stops(q)
        BY <1>0, <3>3 DEF Right
      <4> QED BY <1>1, <1>2, <3>1, <3>2, <4>1 DEF BeforeStart, Starts, Stops, AfterStop, Counts, Regs
    <3> QED BY <3>1, <3>2, <3>3 DEF Right, Steady
  <2>5. CASE closeDriver(p)
    <3>1. fd'[q] = "none" /\ at[q] = 7 /\ UNCHANGED <<at, i>>
      BY <1>3, <1>5, <2>5, MainIs DEF closeDriver
    <3> QED BY <1>0, <1>1, <1>2, <3>1 DEF Right, Steady
  <2>6. CASE Migrate(p)
    <3>1. disturbed'[q] /\ UNCHANGED <<at, i, fd>>
      BY <1>3, <1>5, <2>6 DEF Migrate
    <3> QED BY <1>0, <1>1, <1>2, <3>1 DEF Right, Steady
  <2> QED BY <2>1, <2>2, <2>3, <2>4, <2>5, <2>6 DEF Ioctl
<1> QED
  BY <1>4, <1>5

(* So every step keeps the invariant.                                      *)
LEMMA MsrKeeps == MsrInv0 /\ [MsrNext]_msrvars => MsrInv0'
<1> SUFFICES ASSUME MsrInv0, [MsrNext]_msrvars PROVE MsrInv0'
  OBVIOUS
<1>1. PlacesRight'
  <2>1. UNCHANGED layout
    BY DEF MsrNext, msrvars, loadDriver, Ioctl, calc_pi, closeDriver, Turn, Migrate, Event
  <2> QED BY <2>1, SameLayout DEF MsrInv0
<1>2. ASSUME NEW p \in Procs, Turn(p) PROVE MsrTyped' /\ \A q \in Procs : Steady(q)' /\ Right(q)'
  <2>1. at[p] \in {2, 3, 5, 6}
    BY <1>2, TurnExecutes, EntryOwn DEF MsrInv0, Executes
  <2>2. Steady(p)' /\ Right(p)'
    BY <1>2, <2>1, OwnTurn2, OwnTurn3, OwnTurn5, OwnTurn6
  <2>3. \A q \in Procs \ {p} : Steady(q)' /\ Right(q)'
    BY <1>2, OtherTurn
  <2> QED BY <1>2, <2>2, <2>3, TypeTurn
<1>3. ASSUME NEW p \in Procs, loadDriver(p) \/ Ioctl(p) \/ calc_pi(p) \/ closeDriver(p) \/ Migrate(p)
      PROVE  MsrTyped' /\ \A q \in Procs : Steady(q)' /\ Right(q)'
  BY <1>3, TypeOther, OtherRight
<1>4. ASSUME NEW c \in CPUs, Event(c) PROVE MsrTyped' /\ \A q \in Procs : Steady(q)' /\ Right(q)'
  BY <1>4, TypeEvent, EventRight DEF MsrInv0
<1>5. CASE UNCHANGED msrvars
  BY <1>5, SameLayout
  DEF msrvars, MsrInv0, MsrTyped, MsrTypeOK, Steady, Right, BeforeStart, Starts, Stops, AfterStop, ReadOut, Frozen, Counts, Regs
<1> QED
  BY <1>1, <1>2, <1>3, <1>4, <1>5 DEF MsrNext, MsrInv0

(* The invariant of the MSR driver: any number of processes and CPUs, any  *)
(* order of the three vectors in memory and anything behind them, any      *)
(* bound of the loop from 6 on.                                            *)
THEOREM MsrInvariant == DriversSpec => []MsrInv0
<1>1. DriversInit => MsrInv0
  BY MsrStart DEF DriversInit
<1>2. MsrInv0 /\ [DriversNext]_<<driver, cvars, hvars, msrvars>> => MsrInv0'
  <2> SUFFICES ASSUME MsrInv0, [DriversNext]_<<driver, cvars, hvars, msrvars>> PROVE MsrInv0'
    OBVIOUS
  <2>1. [MsrNext]_msrvars
    BY DEF DriversNext
  <2> QED BY <2>1, MsrKeeps
<1> QED BY <1>1, <1>2, PTL DEF DriversSpec

(* What msrtest prints is what happened (msrtest.c:155): the counters that *)
(* msr_stop reads hold the events on its CPU from msr_start on, and the    *)
(* time between its two reads of the clock is not shorter, unless the      *)
(* process was moved or another set the counters of its CPU.  The loop of  *)
(* the driver (msrdrv.c:110) runs on behind the vectors of one entry,      *)
(* which have no MSR_STOP, in every order of the vectors.                  *)
THEOREM CountsRight == DriversSpec => []CountsTheWork
<1>1. MsrInv0 => CountsTheWork
  <2> SUFFICES ASSUME MsrInv0, NEW p \in Procs, Main[at[p]] = "results", fd[p] = "open", ~disturbed[p]
               PROVE  /\ val[p][Place("msr_stop") + 2] = since[p] /\ val[p][Place("msr_stop") + 3] = since[p]
                      /\ ts_end[p] - ts_start[p] >= since[p]
    BY DEF CountsTheWork
  <2>1. at[p] = 7
    BY MainIs DEF MsrInv0, MsrTyped, MsrTypeOK
  <2> QED BY <2>1 DEF MsrInv0, Right, AfterStop, ReadOut, StopAt
<1> QED BY <1>1, MsrInvariant, PTL

(* The state of every driver is well formed: a report has at most MaxTree  *)
(* lines, device_write stays within Message, the counters of the CPUs      *)
(* count no more than there were events.                                   *)
THEOREM DriversTypes == DriversSpec => []DriversTypeOK
<1>1. MsrInv0 => MsrTypeOK
  BY DEF MsrInv0, MsrTyped
<1> QED BY <1>1, DevicesTyped, MsrInvariant, PTL DEF DriversTypeOK
=============================================================================
