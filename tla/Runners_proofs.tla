--------------------------- MODULE Runners_proofs ---------------------------
(***************************************************************************)
(* Theorems about Runners, for every set of ids and of helpers.            *)
(***************************************************************************)
EXTENDS Runners, TLAPS

USE RunnersAssumption
USE DEF machine, seen

CreateSteps == {"check", "useradd", "state", "configure", "register", "record", "enable",
                "userdel", "clear", "close"}
RemoveSteps == {"read", "disable", "userdel", "clear", "close"}
Whole(i) == "descriptor" \in files[i] <=> i \in accounts

-----------------------------------------------------------------------------
(* What the holder of the lock knows of its runner, by the step it is at.   *)

\* The runner was whole when a removal or a creation began, or it is known
\* that it may not be.
Untouched(h) ==
    /\ helper[h].step \in {"check", "useradd", "read", "disable"} =>
         Id(h) \in left \/ Whole(Id(h))
    /\ helper[h].step = "close" => LeavesHalf(h) \/ Id(h) \in left \/ Whole(Id(h))

Building(h) ==
    LET i == Id(h) step == helper[h].step IN
    /\ step \in {"state", "configure", "register", "record"} => i \in accounts
    /\ step \in {"useradd", "state", "configure", "register", "record"} =>
         "descriptor" \notin files[i] /\ "dir" \in files[i]
    /\ step = "register" => helper[h].provider = "github"
    /\ step \in {"configure", "register", "record"} => "state" \in files[i]
    /\ step = "enable" => i \in accounts /\ Parts \ {"app"} \subseteq files[i]
    /\ step = "userdel" /\ Creates(h) => "dir" \in files[i] /\ "descriptor" \notin files[i]
    /\ step \in {"disable", "userdel", "clear"} /\ ~Creates(h) => "descriptor" \in files[i]
    /\ step = "clear" => i \notin accounts

\* Once its own useradd or userdel has succeeded, no other one is left to land.
Alone(h) ==
    LET step == helper[h].step IN
    /\ step \in {"state", "configure", "register", "record", "enable", "clear"} =>
         survivor[Id(h)] \subseteq {"register"}
    /\ step = "close" /\ helper[h].reply \in {"ok", "retained", "cleaned", "remains"} =>
         survivor[Id(h)] \subseteq {"register"}

(* When a record that GitHub has made is not covered by the descriptor.     *)
Recorded(h) ==
    LET step == helper[h].step IN
    record[Id(h)] = "silent" /\ Id(h) \notin unheard =>
      /\ step \in {"check", "read", "disable", "enable"} => "descriptor" \in files[Id(h)]
      /\ step \notin {"useradd", "state", "configure", "register"}
      /\ step = "record" => helper[h].provider = "github"
      /\ step \in {"userdel", "clear"} => helper[h].inspect \/ ~Creates(h)
      /\ step = "close" =>
           \/ "descriptor" \in files[Id(h)] \/ Mentions(h)
           \/ helper[h].action = "remove" /\ helper[h].reply = "remains"

Phase(h) ==
    /\ helper[h].step \in (IF Creates(h) THEN CreateSteps ELSE RemoveSteps)
    /\ Untouched(h) /\ Building(h) /\ Alone(h) /\ Recorded(h)

\* A helper beside the lock stays off the steps of its holder, and has
\* nothing to say of a cleanup or of a record.
Beside(h) ==
    helper[h] # None /\ ~Mutates(h) =>
      /\ ~helper[h].inspect
      /\ helper[h].reply \in {None, "ok", "failed"}
      /\ helper[h].action \in {"start", "stop", "restart"} =>
           helper[h].step \in {"read", "enable", "reread", "restart", "disable", "close"}

IInv ==
    /\ TypeOK
    /\ OneMutation
    /\ \A h \in Helpers : Beside(h)
    /\ \A h \in Helpers : Mutates(h) => Phase(h)
    /\ RepliesAreTrue
    /\ WholeOrAbsent
    /\ ListenersHaveRunners
    /\ NoSilentRecord

-----------------------------------------------------------------------------
LEMMA InitIInv == Init => IInv
<1> SUFFICES ASSUME Init PROVE IInv
  OBVIOUS
<1>1. TypeOK
  BY DEF Init, TypeOK, Activities
<1>2. \A h \in Helpers : ~Mutates(h) /\ lock # h
  BY DEF Init, Mutates
<1>3. WholeOrAbsent /\ ListenersHaveRunners /\ NoSilentRecord
  BY DEF Init, WholeOrAbsent, ListenersHaveRunners, NoSilentRecord
<1>4. QED
  BY <1>1, <1>2, <1>3 DEF Init, IInv, OneMutation, RepliesAreTrue, Beside

\* Only the holder of the lock mutates, and a helper has one runner.
LEMMA Holder ==
  ASSUME IInv, NEW h \in Helpers, Mutates(h)
  PROVE  /\ lock = h /\ helper[h] \in Tasks /\ Id(h) \in Ids /\ Phase(h)
         /\ \A g \in Helpers : Mutates(g) => g = h
  BY DEF IInv, TypeOK, OneMutation, Mutates, Tasks, Id

\* A step of the holder: what it must establish is about its own runner.
LEMMA HolderStep ==
  ASSUME IInv, NEW h \in Helpers, Mutates(h), TypeOK',
         lock' = lock, left' = left,
         \A g \in Helpers \ {h} : helper'[g] = helper[g],
         Mutates(h)', Id(h)' = Id(h),
         \A i \in Ids \ {Id(h)} :
            /\ i \in accounts' <=> i \in accounts
            /\ i \in unheard' <=> i \in unheard
            /\ files'[i] = files[i] /\ record'[i] = record[i] /\ unit'[i] = unit[i],
         Phase(h)',
         At(h, "close")' => AnswerIsTrue(h)',
         unit'[Id(h)].active = "listening" => Launches(Id(h))'
  PROVE  IInv'
<1> DEFINE i0 == Id(h)
<1>1. lock = h /\ i0 \in Ids /\ \A g \in Helpers : Mutates(g) => g = h
  BY Holder
<1>2. \A g \in Helpers : Mutates(g)' <=> g = h
  BY <1>1 DEF Mutates
<1>3. OneMutation'
  BY <1>1, <1>2 DEF OneMutation
<1>4. (\A g \in Helpers : Mutates(g) => Phase(g))'
  BY <1>2
<1>5. RepliesAreTrue'
  BY <1>2 DEF RepliesAreTrue
<1>6. WholeOrAbsent'
  <2> SUFFICES ASSUME NEW i \in Ids, i \notin left',
                      \A g \in Helpers : lock' = g => Id(g)' # i
               PROVE  "descriptor" \in files'[i] <=> i \in accounts'
    BY DEF WholeOrAbsent
  <2>1. i # i0
    BY <1>1
  <2>2. \A g \in Helpers : lock = g => Id(g) # i
    BY <1>1, <2>1
  <2>3. QED BY <2>1, <2>2 DEF IInv, WholeOrAbsent
<1>7. ListenersHaveRunners'
  <2> SUFFICES ASSUME NEW i \in Ids, unit'[i].active = "listening"
               PROVE  Launches(i)'
    BY DEF ListenersHaveRunners
  <2>1. CASE i = i0
    BY <2>1
  <2>2. CASE i # i0
    BY <2>2 DEF IInv, ListenersHaveRunners, Launches
  <2>3. QED BY <2>1, <2>2
<1>8. NoSilentRecord'
  <2> SUFFICES ASSUME NEW i \in Ids, record'[i] = "silent", i # i0
               PROVE  "descriptor" \in files'[i] \/ i \in unheard'
    BY <1>1, <1>2 DEF NoSilentRecord
  <2>1. record[i] = "silent" /\ ~\E g \in Helpers : Mutates(g) /\ Id(g) = i
    BY <1>1
  <2>2. QED BY <2>1 DEF IInv, NoSilentRecord
<1>9. (\A g \in Helpers : Beside(g))'
  BY <1>2, <1>1 DEF IInv, Beside, Mutates
<1>10. QED BY <1>3, <1>4, <1>5, <1>6, <1>7, <1>8, <1>9 DEF IInv

\* A step beside the lock: accounts, files and the mutation are left alone.
LEMMA FreeStep ==
  ASSUME IInv, TypeOK', lock' = lock,
         UNCHANGED <<accounts, files, survivor, seen>>,
         \A i \in Ids : record'[i] = "silent" => record[i] = "silent",
         \A g \in Helpers : helper'[g] = helper[g] \/ (~Mutates(g) /\ ~Mutates(g)' /\ Beside(g)'),
         \A i \in Ids : unit'[i].active = "listening" =>
                          unit[i].active = "listening" \/ Launches(i)
  PROVE  IInv'
<1>1. \A g \in Helpers : Mutates(g)' <=> Mutates(g)
  BY DEF Mutates
<1>2. \A g \in Helpers : Mutates(g) => helper'[g] = helper[g]
  BY DEF Mutates
<1>3. OneMutation'
  BY <1>1 DEF IInv, OneMutation
<1>4. (\A g \in Helpers : Mutates(g) => Phase(g))'
  <2> SUFFICES ASSUME NEW g \in Helpers, Mutates(g)' PROVE Phase(g)'
    OBVIOUS
  <2>1. helper'[g] = helper[g] /\ Phase(g) /\ Id(g) \in Ids
    BY <1>1, <1>2, Holder DEF IInv
  <2>2. QED BY <2>1 DEF Phase, Untouched, Building, Alone, Recorded, Whole, Id, Creates,
       LeavesHalf, Mentions
<1>5. RepliesAreTrue'
  <2> SUFFICES ASSUME NEW g \in Helpers, Mutates(g)', At(g, "close")' PROVE AnswerIsTrue(g)'
    BY DEF RepliesAreTrue
  <2>1. helper'[g] = helper[g]
    BY <1>1, <1>2
  <2>2. AnswerIsTrue(g)
    BY <2>1, <1>1 DEF IInv, RepliesAreTrue, At
  <2>3. QED BY <2>1, <2>2 DEF AnswerIsTrue, Id, Creates
<1>6. WholeOrAbsent'
  <2> SUFFICES ASSUME NEW i \in Ids, i \notin left',
                      \A g \in Helpers : lock' = g => Id(g)' # i
               PROVE  "descriptor" \in files'[i] <=> i \in accounts'
    BY DEF WholeOrAbsent
  <2>1. ASSUME NEW g \in Helpers, lock = g PROVE Id(g) # i
    <3>1. Mutates(g)
      BY <2>1 DEF IInv, OneMutation
    <3>2. helper'[g] = helper[g]
      BY <3>1, <1>2
    <3>3. QED BY <2>1, <3>2 DEF Id
  <2>2. QED BY <2>1 DEF IInv, WholeOrAbsent
<1>7. ListenersHaveRunners'
  BY DEF IInv, ListenersHaveRunners, Launches
<1>8. NoSilentRecord'
  <2> SUFFICES ASSUME NEW i \in Ids, record[i] = "silent",
                      "descriptor" \notin files[i], i \notin unheard
               PROVE  \E g \in Helpers : Mutates(g)' /\ Id(g)' = i
    BY DEF NoSilentRecord
  <2>1. PICK g \in Helpers : Mutates(g) /\ Id(g) = i
    BY DEF IInv, NoSilentRecord
  <2>2. Mutates(g)' /\ helper'[g] = helper[g]
    BY <2>1, <1>1, <1>2
  <2>3. QED BY <2>1, <2>2 DEF Id
<1>9. (\A g \in Helpers : Beside(g))'
  BY <1>1 DEF IInv, Beside
<1>10. QED BY <1>3, <1>4, <1>5, <1>6, <1>7, <1>8, <1>9 DEF IInv

-----------------------------------------------------------------------------
(* What a step does to the helper that takes it.                            *)
Moved(h, step, inspect, reply) ==
    /\ helper' \in [Helpers -> Tasks \cup {None}]
    /\ \A g \in Helpers \ {h} : helper'[g] = helper[g]
    /\ helper'[h] # None
    /\ helper'[h].action = helper[h].action
    /\ helper'[h].id = helper[h].id
    /\ helper'[h].provider = helper[h].provider
    /\ helper'[h].step = step
    /\ helper'[h].inspect = inspect
    /\ helper'[h].reply = reply
    /\ \A g \in Helpers : helper'[g] # None =>
                          (helper'[g].step = "close" <=> helper'[g].reply # None)

LEMMA Goes ==
  ASSUME TypeOK, NEW h \in Helpers, helper[h] # None, helper[h].step # "close",
         NEW step \in Steps \ {"close"}, GoesTo(h, step)
  PROVE  Moved(h, step, helper[h].inspect, None)
<1>1. helper[h] \in Tasks /\ helper[h].reply = None
  BY DEF TypeOK
<1>2. helper'[h] = [helper[h] EXCEPT !.step = step]
  BY DEF TypeOK, GoesTo
<1>3. helper'[h] \in Tasks
  BY <1>1, <1>2 DEF Tasks
<1>4. helper' \in [Helpers -> Tasks \cup {None}] /\ \A g \in Helpers \ {h} : helper'[g] = helper[g]
  BY <1>2, <1>3 DEF TypeOK, GoesTo
<1>5. QED BY <1>1, <1>2, <1>3, <1>4 DEF Moved, TypeOK, Tasks

LEMMA Answers ==
  ASSUME TypeOK, NEW h \in Helpers, helper[h] # None, NEW reply \in Replies, Returns(h, reply)
  PROVE  Moved(h, "close", helper[h].inspect, reply)
<1>1. helper[h] \in Tasks
  BY DEF TypeOK
<1>2. helper'[h] = [helper[h] EXCEPT !.step = "close", !.reply = reply]
  BY DEF TypeOK, Returns
<1>3. helper'[h] \in Tasks
  BY <1>1, <1>2 DEF Tasks, Steps
<1>4. helper' \in [Helpers -> Tasks \cup {None}] /\ \A g \in Helpers \ {h} : helper'[g] = helper[g]
  BY <1>2, <1>3 DEF TypeOK, Returns
<1>5. helper'[h] # None
  BY <1>3
<1>6. /\ helper'[h].step = "close" /\ helper'[h].reply = reply
      /\ helper'[h].action = helper[h].action /\ helper'[h].id = helper[h].id
      /\ helper'[h].provider = helper[h].provider /\ helper'[h].inspect = helper[h].inspect
  BY <1>1, <1>2 DEF Tasks
<1>7. \A g \in Helpers : helper'[g] # None =>
                         (helper'[g].step = "close" <=> helper'[g].reply # None)
  BY <1>4, <1>6 DEF TypeOK
<1>8. QED BY <1>4, <1>5, <1>6, <1>7 DEF Moved

LEMMA Cleans ==
  ASSUME TypeOK, NEW h \in Helpers, helper[h] # None, helper[h].step # "close",
         NEW inspect \in BOOLEAN, CleansUp(h, inspect)
  PROVE  Moved(h, "userdel", inspect, None)
<1>1. helper[h] \in Tasks /\ helper[h].reply = None
  BY DEF TypeOK
<1>2. helper'[h] = [helper[h] EXCEPT !.step = "userdel", !.inspect = inspect]
  BY DEF TypeOK, CleansUp
<1>3. helper'[h] \in Tasks
  BY <1>1, <1>2 DEF Tasks, Steps
<1>4. helper' \in [Helpers -> Tasks \cup {None}] /\ \A g \in Helpers \ {h} : helper'[g] = helper[g]
  BY <1>2, <1>3 DEF TypeOK, CleansUp
<1>5. helper'[h] # None
  BY <1>3
<1>6. /\ helper'[h].step = "userdel" /\ helper'[h].reply = None
      /\ helper'[h].action = helper[h].action /\ helper'[h].id = helper[h].id
      /\ helper'[h].provider = helper[h].provider /\ helper'[h].inspect = inspect
  BY <1>1, <1>2 DEF Tasks
<1>7. \A g \in Helpers : helper'[g] # None =>
                         (helper'[g].step = "close" <=> helper'[g].reply # None)
  BY <1>4, <1>6 DEF TypeOK
<1>8. QED BY <1>4, <1>5, <1>6, <1>7 DEF Moved

-----------------------------------------------------------------------------
(* The steps of the holder of the lock.                                     *)

\* Only a creation or a removal is at these steps.
LEMMA Owner ==
  ASSUME IInv, NEW h \in Helpers, helper[h] # None,
         helper[h].step \in {"check", "useradd", "state", "configure", "register", "record",
                             "userdel", "clear"}
  PROVE  /\ Mutates(h) /\ lock = h /\ helper[h] \in Tasks /\ Id(h) \in Ids /\ Phase(h)
         /\ helper[h].step \notin {"userdel", "clear"} => Creates(h)
<1>1. helper[h] \in Tasks /\ Beside(h)
  BY DEF IInv, TypeOK
<1>2. Mutates(h)
  BY <1>1 DEF Beside, Mutates, Tasks, Actions
<1>3. QED BY <1>2, Holder DEF Phase, RemoveSteps

\* What a step leaves alone of the other runners.
Aside(h) ==
  /\ left' = left
  /\ \A i \in Ids \ {Id(h)} :
       /\ i \in accounts' <=> i \in accounts
       /\ i \in unheard' <=> i \in unheard
       /\ files'[i] = files[i] /\ record'[i] = record[i] /\ unit'[i] = unit[i]

\* A listener of the runner itself has what it needs.
Listening(h) == unit[Id(h)].active = "listening" => Launches(Id(h))

\* The holder moves on, and its runner is all that changes.
LEMMA HolderMoves ==
  ASSUME IInv, NEW h \in Helpers, Mutates(h),
         NEW step, step # "lock", NEW inspect, NEW reply, Moved(h, step, inspect, reply),
         TypeOK', lock' = lock, Aside(h), Phase(h)', step = "close" => AnswerIsTrue(h)',
         Listening(h)'
  PROVE  IInv'
<1>1. lock = h /\ Id(h) \in Ids
  BY Holder
<1>2. Mutates(h)' /\ Id(h)' = Id(h) /\ (At(h, "close")' => step = "close")
  BY DEF Moved, Mutates, Id, At
<1>3. \A g \in Helpers \ {h} : helper'[g] = helper[g]
  BY DEF Moved
<1>4. unit'[Id(h)].active = "listening" => Launches(Id(h))'
  BY <1>2 DEF Listening
<1>5. QED BY <1>1, <1>2, <1>3, <1>4, HolderStep DEF Aside

\* Launches is kept when the account and the files are.
LEMMA ListeningKept ==
  ASSUME IInv, NEW h \in Helpers, Id(h) \in Ids, Id(h)' = Id(h), unit' = unit,
         Id(h) \in accounts => Id(h) \in accounts', files[Id(h)] \subseteq files'[Id(h)]
  PROVE  Listening(h)'
  BY DEF IInv, ListenersHaveRunners, Listening, Launches

LEMMA CheckAvailableStep == ASSUME IInv, NEW h \in Helpers, CheckAvailable(h) PROVE IInv'
<1> DEFINE i == Id(h)
<1>1. helper[h] # None /\ helper[h].step = "check" /\ TypeOK
  BY DEF CheckAvailable, At, IInv
<1>2. Mutates(h) /\ Creates(h) /\ helper[h] \in Tasks /\ i \in Ids /\ Phase(h)
  BY <1>1, Owner
<1>3. CASE /\ Available(i)
           /\ files' = [files EXCEPT ![i] = @ \cup {"dir"}]
           /\ GoesTo(h, "useradd")
  <2>1. Moved(h, "useradd", helper[h].inspect, None)
    BY <1>1, <1>3, Goes DEF Steps
  <2>2. Phase(h)' /\ i' = i
    BY <1>1, <1>2, <1>3, <2>1
       DEF Phase, Untouched, Building, Alone, Recorded, Whole, LeavesHalf, Mentions, Moved,
          CheckAvailable, Available, Id, Creates, CreateSteps, TypeOK
  <2>3. TypeOK'
    BY <1>1, <1>2, <1>3, <2>1 DEF TypeOK, Moved, CheckAvailable, Parts
  <2>4. Aside(h)
    BY <1>1, <1>2, <1>3 DEF TypeOK, CheckAvailable, Aside
  <2>5. Listening(h)'
    BY <1>1, <1>2, <1>3, <2>2, ListeningKept DEF TypeOK, CheckAvailable
  <2>6. QED
    BY <1>2, <2>1, <2>2, <2>3, <2>4, <2>5, HolderMoves DEF CheckAvailable
<1>4. CASE Returns(h, "refused") /\ UNCHANGED files
  <2>1. Moved(h, "close", helper[h].inspect, "refused")
    BY <1>1, <1>4, Answers DEF Replies
  <2>2. i' = i /\ Creates(h)'
    BY <1>2, <2>1 DEF Moved, Id, Creates
  <2>3. Phase(h)' /\ AnswerIsTrue(h)'
    <3>1. /\ Id(h) \in left \/ Whole(Id(h))
          /\ record[i] = "silent" => "descriptor" \in files[i] \/ i \in unheard
      BY <1>1, <1>2 DEF Phase, Untouched, Recorded
    <3>2. helper'[h].step = "close" /\ helper'[h].reply = "refused"
      BY <2>1 DEF Moved
    <3>3. Untouched(h)'
      BY <3>1, <2>2, <1>4 DEF Untouched, Whole, CheckAvailable
    <3>4. Building(h)' /\ Alone(h)'
      BY <3>2, <2>2 DEF Building, Alone
    <3>5. Recorded(h)'
      BY <3>1, <3>2, <2>2, <1>4 DEF Recorded, CheckAvailable
    <3>6. AnswerIsTrue(h)'
      BY <3>2, <2>2 DEF AnswerIsTrue
    <3>7. QED BY <3>2, <3>3, <3>4, <3>5, <3>6, <2>2 DEF Phase, CreateSteps
  <2>4. TypeOK'
    BY <1>1, <1>2, <1>4, <2>1 DEF TypeOK, Moved, CheckAvailable
  <2>5. Aside(h)
    BY <1>4 DEF CheckAvailable, Aside
  <2>6. Listening(h)'
    BY <1>2, <1>4, <2>2, ListeningKept DEF CheckAvailable
  <2>7. QED
    BY <1>2, <2>1, <2>3, <2>4, <2>5, <2>6, HolderMoves DEF CheckAvailable
<1>5. QED BY <1>3, <1>4 DEF CheckAvailable
\* The service actions keep the type of the units and make nobody listen.
LEMMA DisablesUnit ==
  ASSUME TypeOK, NEW h \in Helpers, Id(h) \in Ids, Disable(h)
  PROVE  /\ unit' \in [Ids -> [enabled: BOOLEAN, active: Activities]]
         /\ \A i \in Ids : unit'[i].active = "listening" => unit[i].active = "listening"
<1> DEFINE old == unit[Id(h)]
<1>1. old.enabled \in BOOLEAN /\ old.active \in Activities /\ "off" \in Activities
  BY DEF TypeOK, Activities
<1>2. \E e \in {FALSE, old.enabled}, a \in {"off", old.active} :
        unit' = [unit EXCEPT ![Id(h)] = [enabled |-> e, active |-> a]]
  BY DEF Disable, Off
<1>3. PICK e \in BOOLEAN, a \in Activities :
        /\ unit' = [unit EXCEPT ![Id(h)] = [enabled |-> e, active |-> a]]
        /\ a = "listening" => old.active = "listening"
  BY <1>1, <1>2
<1>4. QED BY <1>3 DEF TypeOK

LEMMA EnablesUnit ==
  ASSUME TypeOK, NEW h \in Helpers, Id(h) \in Ids, Enable(h)
  PROVE  /\ unit' \in [Ids -> [enabled: BOOLEAN, active: Activities]]
         /\ \A i \in Ids : unit'[i].active = "listening" => unit[i].active = "listening"
<1> DEFINE old == unit[Id(h)]
<1>1. old \in [enabled: BOOLEAN, active: Activities]
  BY DEF TypeOK
<1>2. \/ \E e \in BOOLEAN : unit' = [unit EXCEPT ![Id(h)] = [old EXCEPT !.enabled = e]]
      \/ unit' = Started(Id(h))
  BY <1>1, Zenon DEF Enable
<1>3. \E e \in BOOLEAN, a \in Activities :
        /\ unit' = [unit EXCEPT ![Id(h)] = [enabled |-> e, active |-> a]]
        /\ a = "listening" => old.active = "listening"
  <2>1. ASSUME NEW e \in BOOLEAN, unit' = [unit EXCEPT ![Id(h)] = [old EXCEPT !.enabled = e]]
        PROVE  unit' = [unit EXCEPT ![Id(h)] = [enabled |-> e, active |-> old.active]]
    <3>1. [old EXCEPT !.enabled = e] = [enabled |-> e, active |-> old.active]
      BY <1>1
    <3>2. QED BY <2>1, <3>1
  <2>2. ASSUME unit' = Started(Id(h))
        PROVE  unit' = [unit EXCEPT ![Id(h)] =
                          [enabled |-> TRUE, active |-> IF old.active = "off" THEN "trying"
                                                        ELSE old.active]]
    BY <2>2 DEF TypeOK, Started
  <2>3. old.active \in Activities /\ "trying" \in Activities
    BY <1>1 DEF Activities
  <2>4. QED BY <1>2, <2>1, <2>2, <2>3
<1>4. QED BY <1>3 DEF TypeOK

LEMMA RestartsUnit ==
  ASSUME TypeOK, NEW h \in Helpers, Id(h) \in Ids, Restart(h)
  PROVE  /\ unit' \in [Ids -> [enabled: BOOLEAN, active: Activities]]
         /\ \A i \in Ids : unit'[i].active = "listening" => unit[i].active = "listening"
<1>1. PICK a \in {"off", "trying"} : unit' = [unit EXCEPT ![Id(h)] = [@ EXCEPT !.active = a]]
  BY DEF Restart
<1>2. unit[Id(h)] \in [enabled: BOOLEAN, active: Activities]
  BY DEF TypeOK
<1>3. QED BY <1>1, <1>2 DEF TypeOK, Activities

LEMMA UserAddStep == ASSUME IInv, NEW h \in Helpers, UserAdd(h) PROVE IInv'
<1> DEFINE i == Id(h)
<1>1. helper[h] # None /\ helper[h].step = "useradd" /\ TypeOK
  BY DEF UserAdd, At, IInv
<1>2. Mutates(h) /\ Creates(h) /\ helper[h] \in Tasks /\ i \in Ids /\ Phase(h)
  BY <1>1, Owner
<1>3. CASE accounts' = accounts \cup {i} /\ Overtakes(i) /\ GoesTo(h, "state")
  <2>1. Moved(h, "state", helper[h].inspect, None)
    BY <1>1, <1>2, <1>3, Goes DEF Steps
  <2>2. i' = i /\ Creates(h)' = Creates(h)
    BY <2>1 DEF Moved, Id, Creates
  <2>3. Phase(h)'
    BY <1>1, <1>2, <1>3, <2>1, <2>2
       DEF Phase, Untouched, Building, Alone, Recorded, Whole, LeavesHalf, Mentions, Moved,
          UserAdd, Overtakes, Commands,
          CreateSteps, RemoveSteps, Parts, TypeOK
  <2>4. TypeOK'
    BY <1>1, <1>2, <1>3, <2>1 DEF TypeOK, Moved, UserAdd, Overtakes, Parts
  <2>5. Aside(h)
    BY <1>1, <1>2, <1>3 DEF TypeOK, UserAdd, Aside
  <2>6. Listening(h)'
    BY <1>1, <1>2, <1>3, <2>2, ListeningKept DEF TypeOK, UserAdd
  <2>7. QED
    BY <1>2, <2>1, <2>3, <2>4, <2>5, <2>6, HolderMoves DEF UserAdd
<1>4. CASE /\ accounts' \in {accounts, accounts \cup {i}}
           /\ Returns(h, "useradd") /\ UNCHANGED survivor
  <2>1. Moved(h, "close", helper[h].inspect, "useradd")
    BY <1>1, <1>2, <1>4, Answers DEF Replies, Creates
  <2>2. i' = i /\ Creates(h)' = Creates(h)
    BY <2>1 DEF Moved, Id, Creates
  <2>3. Phase(h)'
    BY <1>1, <1>2, <1>4, <2>1, <2>2
       DEF Phase, Untouched, Building, Alone, Recorded, Whole, LeavesHalf, Mentions, Moved,
          UserAdd, Overtakes, Commands,
          CreateSteps, RemoveSteps, Parts, TypeOK
  <2>4. AnswerIsTrue(h)'
    BY <1>1, <1>2, <1>4, <2>1, <2>2 DEF AnswerIsTrue, Phase, Building, Moved, UserAdd,
       Parts, TypeOK
  <2>5. TypeOK'
    BY <1>1, <1>2, <1>4, <2>1 DEF TypeOK, Moved, UserAdd, Overtakes, Parts
  <2>6. Aside(h)
    BY <1>1, <1>2, <1>4 DEF TypeOK, UserAdd, Aside
  <2>7. Listening(h)'
    BY <1>1, <1>2, <1>4, <2>2, ListeningKept DEF TypeOK, UserAdd
  <2>8. QED
    BY <1>2, <2>1, <2>3, <2>4, <2>5, <2>6, <2>7, HolderMoves DEF UserAdd
<1>5. QED BY <1>1, <1>2, <1>3, <1>4 DEF UserAdd

LEMMA MakeStateStep == ASSUME IInv, NEW h \in Helpers, MakeState(h) PROVE IInv'
<1> DEFINE i == Id(h)
<1>1. helper[h] # None /\ helper[h].step = "state" /\ TypeOK
  BY DEF MakeState, At, IInv
<1>2. Mutates(h) /\ Creates(h) /\ helper[h] \in Tasks /\ i \in Ids /\ Phase(h)
  BY <1>1, Owner
<1>3. CASE files' = [files EXCEPT ![i] = @ \cup {"state"}] /\ GoesTo(h, "configure")
  <2>1. Moved(h, "configure", helper[h].inspect, None)
    BY <1>1, <1>2, <1>3, Goes DEF Steps
  <2>2. i' = i /\ Creates(h)' = Creates(h)
    BY <2>1 DEF Moved, Id, Creates
  <2>3. Phase(h)'
    BY <1>1, <1>2, <1>3, <2>1, <2>2
       DEF Phase, Untouched, Building, Alone, Recorded, Whole, LeavesHalf, Mentions,
           Moved, MakeState,
          CreateSteps, RemoveSteps, Parts, TypeOK
  <2>4. TypeOK'
    BY <1>1, <1>2, <1>3, <2>1 DEF TypeOK, Moved, MakeState, Parts
  <2>5. Aside(h)
    BY <1>1, <1>2, <1>3 DEF TypeOK, MakeState, Aside
  <2>6. Listening(h)'
    BY <1>1, <1>2, <1>3, <2>2, ListeningKept DEF TypeOK, MakeState
  <2>7. QED
    BY <1>2, <2>1, <2>3, <2>4, <2>5, <2>6, HolderMoves DEF MakeState
<1>4. CASE /\ files' \in {files, [files EXCEPT ![i] = @ \cup {"state"}]}
           /\ CleansUp(h, FALSE)
  <2>1. Moved(h, "userdel", FALSE, None)
    BY <1>1, <1>2, <1>4, Cleans
  <2>2. i' = i /\ Creates(h)' = Creates(h)
    BY <2>1 DEF Moved, Id, Creates
  <2>3. Phase(h)'
    BY <1>1, <1>2, <1>4, <2>1, <2>2
       DEF Phase, Untouched, Building, Alone, Recorded, Whole, LeavesHalf, Mentions,
           Moved, MakeState,
          CreateSteps, RemoveSteps, Parts, TypeOK
  <2>4. TypeOK'
    BY <1>1, <1>2, <1>4, <2>1 DEF TypeOK, Moved, MakeState, Parts
  <2>5. Aside(h)
    BY <1>1, <1>2, <1>4 DEF TypeOK, MakeState, Aside
  <2>6. Listening(h)'
    BY <1>1, <1>2, <1>4, <2>2, ListeningKept DEF TypeOK, MakeState
  <2>7. QED
    BY <1>2, <2>1, <2>3, <2>4, <2>5, <2>6, HolderMoves DEF MakeState
<1>5. QED BY <1>1, <1>2, <1>3, <1>4 DEF MakeState

LEMMA ConfigureStep == ASSUME IInv, NEW h \in Helpers, Configure(h) PROVE IInv'
<1> DEFINE i == Id(h)
<1>1. helper[h] # None /\ helper[h].step = "configure" /\ TypeOK
  BY DEF Configure, At, IInv
<1>2. Mutates(h) /\ Creates(h) /\ helper[h] \in Tasks /\ i \in Ids /\ Phase(h)
  BY <1>1, Owner
<1>3. CASE UNCHANGED files /\ GoesTo(h, "record")
  <2>1. Moved(h, "record", helper[h].inspect, None)
    BY <1>1, <1>2, <1>3, Goes DEF Steps
  <2>2. i' = i /\ Creates(h)' = Creates(h)
    BY <2>1 DEF Moved, Id, Creates
  <2>3. Phase(h)'
    BY <1>1, <1>2, <1>3, <2>1, <2>2
       DEF Phase, Untouched, Building, Alone, Recorded, Whole, LeavesHalf, Mentions,
           Moved, Configure,
          CreateSteps, RemoveSteps, Parts, TypeOK
  <2>4. TypeOK'
    BY <1>1, <1>2, <1>3, <2>1 DEF TypeOK, Moved, Configure, Parts
  <2>5. Aside(h)
    BY <1>1, <1>2, <1>3 DEF TypeOK, Configure, Aside
  <2>6. Listening(h)'
    BY <1>1, <1>2, <1>3, <2>2, ListeningKept DEF TypeOK, Configure
  <2>7. QED
    BY <1>2, <2>1, <2>3, <2>4, <2>5, <2>6, HolderMoves DEF Configure
<1>4. CASE files' \in {files, [files EXCEPT ![i] = @ \cup {"app"}]} /\ CleansUp(h, FALSE)
  <2>1. Moved(h, "userdel", FALSE, None)
    BY <1>1, <1>2, <1>4, Cleans
  <2>2. i' = i /\ Creates(h)' = Creates(h)
    BY <2>1 DEF Moved, Id, Creates
  <2>3. Phase(h)'
    BY <1>1, <1>2, <1>4, <2>1, <2>2
       DEF Phase, Untouched, Building, Alone, Recorded, Whole, LeavesHalf, Mentions,
           Moved, Configure,
          CreateSteps, RemoveSteps, Parts, TypeOK
  <2>4. TypeOK'
    BY <1>1, <1>2, <1>4, <2>1 DEF TypeOK, Moved, Configure, Parts
  <2>5. Aside(h)
    BY <1>1, <1>2, <1>4 DEF TypeOK, Configure, Aside
  <2>6. Listening(h)'
    BY <1>1, <1>2, <1>4, <2>2, ListeningKept DEF TypeOK, Configure
  <2>7. QED
    BY <1>2, <2>1, <2>3, <2>4, <2>5, <2>6, HolderMoves DEF Configure
<1>5. CASE /\ helper[h].provider = "github"
           /\ files' = [files EXCEPT ![i] = @ \cup {"app"}]
           /\ GoesTo(h, "register")
  <2>1. Moved(h, "register", helper[h].inspect, None)
    BY <1>1, <1>2, <1>5, Goes DEF Steps
  <2>2. i' = i /\ Creates(h)' = Creates(h)
    BY <2>1 DEF Moved, Id, Creates
  <2>3. Phase(h)'
    BY <1>1, <1>2, <1>5, <2>1, <2>2
       DEF Phase, Untouched, Building, Alone, Recorded, Whole, LeavesHalf, Mentions,
           Moved, Configure,
          CreateSteps, RemoveSteps, Parts, TypeOK
  <2>4. TypeOK'
    BY <1>1, <1>2, <1>5, <2>1 DEF TypeOK, Moved, Configure, Parts
  <2>5. Aside(h)
    BY <1>1, <1>2, <1>5 DEF TypeOK, Configure, Aside
  <2>6. Listening(h)'
    BY <1>1, <1>2, <1>5, <2>2, ListeningKept DEF TypeOK, Configure
  <2>7. QED
    BY <1>2, <2>1, <2>3, <2>4, <2>5, <2>6, HolderMoves DEF Configure
<1>6. QED BY <1>1, <1>2, <1>3, <1>4, <1>5 DEF Configure, Tasks, Providers

LEMMA RegisterStep == ASSUME IInv, NEW h \in Helpers, Register(h) PROVE IInv'
<1> DEFINE i == Id(h)
<1>1. helper[h] # None /\ helper[h].step = "register" /\ TypeOK
  BY DEF Register, At, IInv
<1>2. Mutates(h) /\ Creates(h) /\ helper[h] \in Tasks /\ i \in Ids /\ Phase(h)
  BY <1>1, Owner
<1>3. CASE /\ record' = [record EXCEPT ![i] = "silent"]
           /\ unheard' = unheard \ {i}
           /\ GoesTo(h, "record")
  <2>1. Moved(h, "record", helper[h].inspect, None)
    BY <1>1, <1>2, <1>3, Goes DEF Steps
  <2>2. i' = i /\ Creates(h)' = Creates(h)
    BY <2>1 DEF Moved, Id, Creates
  <2>3. Phase(h)'
    BY <1>1, <1>2, <1>3, <2>1, <2>2
       DEF Phase, Untouched, Building, Alone, Recorded, Whole, LeavesHalf, Mentions,
           Moved, Register,
          CreateSteps, RemoveSteps, Parts, TypeOK
  <2>4. TypeOK'
    BY <1>1, <1>2, <1>3, <2>1 DEF TypeOK, Moved, Register, Parts
  <2>5. Aside(h)
    BY <1>1, <1>2, <1>3 DEF TypeOK, Register, Aside
  <2>6. Listening(h)'
    BY <1>1, <1>2, <1>3, <2>2, ListeningKept DEF TypeOK, Register
  <2>7. QED
    BY <1>2, <2>1, <2>3, <2>4, <2>5, <2>6, HolderMoves DEF Register
<1>4. CASE /\ record' \in {record, [record EXCEPT ![i] = "silent"]}
           /\ unheard' \in {unheard, unheard \ {i}}
           /\ CleansUp(h, TRUE)
  <2>1. Moved(h, "userdel", TRUE, None)
    BY <1>1, <1>2, <1>4, Cleans
  <2>2. i' = i /\ Creates(h)' = Creates(h)
    BY <2>1 DEF Moved, Id, Creates
  <2>3. Phase(h)'
    BY <1>1, <1>2, <1>4, <2>1, <2>2
       DEF Phase, Untouched, Building, Alone, Recorded, Whole, LeavesHalf, Mentions,
           Moved, Register,
          CreateSteps, RemoveSteps, Parts, TypeOK
  <2>4. TypeOK'
    BY <1>1, <1>2, <1>4, <2>1 DEF TypeOK, Moved, Register, Parts
  <2>5. Aside(h)
    BY <1>1, <1>2, <1>4 DEF TypeOK, Register, Aside
  <2>6. Listening(h)'
    BY <1>1, <1>2, <1>4, <2>2, ListeningKept DEF TypeOK, Register
  <2>7. QED
    BY <1>2, <2>1, <2>3, <2>4, <2>5, <2>6, HolderMoves DEF Register
<1>5. QED BY <1>1, <1>2, <1>3, <1>4 DEF Register

LEMMA RecordRunnerStep == ASSUME IInv, NEW h \in Helpers, RecordRunner(h) PROVE IInv'
<1> DEFINE i == Id(h)
<1>1. helper[h] # None /\ helper[h].step = "record" /\ TypeOK
  BY DEF RecordRunner, At, IInv
<1>2. Mutates(h) /\ Creates(h) /\ helper[h] \in Tasks /\ i \in Ids /\ Phase(h)
  BY <1>1, Owner
<1>3. CASE /\ files' = [files EXCEPT ![i] = @ \cup {"descriptor"}]
           /\ GoesTo(h, "enable")
  <2>1. Moved(h, "enable", helper[h].inspect, None)
    BY <1>1, <1>2, <1>3, Goes DEF Steps
  <2>2. i' = i /\ Creates(h)' = Creates(h)
    BY <2>1 DEF Moved, Id, Creates
  <2>3. Phase(h)'
    BY <1>1, <1>2, <1>3, <2>1, <2>2
       DEF Phase, Untouched, Building, Alone, Recorded, Whole, LeavesHalf, Mentions,
           Moved, RecordRunner,
          CreateSteps, RemoveSteps, Parts, TypeOK
  <2>4. TypeOK'
    BY <1>1, <1>2, <1>3, <2>1 DEF TypeOK, Moved, RecordRunner, Parts
  <2>5. Aside(h)
    BY <1>1, <1>2, <1>3 DEF TypeOK, RecordRunner, Aside
  <2>6. Listening(h)'
    BY <1>1, <1>2, <1>3, <2>2, ListeningKept DEF TypeOK, RecordRunner
  <2>7. QED
    BY <1>2, <2>1, <2>3, <2>4, <2>5, <2>6, HolderMoves DEF RecordRunner
<1>4. CASE CleansUp(h, MustInspect(h)) /\ UNCHANGED files
  <2>1. Moved(h, "userdel", MustInspect(h), None)
    BY <1>1, <1>2, <1>4, Cleans DEF MustInspect
  <2>2. i' = i /\ Creates(h)' = Creates(h)
    BY <2>1 DEF Moved, Id, Creates
  <2>3. Phase(h)'
    BY <1>1, <1>2, <1>4, <2>1, <2>2
       DEF Phase, Untouched, Building, Alone, Recorded, Whole, LeavesHalf, Mentions,
           Moved, RecordRunner,
          CreateSteps, RemoveSteps, Parts, TypeOK, MustInspect
  <2>4. TypeOK'
    BY <1>1, <1>2, <1>4, <2>1 DEF TypeOK, Moved, RecordRunner, Parts, MustInspect
  <2>5. Aside(h)
    BY <1>1, <1>2, <1>4 DEF TypeOK, RecordRunner, Aside, MustInspect
  <2>6. Listening(h)'
    BY <1>1, <1>2, <1>4, <2>2, ListeningKept DEF TypeOK, RecordRunner, MustInspect
  <2>7. QED
    BY <1>2, <2>1, <2>3, <2>4, <2>5, <2>6, HolderMoves DEF RecordRunner
<1>5. QED BY <1>1, <1>2, <1>3, <1>4 DEF RecordRunner

LEMMA UserDelStep == ASSUME IInv, NEW h \in Helpers, UserDel(h) PROVE IInv'
<1> DEFINE i == Id(h)
<1>1. helper[h] # None /\ helper[h].step = "userdel" /\ TypeOK
  BY DEF UserDel, At, IInv
<1>2. Mutates(h) /\ helper[h] \in Tasks /\ i \in Ids /\ Phase(h)
  BY <1>1, Owner
<1>3. CASE i \in accounts \ accounts' /\ Overtakes(i) /\ GoesTo(h, "clear")
  <2>1. Moved(h, "clear", helper[h].inspect, None)
    BY <1>1, <1>2, <1>3, Goes DEF Steps
  <2>2. i' = i /\ Creates(h)' = Creates(h)
    BY <2>1 DEF Moved, Id, Creates
  <2>3. Phase(h)'
    BY <1>1, <1>2, <1>3, <2>1, <2>2
       DEF Phase, Untouched, Building, Alone, Recorded, Whole, LeavesHalf, Mentions, Moved,
          UserDel, Overtakes, Commands,
          CreateSteps, RemoveSteps, Parts, TypeOK
  <2>4. TypeOK'
    BY <1>1, <1>2, <1>3, <2>1 DEF TypeOK, Moved, UserDel, Overtakes, Parts
  <2>5. Aside(h)
    BY <1>1, <1>2, <1>3 DEF TypeOK, UserDel, Aside
  <2>6. Listening(h)'
    BY <1>1, <1>2, <1>3, <2>2 DEF TypeOK, UserDel, IInv, ListenersHaveRunners,
       Listening, Launches
  <2>7. QED
    BY <1>2, <2>1, <2>3, <2>4, <2>5, <2>6, HolderMoves DEF UserDel
<1>4. CASE Returns(h, "unconfirmed") /\ UNCHANGED survivor
  <2>1. Moved(h, "close", helper[h].inspect, "unconfirmed")
    BY <1>1, <1>2, <1>4, Answers DEF Replies, Creates
  <2>2. i' = i /\ Creates(h)' = Creates(h)
    BY <2>1 DEF Moved, Id, Creates
  <2>3. Phase(h)'
    <3>1. Untouched(h)'
      BY <1>1, <1>2, <1>4, <2>1, <2>2 DEF Phase, Untouched, Whole, LeavesHalf, Building,
         Moved, UserDel, Overtakes, Commands, Parts, TypeOK
    <3>2. Building(h)'
      BY <1>1, <1>2, <1>4, <2>1, <2>2 DEF Phase, Building, Parts, TypeOK, Moved, UserDel,
         Overtakes, Commands
    <3>3. Alone(h)'
      BY <1>1, <1>2, <1>4, <2>1, <2>2 DEF Phase, Alone, TypeOK, Commands, Building, Moved,
         UserDel, Overtakes
    <3>4. Recorded(h)'
      BY <1>1, <1>2, <1>4, <2>1, <2>2 DEF Phase, Recorded, Mentions, Moved, UserDel,
         Overtakes, Commands, Building, Parts, TypeOK
    <3>5. QED BY <1>1, <1>2, <2>1, <2>2, <3>1, <3>2, <3>3, <3>4
          DEF Phase, Moved, CreateSteps, RemoveSteps
  <2>4. AnswerIsTrue(h)'
    BY <1>1, <1>2, <1>4, <2>1, <2>2 DEF AnswerIsTrue, Phase, Building, Moved, UserDel,
       Parts, TypeOK
  <2>5. TypeOK'
    BY <1>1, <1>2, <1>4, <2>1 DEF TypeOK, Moved, UserDel, Overtakes, Parts
  <2>6. Aside(h)
    BY <1>1, <1>2, <1>4 DEF TypeOK, UserDel, Aside
  <2>7. Listening(h)'
    BY <1>1, <1>2, <1>4, <2>2 DEF TypeOK, UserDel, IInv, ListenersHaveRunners,
       Listening, Launches
  <2>8. QED
    BY <1>2, <2>1, <2>3, <2>4, <2>5, <2>6, <2>7, HolderMoves DEF UserDel
<1>5. QED BY <1>1, <1>2, <1>3, <1>4 DEF UserDel

LEMMA ClearStep == ASSUME IInv, NEW h \in Helpers, Clear(h) PROVE IInv'
<1> DEFINE i == Id(h)
<1>1. helper[h] # None /\ helper[h].step = "clear" /\ TypeOK
  BY DEF Clear, At, IInv
<1>2. Mutates(h) /\ helper[h] \in Tasks /\ i \in Ids /\ Phase(h)
  BY <1>1, Owner
<1>3. CASE /\ files' = [files EXCEPT ![i] = {}]
           /\ Returns(h, "cleaned")
           /\ Creates(h)
  <2>1. Moved(h, "close", helper[h].inspect, "cleaned")
    BY <1>1, <1>2, <1>3, Answers DEF Replies, Creates
  <2>2. i' = i /\ Creates(h)' = Creates(h)
    BY <2>1 DEF Moved, Id, Creates
  <2>3. Phase(h)'
    <3>1. Untouched(h)'
      BY <1>1, <1>2, <1>3, <2>1, <2>2 DEF Phase, Untouched, Whole, LeavesHalf, Building,
         Moved, Clear, Parts, TypeOK
    <3>2. Building(h)'
      BY <1>1, <1>2, <1>3, <2>1, <2>2 DEF Phase, Building, Parts, TypeOK, Moved, Clear
    <3>3. Alone(h)'
      BY <1>1, <1>2, <1>3, <2>1, <2>2 DEF Phase, Alone, TypeOK, Commands, Building, Moved,
         Clear
    <3>4. Recorded(h)'
      BY <1>1, <1>2, <1>3, <2>1, <2>2 DEF Phase, Recorded, Mentions, Moved, Clear,
         Building, Parts, TypeOK
    <3>5. QED BY <1>1, <1>2, <2>1, <2>2, <3>1, <3>2, <3>3, <3>4
          DEF Phase, Moved, CreateSteps, RemoveSteps
  <2>4. AnswerIsTrue(h)'
    BY <1>1, <1>2, <1>3, <2>1, <2>2 DEF AnswerIsTrue, Phase, Building, Moved, Clear,
       Parts, TypeOK
  <2>5. TypeOK'
    BY <1>1, <1>2, <1>3, <2>1 DEF TypeOK, Moved, Clear, Parts
  <2>6. Aside(h)
    BY <1>1, <1>2, <1>3 DEF TypeOK, Clear, Aside
  <2>7. Listening(h)'
    BY <1>1, <1>2, <1>3, <2>2 DEF TypeOK, Clear, IInv, ListenersHaveRunners,
       Listening, Launches, Phase, Building
  <2>8. QED
    BY <1>2, <2>1, <2>3, <2>4, <2>5, <2>6, <2>7, HolderMoves DEF Clear
<1>4. CASE /\ files' = [files EXCEPT ![i] = {}]
           /\ Returns(h, "ok")
           /\ ~Creates(h)
  <2>1. Moved(h, "close", helper[h].inspect, "ok")
    BY <1>1, <1>2, <1>4, Answers DEF Replies, Creates
  <2>2. i' = i /\ Creates(h)' = Creates(h)
    BY <2>1 DEF Moved, Id, Creates
  <2>3. Phase(h)'
    <3>1. Untouched(h)'
      BY <1>1, <1>2, <1>4, <2>1, <2>2 DEF Phase, Untouched, Whole, LeavesHalf, Building,
         Moved, Clear, Parts, TypeOK
    <3>2. Building(h)'
      BY <1>1, <1>2, <1>4, <2>1, <2>2 DEF Phase, Building, Parts, TypeOK, Moved, Clear
    <3>3. Alone(h)'
      BY <1>1, <1>2, <1>4, <2>1, <2>2 DEF Phase, Alone, TypeOK, Commands, Building, Moved,
         Clear
    <3>4. Recorded(h)'
      BY <1>1, <1>2, <1>4, <2>1, <2>2 DEF Phase, Recorded, Mentions, Moved, Clear,
         Creates, Mutates, Building, Parts, TypeOK
    <3>5. QED BY <1>1, <1>2, <2>1, <2>2, <3>1, <3>2, <3>3, <3>4
          DEF Phase, Moved, CreateSteps, RemoveSteps
  <2>4. AnswerIsTrue(h)'
    BY <1>1, <1>2, <1>4, <2>1, <2>2 DEF AnswerIsTrue, Phase, Building, Moved, Clear,
       Parts, TypeOK
  <2>5. TypeOK'
    BY <1>1, <1>2, <1>4, <2>1 DEF TypeOK, Moved, Clear, Parts
  <2>6. Aside(h)
    BY <1>1, <1>2, <1>4 DEF TypeOK, Clear, Aside
  <2>7. Listening(h)'
    BY <1>1, <1>2, <1>4, <2>2 DEF TypeOK, Clear, IInv, ListenersHaveRunners,
       Listening, Launches, Phase, Building
  <2>8. QED
    BY <1>2, <2>1, <2>3, <2>4, <2>5, <2>6, <2>7, HolderMoves DEF Clear
<1>5. CASE Returns(h, "remains")
  <2>1. Moved(h, "close", helper[h].inspect, "remains")
    BY <1>1, <1>2, <1>5, Answers DEF Replies, Creates
  <2>2. i' = i /\ Creates(h)' = Creates(h)
    BY <2>1 DEF Moved, Id, Creates
  <2>3. Phase(h)'
    <3>1. Untouched(h)'
      BY <1>1, <1>2, <1>5, <2>1, <2>2 DEF Phase, Untouched, Whole, LeavesHalf, Building,
         Moved, Clear, Parts, TypeOK
    <3>2. Building(h)'
      BY <1>1, <1>2, <1>5, <2>1, <2>2 DEF Phase, Building, Parts, TypeOK, Moved, Clear
    <3>3. Alone(h)'
      BY <1>1, <1>2, <1>5, <2>1, <2>2 DEF Phase, Alone, TypeOK, Commands, Building, Moved,
         Clear
    <3>4. Recorded(h)'
      BY <1>1, <1>2, <1>5, <2>1, <2>2 DEF Phase, Recorded, Mentions, Moved, Clear,
         Creates, Mutates, Building, Parts, TypeOK
    <3>5. QED BY <1>1, <1>2, <2>1, <2>2, <3>1, <3>2, <3>3, <3>4
          DEF Phase, Moved, CreateSteps, RemoveSteps
  <2>4. AnswerIsTrue(h)'
    BY <1>1, <1>2, <1>5, <2>1, <2>2 DEF AnswerIsTrue, Phase, Building, Moved, Clear,
       Parts, TypeOK
  <2>5. TypeOK'
    BY <1>1, <1>2, <1>5, <2>1 DEF TypeOK, Moved, Clear, Parts
  <2>6. Aside(h)
    BY <1>1, <1>2, <1>5 DEF TypeOK, Clear, Aside
  <2>7. Listening(h)'
    BY <1>1, <1>2, <1>5, <2>2 DEF TypeOK, Clear, IInv, ListenersHaveRunners,
       Listening, Launches, Phase, Building
  <2>8. QED
    BY <1>2, <2>1, <2>3, <2>4, <2>5, <2>6, <2>7, HolderMoves DEF Clear
<1>6. QED BY <1>1, <1>2, <1>3, <1>4, <1>5 DEF Clear

LEMMA RemoveReads ==
  ASSUME IInv, NEW h \in Helpers, helper[h] # None, helper[h].action = "remove",
         ReadDescriptor(h)
  PROVE  IInv'
<1> DEFINE i == Id(h)
<1>1. helper[h] # None /\ helper[h].step = "read" /\ TypeOK
  BY DEF ReadDescriptor, At, IInv
<1>2. Mutates(h) /\ ~Creates(h) /\ helper[h] \in Tasks /\ i \in Ids /\ Phase(h)
  BY <1>1, Holder DEF Mutates, Creates
<1>3. CASE GoesTo(h, "disable") /\ "descriptor" \in files[i]
  <2>1. Moved(h, "disable", helper[h].inspect, None)
    BY <1>1, <1>2, <1>3, Goes DEF Steps, AfterRead
  <2>2. i' = i /\ Creates(h)' = Creates(h)
    BY <2>1 DEF Moved, Id, Creates
  <2>3. Phase(h)'
    BY <1>1, <1>2, <1>3, <2>1, <2>2
       DEF Phase, Untouched, Building, Alone, Recorded, Whole, LeavesHalf, Mentions, Moved,
          ReadDescriptor, CreateSteps, RemoveSteps, Parts, TypeOK
  <2>4. TypeOK'
    BY <1>1, <1>2, <1>3, <2>1 DEF TypeOK, Moved, ReadDescriptor, Parts
  <2>5. Aside(h)
    BY <1>1, <1>2, <1>3 DEF TypeOK, ReadDescriptor, Aside
  <2>6. Listening(h)'
    BY <1>1, <1>2, <1>3, <2>2, ListeningKept DEF TypeOK, ReadDescriptor
  <2>7. QED
    BY <1>2, <2>1, <2>3, <2>4, <2>5, <2>6, HolderMoves DEF ReadDescriptor
<1>4. CASE Returns(h, "failed")
  <2>1. Moved(h, "close", helper[h].inspect, "failed")
    BY <1>1, <1>2, <1>4, Answers DEF Replies, Creates
  <2>2. i' = i /\ Creates(h)' = Creates(h)
    BY <2>1 DEF Moved, Id, Creates
  <2>3. Phase(h)'
    <3>1. Untouched(h)'
      BY <1>1, <1>2, <1>4, <2>1, <2>2 DEF Phase, Untouched, Whole, LeavesHalf, Building,
         Moved, ReadDescriptor, Parts, TypeOK
    <3>2. Building(h)'
      BY <1>1, <1>2, <1>4, <2>1, <2>2 DEF Phase, Building, Parts, TypeOK, Moved,
         ReadDescriptor
    <3>3. Alone(h)'
      BY <1>1, <1>2, <1>4, <2>1, <2>2 DEF Phase, Alone, TypeOK, Commands, Building, Moved,
         ReadDescriptor
    <3>4. Recorded(h)'
      BY <1>1, <1>2, <1>4, <2>1, <2>2 DEF Phase, Recorded, Mentions, Moved, ReadDescriptor,
         Building, Parts, TypeOK
    <3>5. QED BY <1>1, <1>2, <2>1, <2>2, <3>1, <3>2, <3>3, <3>4
          DEF Phase, Moved, CreateSteps, RemoveSteps
  <2>4. AnswerIsTrue(h)'
    BY <1>1, <1>2, <1>4, <2>1, <2>2 DEF AnswerIsTrue, Phase, Building, Moved,
       ReadDescriptor, Parts, TypeOK
  <2>5. TypeOK'
    BY <1>1, <1>2, <1>4, <2>1 DEF TypeOK, Moved, ReadDescriptor, Parts
  <2>6. Aside(h)
    BY <1>1, <1>2, <1>4 DEF TypeOK, ReadDescriptor, Aside
  <2>7. Listening(h)'
    BY <1>1, <1>2, <1>4, <2>2, ListeningKept DEF TypeOK, ReadDescriptor
  <2>8. QED
    BY <1>2, <2>1, <2>3, <2>4, <2>5, <2>6, <2>7, HolderMoves DEF ReadDescriptor
<1>5. QED BY <1>1, <1>2, <1>3, <1>4 DEF ReadDescriptor, AfterRead, Tasks, Actions,
    Providers, Creates

LEMMA RemoveDisables ==
  ASSUME IInv, NEW h \in Helpers, helper[h] # None, helper[h].action = "remove",
         Disable(h)
  PROVE  IInv'
<1> DEFINE i == Id(h)
<1>1. helper[h] # None /\ helper[h].step = "disable" /\ TypeOK
  BY DEF Disable, At, IInv
<1>2. Mutates(h) /\ ~Creates(h) /\ helper[h] \in Tasks /\ i \in Ids /\ Phase(h)
  BY <1>1, Holder DEF Mutates, Creates
<1>3. CASE unit' = [unit EXCEPT ![i] = Off] /\ GoesTo(h, "userdel")
  <2>1. Moved(h, "userdel", helper[h].inspect, None)
    BY <1>1, <1>2, <1>3, Goes DEF Steps, AfterDisable
  <2>2. i' = i /\ Creates(h)' = Creates(h)
    BY <2>1 DEF Moved, Id, Creates
  <2>3. Phase(h)'
    BY <1>1, <1>2, <1>3, <2>1, <2>2
       DEF Phase, Untouched, Building, Alone, Recorded, Whole, LeavesHalf, Mentions, Moved, Disable,
          CreateSteps, RemoveSteps, Parts, TypeOK, Off
  <2>4. TypeOK'
    BY <1>1, <1>2, <1>3, <2>1, DisablesUnit DEF TypeOK, Moved, Disable, Parts
  <2>5. Aside(h)
    BY <1>1, <1>2, <1>3 DEF TypeOK, Disable, Aside, Off
  <2>6. Listening(h)'
    BY <1>1, <1>2, <1>3, <2>2 DEF TypeOK, Disable, IInv, ListenersHaveRunners,
       Listening, Launches, Off
  <2>7. QED
    BY <1>2, <2>1, <2>3, <2>4, <2>5, <2>6, HolderMoves DEF Disable
<1>4. CASE Returns(h, "failed")
  <2>1. Moved(h, "close", helper[h].inspect, "failed")
    BY <1>1, <1>2, <1>4, Answers DEF Replies, Creates
  <2>2. i' = i /\ Creates(h)' = Creates(h)
    BY <2>1 DEF Moved, Id, Creates
  <2>3. Phase(h)'
    <3>1. Untouched(h)'
      BY <1>1, <1>2, <1>4, <2>1, <2>2 DEF Phase, Untouched, Whole, LeavesHalf, Building,
         Moved, Disable, Off, Parts, TypeOK
    <3>2. Building(h)'
      BY <1>1, <1>2, <1>4, <2>1, <2>2 DEF Phase, Building, Parts, TypeOK, Moved, Disable,
         Off
    <3>3. Alone(h)'
      BY <1>1, <1>2, <1>4, <2>1, <2>2 DEF Phase, Alone, TypeOK, Commands, Building, Moved,
         Disable, Off
    <3>4. Recorded(h)'
      BY <1>1, <1>2, <1>4, <2>1, <2>2 DEF Phase, Recorded, Mentions, Moved, Disable, Off,
         Building, Parts, TypeOK
    <3>5. QED BY <1>1, <1>2, <2>1, <2>2, <3>1, <3>2, <3>3, <3>4
          DEF Phase, Moved, CreateSteps, RemoveSteps
  <2>4. AnswerIsTrue(h)'
    BY <1>1, <1>2, <1>4, <2>1, <2>2 DEF AnswerIsTrue, Phase, Building, Moved, Disable,
       Parts, TypeOK, Off
  <2>5. TypeOK'
    BY <1>1, <1>2, <1>4, <2>1, DisablesUnit DEF TypeOK, Moved, Disable, Parts
  <2>6. Aside(h)
    BY <1>1, <1>2, <1>4 DEF TypeOK, Disable, Aside, Off
  <2>7. Listening(h)'
    BY <1>1, <1>2, <1>4, <2>2 DEF TypeOK, Disable, IInv, ListenersHaveRunners,
       Listening, Launches, Off
  <2>8. QED
    BY <1>2, <2>1, <2>3, <2>4, <2>5, <2>6, <2>7, HolderMoves DEF Disable
<1>5. QED BY <1>1, <1>2, <1>3, <1>4 DEF Disable, AfterDisable, Tasks, Actions, Providers,
    Creates

LEMMA CreateEnables ==
  ASSUME IInv, NEW h \in Helpers, helper[h] # None, helper[h].action = "create",
         Enable(h)
  PROVE  IInv'
<1> DEFINE i == Id(h)
<1>1. helper[h] # None /\ helper[h].step = "enable" /\ TypeOK
  BY DEF Enable, At, IInv
<1>2. Mutates(h) /\ Creates(h) /\ helper[h] \in Tasks /\ i \in Ids /\ Phase(h)
  BY <1>1, Holder DEF Mutates, Creates
<1>3. CASE unit' = Started(i) /\ Returns(h, "ok")
  <2>1. Moved(h, "close", helper[h].inspect, "ok")
    BY <1>1, <1>2, <1>3, Answers DEF Replies, Creates
  <2>2. i' = i /\ Creates(h)' = Creates(h)
    BY <2>1 DEF Moved, Id, Creates
  <2>3. Phase(h)'
    <3>1. Untouched(h)'
      BY <1>1, <1>2, <1>3, <2>1, <2>2 DEF Phase, Untouched, Whole, LeavesHalf, Building,
         Moved, Enable, Started, Parts, TypeOK
    <3>2. Building(h)'
      BY <1>1, <1>2, <1>3, <2>1, <2>2 DEF Phase, Building, Parts, TypeOK, Moved, Enable,
         Started
    <3>3. Alone(h)'
      BY <1>1, <1>2, <1>3, <2>1, <2>2 DEF Phase, Alone, TypeOK, Commands, Building, Moved,
         Enable, Started
    <3>4. Recorded(h)'
      BY <1>1, <1>2, <1>3, <2>1, <2>2 DEF Phase, Recorded, Mentions, Moved, Enable,
         Started, Building, Parts, TypeOK
    <3>5. QED BY <1>1, <1>2, <2>1, <2>2, <3>1, <3>2, <3>3, <3>4
          DEF Phase, Moved, CreateSteps, RemoveSteps
  <2>4. AnswerIsTrue(h)'
    BY <1>1, <1>2, <1>3, <2>1, <2>2 DEF AnswerIsTrue, Phase, Building, Moved, Enable,
       Parts, TypeOK, Started
  <2>5. TypeOK'
    BY <1>1, <1>2, <1>3, <2>1, EnablesUnit DEF TypeOK, Moved, Enable, Parts
  <2>6. Aside(h)
    BY <1>1, <1>2, <1>3 DEF TypeOK, Enable, Aside, Started
  <2>7. Listening(h)'
    BY <1>1, <1>2, <1>3, <2>2 DEF TypeOK, Enable, IInv, ListenersHaveRunners,
       Listening, Launches, Started
  <2>8. QED
    BY <1>2, <2>1, <2>3, <2>4, <2>5, <2>6, <2>7, HolderMoves DEF Enable
<1>4. CASE Returns(h, "retained")
  <2>1. Moved(h, "close", helper[h].inspect, "retained")
    BY <1>1, <1>2, <1>4, Answers DEF Replies, Creates
  <2>2. i' = i /\ Creates(h)' = Creates(h)
    BY <2>1 DEF Moved, Id, Creates
  <2>3. Phase(h)'
    <3>1. Untouched(h)'
      BY <1>1, <1>2, <1>4, <2>1, <2>2 DEF Phase, Untouched, Whole, LeavesHalf, Building,
         Moved, Enable, Started, Parts, TypeOK
    <3>2. Building(h)'
      BY <1>1, <1>2, <1>4, <2>1, <2>2 DEF Phase, Building, Parts, TypeOK, Moved, Enable,
         Started
    <3>3. Alone(h)'
      BY <1>1, <1>2, <1>4, <2>1, <2>2 DEF Phase, Alone, TypeOK, Commands, Building, Moved,
         Enable, Started
    <3>4. Recorded(h)'
      BY <1>1, <1>2, <1>4, <2>1, <2>2 DEF Phase, Recorded, Mentions, Moved, Enable,
         Started, Building, Parts, TypeOK
    <3>5. QED BY <1>1, <1>2, <2>1, <2>2, <3>1, <3>2, <3>3, <3>4
          DEF Phase, Moved, CreateSteps, RemoveSteps
  <2>4. AnswerIsTrue(h)'
    BY <1>1, <1>2, <1>4, <2>1, <2>2 DEF AnswerIsTrue, Phase, Building, Moved, Enable,
       Parts, TypeOK, Started
  <2>5. TypeOK'
    BY <1>1, <1>2, <1>4, <2>1, EnablesUnit DEF TypeOK, Moved, Enable, Parts
  <2>6. Aside(h)
    BY <1>1, <1>2, <1>4 DEF TypeOK, Enable, Aside, Started
  <2>7. Listening(h)'
    BY <1>1, <1>2, <1>4, <2>2 DEF TypeOK, Enable, IInv, ListenersHaveRunners,
       Listening, Launches, Started
  <2>8. QED
    BY <1>2, <2>1, <2>3, <2>4, <2>5, <2>6, <2>7, HolderMoves DEF Enable
<1>5. QED BY <1>1, <1>2, <1>3, <1>4 DEF Enable

-----------------------------------------------------------------------------
(* The steps beside the lock: Start, Stop and Restart, and systemd.         *)
Free(h) == helper[h] # None /\ helper[h].action \in {"start", "stop", "restart"}

\* Reading, enabling, disabling and restarting belong to known actions.
LEMMA Roles ==
  ASSUME IInv, NEW h \in Helpers, helper[h] # None
  PROVE  /\ helper[h] \in Tasks /\ Id(h) \in Ids
         /\ helper[h].step = "lock" \/ Mutates(h) \/ Free(h)
         /\ helper[h].step \in {"reread", "restart"} => Free(h)
         /\ helper[h].step \in {"read", "disable"} => Free(h) \/ helper[h].action = "remove"
         /\ helper[h].step = "enable" => Free(h) \/ helper[h].action = "create"
<1>1. helper[h] \in Tasks /\ Id(h) \in Ids
  BY DEF IInv, TypeOK, Tasks, Id
<1>2. helper[h].action \in Actions
  BY <1>1 DEF Tasks
<1>3. Mutates(h) => helper[h].step \in (IF Creates(h) THEN CreateSteps ELSE RemoveSteps)
  BY DEF IInv, Phase
<1>4. QED
  BY <1>1, <1>2, <1>3 DEF Mutates, Free, Creates, CreateSteps, RemoveSteps, Actions

LEMMA FreeMoves ==
  ASSUME IInv, NEW h \in Helpers, Free(h),
         NEW step \in {"reread", "restart", "enable", "disable", "close"},
         NEW reply \in {None, "ok", "failed"}, Moved(h, step, helper[h].inspect, reply),
         unit' \in [Ids -> [enabled: BOOLEAN, active: Activities]],
         \A i \in Ids : unit'[i].active = "listening" => unit[i].active = "listening",
         UNCHANGED <<accounts, files, record, survivor, lock, seen, used>>
  PROVE  IInv'
<1>1. TypeOK'
  BY DEF IInv, TypeOK, Moved
<1>2. ~Mutates(h) /\ ~Mutates(h)' /\ Beside(h)'
  BY DEF IInv, Free, Mutates, Moved, Beside
<1>3. \A g \in Helpers \ {h} : helper'[g] = helper[g]
  BY DEF Moved
<1>4. QED BY <1>1, <1>2, <1>3, FreeStep

LEMMA FreeSteps ==
  ASSUME IInv, NEW h \in Helpers, Free(h),
         ReadDescriptor(h) \/ ReadAgain(h) \/ Enable(h) \/ Disable(h) \/ Restart(h)
  PROVE  IInv'
<1>1. /\ TypeOK /\ helper[h] # None /\ helper[h] \in Tasks /\ Id(h) \in Ids
      /\ helper[h].action \in {"start", "stop", "restart"} /\ ~Creates(h)
  BY Roles DEF IInv, Free, Creates
<1>2. \A i \in Ids : unit[i] \in [enabled: BOOLEAN, active: Activities]
  BY <1>1 DEF TypeOK
<1>3. CASE ReadDescriptor(h)
  <2>1. helper[h].step = "read" /\ unit' = unit
    BY <1>3 DEF ReadDescriptor, At
  <2>2. \/ Moved(h, "enable", helper[h].inspect, None)
        \/ Moved(h, "disable", helper[h].inspect, None)
        \/ Moved(h, "close", helper[h].inspect, "failed")
    BY <1>1, <1>3, <2>1, Goes, Answers DEF ReadDescriptor, AfterRead, Steps, Replies
  <2>3. QED BY <1>1, <1>3, <2>1, <2>2, FreeMoves DEF ReadDescriptor, TypeOK
<1>4. CASE ReadAgain(h)
  <2>1. helper[h].step = "reread" /\ unit' = unit
    BY <1>4 DEF ReadAgain, At
  <2>2. \/ Moved(h, "restart", helper[h].inspect, None)
        \/ Moved(h, "close", helper[h].inspect, "failed")
    BY <1>1, <1>4, <2>1, Goes, Answers DEF ReadAgain, Steps, Replies
  <2>3. QED BY <1>1, <1>4, <2>1, <2>2, FreeMoves DEF ReadAgain, TypeOK
<1>5. CASE Enable(h)
  <2>1. helper[h].step = "enable"
    BY <1>5 DEF Enable, At
  <2>2. \/ Moved(h, "reread", helper[h].inspect, None)
        \/ Moved(h, "close", helper[h].inspect, "ok")
        \/ Moved(h, "close", helper[h].inspect, "failed")
    BY <1>1, <1>5, <2>1, Goes, Answers DEF Enable, Steps, Replies
  <2>3. QED BY <1>1, <1>5, <2>2, EnablesUnit, FreeMoves DEF Enable
<1>6. CASE Disable(h)
  <2>1. helper[h].step = "disable"
    BY <1>6 DEF Disable, At
  <2>2. \/ Moved(h, "close", helper[h].inspect, "ok")
        \/ Moved(h, "close", helper[h].inspect, "failed")
    BY <1>1, <1>6, <2>1, Answers DEF Disable, Replies
  <2>3. QED BY <1>1, <1>6, <2>2, DisablesUnit, FreeMoves DEF Disable
<1>7. CASE Restart(h)
  <2>1. helper[h].step = "restart"
    BY <1>7 DEF Restart, At
  <2>2. \/ Moved(h, "close", helper[h].inspect, "ok")
        \/ Moved(h, "close", helper[h].inspect, "failed")
    BY <1>1, <1>7, <2>1, Answers DEF Restart, Replies
  <2>3. QED BY <1>1, <1>7, <2>2, RestartsUnit, FreeMoves DEF Restart
<1>8. QED BY <1>3, <1>4, <1>5, <1>6, <1>7

LEMMA RequestStep ==
  ASSUME IInv, NEW h \in Helpers, NEW a \in Actions, NEW i \in Ids, NEW p \in Providers,
         Request(h, a, i, p)
  PROVE  IInv'
<1> DEFINE task == [action |-> a, id |-> i, provider |-> p, inspect |-> FALSE, reply |-> None,
                    step |-> IF a \in {"create", "remove"} THEN "lock" ELSE "read"]
<1>1. task \in Tasks
  BY DEF Tasks, Steps
<1>2. helper'[h] = task /\ \A g \in Helpers \ {h} : helper'[g] = helper[g]
  BY DEF IInv, TypeOK, Request
<1>3. used' \in [requests: 0 .. MaxRequests, faults: 0 .. MaxFaults]
  BY DEF IInv, TypeOK, Request
<1>4. TypeOK'
  BY <1>1, <1>2, <1>3 DEF IInv, TypeOK, Request
<1>5. ~Mutates(h) /\ ~Mutates(h)' /\ Beside(h)'
  BY <1>2 DEF Request, Mutates, Beside
<1>6. QED BY <1>2, <1>4, <1>5, FreeStep DEF Request

\* A helper without the lock leaves.
LEMMA Leaves ==
  ASSUME IInv, NEW h \in Helpers, helper[h] # None, ~Mutates(h),
         helper' = [helper EXCEPT ![h] = None],
         UNCHANGED <<machine, lock, seen, used>>
  PROVE  IInv'
<1>1. helper'[h] = None /\ \A g \in Helpers \ {h} : helper'[g] = helper[g]
  BY DEF IInv, TypeOK
<1>2. TypeOK'
  BY <1>1 DEF IInv, TypeOK
<1>3. ~Mutates(h)' /\ Beside(h)'
  BY <1>1 DEF Mutates, Beside
<1>4. QED BY <1>1, <1>2, <1>3, FreeStep

LEMMA ListenerStep ==
  ASSUME IInv, NEW i \in Ids, Listen(i) \/ ListenerExits(i)
  PROVE  IInv'
<1>1. PICK a \in {"trying", "listening"} :
        /\ unit' = [unit EXCEPT ![i] = [@ EXCEPT !.active = a]]
        /\ a = "listening" => Launches(i)
  BY DEF Listen, ListenerExits
<1>2. unit[i] \in [enabled: BOOLEAN, active: Activities]
  BY DEF IInv, TypeOK
<1>3. unit' \in [Ids -> [enabled: BOOLEAN, active: Activities]]
  BY <1>1, <1>2 DEF IInv, TypeOK, Activities
<1>4. TypeOK'
  BY <1>3 DEF IInv, TypeOK, Listen, ListenerExits
<1>5. \A j \in Ids : unit'[j].active = "listening" => unit[j].active = "listening" \/ Launches(j)
  BY <1>1, <1>2 DEF IInv, TypeOK
<1>6. QED BY <1>4, <1>5, FreeStep DEF Listen, ListenerExits

-----------------------------------------------------------------------------
(* Taking and leaving the lock.                                             *)

\* A holder that was not cut short leaves its runner whole or known.
LEMMA Finished ==
  ASSUME IInv, NEW h \in Helpers, Mutates(h), ~CutShort(h)
  PROVE  /\ Id(h) \in left \/ Whole(Id(h))
         /\ record[Id(h)] = "silent" => "descriptor" \in files[Id(h)] \/ Id(h) \in unheard
<1>1. Phase(h)
  BY Holder
<1>2. helper[h].step \in {"check", "useradd", "enable", "read", "disable", "close"}
  BY <1>1 DEF Phase, CreateSteps, RemoveSteps, CutShort
<1>3. ~LeavesHalf(h) /\ ~Mentions(h)
  BY DEF CutShort
<1>4. Id(h) \in left \/ Whole(Id(h))
  BY <1>1, <1>2, <1>3 DEF Phase, Untouched, Building, Whole, Parts
<1>5. ASSUME record[Id(h)] = "silent", Id(h) \notin unheard PROVE "descriptor" \in files[Id(h)]
  BY <1>1, <1>2, <1>3, <1>5 DEF Phase, Recorded, LeavesHalf
<1>6. QED BY <1>4, <1>5

\* Who does not hold the lock cannot be cut short.
LEMMA OthersFinished ==
  ASSUME IInv, NEW h \in Helpers, helper[h] # None, ~Mutates(h)
  PROVE  ~CutShort(h) /\ helper[h].step \notin Commands
<1>1. Beside(h) /\ helper[h] \in Tasks /\ (helper[h].step = "lock" \/ Free(h))
  BY Roles DEF IInv
<1>2. helper[h].step = "lock" => helper[h].reply = None
  BY DEF IInv, TypeOK
<1>3. ~LeavesHalf(h)
  BY <1>1, RunnersAssumption DEF Beside, LeavesHalf, Replies
<1>4. ~Mentions(h)
  <2>1. helper[h].reply = "ok" => helper[h].step # "lock"
    BY <1>2, RunnersAssumption DEF Replies
  <2>2. QED BY <1>1, <2>1 DEF Beside, Mentions, Free
<1>5. /\ helper[h].step \notin Commands
      /\ helper[h].step \notin {"state", "configure", "register", "record", "userdel", "clear"}
  BY <1>1 DEF Beside, Free, Commands
<1>6. QED BY <1>3, <1>4, <1>5 DEF CutShort

LEMMA LockStep == ASSUME IInv, NEW h \in Helpers, Lock(h) PROVE IInv'
<1> DEFINE step == IF Creates(h) THEN "check" ELSE "read"
<1>1. TypeOK /\ helper[h] # None /\ helper[h].step = "lock" /\ lock = None /\ lock' = h
  BY DEF IInv, Lock, At
<1>2. \A g \in Helpers : ~Mutates(g)
  BY <1>1 DEF IInv, OneMutation
<1>3. Moved(h, step, helper[h].inspect, None)
  BY <1>1, Goes DEF Lock, Steps
<1>4. helper[h] \in Tasks /\ Id(h) \in Ids /\ helper[h].action \in {"create", "remove"}
  <2>1. helper[h] \in Tasks /\ Id(h) \in Ids /\ Beside(h)
    BY <1>1, Roles DEF IInv
  <2>2. ~Mutates(h)
    BY <1>2
  <2>3. helper[h].action \notin {"start", "stop", "restart"}
    BY <1>1, <2>1, <2>2 DEF Beside
  <2>4. QED BY <2>1, <2>3 DEF Tasks, Actions
<1>5. Id(h)' = Id(h) /\ Creates(h)' = Creates(h) /\ Mutates(h)'
  BY <1>3, <1>4 DEF Moved, Id, Creates, Mutates
<1>6. \A g \in Helpers : Mutates(g)' <=> g = h
  BY <1>2, <1>3, <1>5 DEF Moved, Mutates
<1>7. TypeOK'
  BY <1>1, <1>3 DEF TypeOK, Moved, Lock
<1>8. /\ Id(h) \in left \/ Whole(Id(h))
      /\ record[Id(h)] = "silent" => "descriptor" \in files[Id(h)] \/ Id(h) \in unheard
  BY <1>1, <1>2, <1>4 DEF IInv, WholeOrAbsent, NoSilentRecord, Whole
<1>9. Phase(h)'
  <2>1. helper'[h].step \in {"check", "read"} /\ helper'[h].step = step
    BY <1>3 DEF Moved
  <2>2. Untouched(h)'
    BY <1>5, <1>8 DEF Untouched, Whole, Lock
  <2>3. Building(h)' /\ Alone(h)' /\ Recorded(h)'
    BY <1>5, <1>8, <2>1 DEF Building, Alone, Recorded, Lock
  <2>4. QED BY <1>5, <2>1, <2>2, <2>3 DEF Phase, CreateSteps, RemoveSteps
<1>10. OneMutation' /\ (\A g \in Helpers : Mutates(g) => Phase(g))'
  BY <1>1, <1>6, <1>9 DEF OneMutation
<1>11. RepliesAreTrue'
  BY <1>3, <1>6 DEF RepliesAreTrue, At, Moved
<1>12. (\A g \in Helpers : Beside(g))'
  <2> SUFFICES ASSUME NEW g \in Helpers, ~Mutates(g)' PROVE Beside(g)'
    BY DEF Beside
  <2>1. g # h /\ helper'[g] = helper[g] /\ Beside(g) /\ ~Mutates(g)
    BY <1>2, <1>3, <1>6 DEF IInv, Moved
  <2>2. QED BY <2>1 DEF Beside
<1>13. WholeOrAbsent'
  BY <1>1 DEF IInv, WholeOrAbsent, Lock
<1>14. ListenersHaveRunners' /\ NoSilentRecord'
  BY <1>2 DEF IInv, ListenersHaveRunners, Launches, NoSilentRecord, Lock
<1>15. QED BY <1>7, <1>10, <1>11, <1>12, <1>13, <1>14 DEF IInv

\* The holder leaves, alive or not: its runner is whole, or what it left is
\* observed, and so is a record it did not mention.
LEMMA HolderLeaves ==
  ASSUME IInv, NEW h \in Helpers, Mutates(h), TypeOK',
         helper'[h] = None, \A g \in Helpers \ {h} : helper'[g] \in {helper[g], None},
         lock' = None, UNCHANGED <<accounts, files>>,
         \A i \in Ids : unit'[i].active = "listening" => unit[i].active = "listening",
         \A i \in Ids \ {Id(h)} :
            /\ i \in left => i \in left'
            /\ i \in unheard => i \in unheard'
            /\ record'[i] = record[i],
         Id(h) \in left' \/ Whole(Id(h)),
         record'[Id(h)] = "silent" => "descriptor" \in files[Id(h)] \/ Id(h) \in unheard'
  PROVE  IInv'
<1>1. lock = h /\ Id(h) \in Ids /\ \A g \in Helpers : Mutates(g) => g = h
  BY Holder
<1>2. \A g \in Helpers : ~Mutates(g)'
  BY <1>1 DEF Mutates
<1>3. \A g \in Helpers : lock' # g
  OBVIOUS
<1>4. OneMutation' /\ (\A g \in Helpers : Mutates(g) => Phase(g))' /\ RepliesAreTrue'
  BY <1>2, <1>3 DEF OneMutation, RepliesAreTrue
<1>5. (\A g \in Helpers : Beside(g))'
  BY <1>1 DEF IInv, Beside
<1>6. WholeOrAbsent'
  <2> SUFFICES ASSUME NEW i \in Ids, i \notin left' PROVE Whole(i)
    BY DEF WholeOrAbsent, Whole
  <2>1. CASE i = Id(h)
    BY <2>1
  <2>2. CASE i # Id(h)
    BY <1>1, <2>2 DEF IInv, WholeOrAbsent, Whole
  <2>3. QED BY <2>1, <2>2
<1>7. ListenersHaveRunners'
  BY DEF IInv, ListenersHaveRunners, Launches
<1>8. NoSilentRecord'
  <2> SUFFICES ASSUME NEW i \in Ids, record'[i] = "silent"
               PROVE  "descriptor" \in files[i] \/ i \in unheard'
    BY DEF NoSilentRecord
  <2>1. CASE i = Id(h)
    BY <2>1
  <2>2. CASE i # Id(h)
    BY <1>1, <2>2 DEF IInv, NoSilentRecord
  <2>3. QED BY <2>1, <2>2
<1>9. QED BY <1>4, <1>5, <1>6, <1>7, <1>8 DEF IInv

LEMMA CloseStep == ASSUME IInv, NEW h \in Helpers, Close(h) PROVE IInv'
<1> DEFINE i == Id(h)
<1>1. helper[h] # None /\ helper[h].step = "close" /\ TypeOK /\ i \in Ids
  BY Roles DEF Close, At, IInv
<1>2. helper'[h] = None /\ \A g \in Helpers \ {h} : helper'[g] = helper[g]
  BY <1>1 DEF TypeOK, Close
<1>3. /\ \A j \in Ids \ {i} : record'[j] = record[j]
      /\ record'[i] = IF Mentions(h) /\ record[i] = "silent" THEN "reported" ELSE record[i]
      /\ record' \in [Ids -> {"none", "silent", "reported"}]
  BY <1>1 DEF TypeOK, Close
<1>4. CASE Mutates(h)
  <2>1. lock' = None /\ Phase(h) /\ AnswerIsTrue(h)
    BY <1>1, <1>4, Holder DEF IInv, RepliesAreTrue, At, Close
  <2>2. left' \subseteq Ids /\ unheard' \subseteq Ids /\ unheard \subseteq unheard'
    BY <1>1 DEF TypeOK, Close
  <2>3. TypeOK'
    BY <1>1, <1>2, <1>3, <2>1, <2>2 DEF TypeOK, Close
  <2>4. \A j \in Ids \ {i} : j \in left => j \in left'
    BY DEF Close
  <2>5. i \in left' \/ Whole(i)
    <3>1. CASE LeavesHalf(h)
      BY <3>1 DEF Close
    <3>2. CASE Settles(h)
      BY <2>1, <3>2 DEF AnswerIsTrue, Settles, Whole, Parts
    <3>3. CASE ~LeavesHalf(h) /\ ~Settles(h)
      BY <1>1, <2>1, <3>3 DEF Phase, Untouched, Close
    <3>4. QED BY <3>1, <3>2, <3>3
  <2>6. record'[i] = "silent" => "descriptor" \in files[i] \/ i \in unheard'
    <3> SUFFICES ASSUME record[i] = "silent", ~Mentions(h), i \notin unheard
                 PROVE  "descriptor" \in files[i] \/ i \in unheard'
      BY <1>3, <2>2
    <3>1. \/ "descriptor" \in files[i]
          \/ helper[h].action = "remove" /\ helper[h].reply = "remains"
      BY <1>1, <2>1 DEF Phase, Recorded
    <3>2. QED BY <3>1 DEF Close
  <2>7. QED
    BY <1>2, <1>3, <1>4, <2>1, <2>2, <2>3, <2>4, <2>5, <2>6, HolderLeaves DEF Close
<1>5. CASE ~Mutates(h)
  <2>1. lock # h /\ ~CutShort(h) /\ Free(h)
    BY <1>1, <1>5, OthersFinished, Roles DEF IInv, OneMutation
  <2>2. ~LeavesHalf(h) /\ ~Mentions(h) /\ ~Settles(h) /\ helper[h].action # "remove"
    BY <2>1 DEF CutShort, Settles, Free
  <2>3. record' = record /\ left' = left /\ unheard' = unheard /\ lock' = lock
    BY <1>1, <1>3, <2>1, <2>2 DEF TypeOK, Close
  <2>4. QED BY <1>1, <1>5, <2>3, Leaves DEF Close
<1>6. QED BY <1>4, <1>5

\* What becomes of what dying helpers were at.
LEMMA LostLeaves ==
  ASSUME TypeOK, NEW S \in SUBSET Helpers, Lost(S),
         \A g \in S : helper[g] # None => Id(g) \in Ids
  PROVE  /\ left' \subseteq Ids /\ unheard' \subseteq Ids
         /\ left \subseteq left' /\ unheard \subseteq unheard'
         /\ \A g \in S : helper[g] # None /\ CutShort(g) => Id(g) \in left' \cap unheard'
         /\ (\A g \in S : helper[g] # None => ~CutShort(g)) => left' = left /\ unheard' = unheard
  BY DEF TypeOK, Lost

LEMMA KillStep == ASSUME IInv, NEW h \in Helpers, Kill(h) PROVE IInv'
<1> DEFINE i == Id(h)
<1>1. TypeOK /\ helper[h] # None /\ i \in Ids /\ Lost({h})
  BY Roles DEF IInv, Kill
<1>2. helper'[h] = None /\ \A g \in Helpers \ {h} : helper'[g] = helper[g]
  BY <1>1 DEF TypeOK, Kill
<1>3. /\ left' \subseteq Ids /\ unheard' \subseteq Ids
      /\ left \subseteq left' /\ unheard \subseteq unheard'
      /\ CutShort(h) => i \in left' /\ i \in unheard'
      /\ ~CutShort(h) => left' = left /\ unheard' = unheard
  BY <1>1, LostLeaves
<1>4. survivor' \in [Ids -> SUBSET Commands]
  <2>1. CASE Outlives(h)
    <3>1. helper[h].step \in Commands
      BY <2>1 DEF Outlives
    <3>2. survivor' = [survivor EXCEPT ![i] = @ \cup {helper[h].step}]
      BY <2>1 DEF Outlives
    <3>3. QED BY <1>1, <3>1, <3>2 DEF TypeOK
  <2>2. QED BY <1>1, <2>1 DEF TypeOK, Kill
<1>5. TypeOK'
  <2>1. used' \in [requests: 0 .. MaxRequests, faults: 0 .. MaxFaults]
    BY <1>1 DEF TypeOK, Kill
  <2>2. QED BY <1>1, <1>2, <1>3, <1>4, <2>1 DEF TypeOK, Kill
<1>6. CASE Mutates(h)
  <2>1. lock' = None
    BY <1>6, Holder DEF Kill
  <2>2. /\ i \in left' \/ Whole(i)
        /\ record[i] = "silent" => "descriptor" \in files[i] \/ i \in unheard'
    BY <1>3, <1>6, Finished
  <2>3. QED BY <1>2, <1>3, <1>5, <1>6, <2>1, <2>2, HolderLeaves DEF Kill
<1>7. CASE ~Mutates(h)
  <2>1. ~CutShort(h) /\ helper[h].step \notin Commands
    BY <1>1, <1>7, OthersFinished
  <2>2. left' = left /\ unheard' = unheard /\ survivor' = survivor /\ lock' = lock
    BY <1>3, <1>7, <2>1 DEF IInv, OneMutation, Kill, Outlives
  <2>3. ~Mutates(h)' /\ Beside(h)'
    BY <1>2 DEF Mutates, Beside
  <2>4. QED BY <1>2, <1>5, <1>7, <2>2, <2>3, FreeStep DEF Kill
<1>8. QED BY <1>6, <1>7

\* A command that outlived its helper lands: the helpers are left alone, and
\* what the step must establish is about one runner, whoever works on it.
LEMMA LandsStep == ASSUME IInv, NEW i \in Ids, NEW c \in Commands, Lands(i, c) PROVE IInv'
<1>1. TypeOK /\ c \in survivor[i] /\ helper' = helper /\ lock' = lock /\ files' = files
      /\ unit' = unit
  BY DEF IInv, Lands
<1>2. survivor' \in [Ids -> SUBSET Commands] /\ \A j \in Ids : survivor'[j] \subseteq survivor[j]
  BY <1>1 DEF Lands, TypeOK
<1>3. \/ /\ c # "register" /\ i \in left' /\ left \subseteq left' /\ left' \subseteq Ids
         /\ accounts' \subseteq Ids /\ UNCHANGED <<record, unheard>>
         /\ \A j \in Ids \ {i} : j \in accounts' <=> j \in accounts
         /\ unit[i].active = "listening" /\ i \in accounts => i \in accounts'
      \/ /\ c = "register" /\ i \in unheard' /\ unheard \subseteq unheard' /\ unheard' \subseteq Ids
         /\ record' \in [Ids -> {"none", "silent", "reported"}]
         /\ \A j \in Ids \ {i} : record'[j] = record[j]
         /\ UNCHANGED <<accounts, left>>
  BY <1>1 DEF Lands, TypeOK
<1>4. TypeOK'
  BY <1>1, <1>2, <1>3 DEF TypeOK, Lands
<1>5. \A g \in Helpers : Mutates(g)' = Mutates(g) /\ Id(g)' = Id(g) /\ Creates(g)' = Creates(g)
  BY <1>1 DEF Mutates, Id, Creates
<1>6. OneMutation' /\ (\A g \in Helpers : Beside(g))'
  BY <1>1 DEF IInv, OneMutation, Beside, Mutates
<1>7. ASSUME NEW g \in Helpers, Mutates(g)' PROVE Phase(g)'
  <2>1. Mutates(g) /\ Phase(g) /\ Id(g) \in Ids
    BY <1>5, <1>7, Holder
  <2>2. Alone(g)'
    BY <1>1, <1>2, <1>5, <2>1 DEF Phase, Alone
  <2>3. Untouched(g)'
    BY <1>1, <1>3, <1>5, <2>1 DEF Phase, Untouched, Whole, LeavesHalf
  <2>4. Building(g)'
    BY <1>1, <1>3, <1>5, <2>1 DEF Phase, Building, Alone
  <2>5. Recorded(g)'
    BY <1>1, <1>3, <1>5, <2>1 DEF Phase, Recorded, Mentions
  <2>6. QED BY <1>1, <1>5, <2>1, <2>2, <2>3, <2>4, <2>5 DEF Phase
<1>8. RepliesAreTrue'
  <2> SUFFICES ASSUME NEW g \in Helpers, Mutates(g)', At(g, "close")' PROVE AnswerIsTrue(g)'
    BY DEF RepliesAreTrue
  <2>1. Phase(g) /\ Id(g) \in Ids /\ AnswerIsTrue(g) /\ helper[g].step = "close"
    BY <1>1, <1>5, Holder DEF IInv, RepliesAreTrue, At
  <2>2. CASE Id(g) = i /\ c # "register"
    <3>1. helper[g].reply \notin {"ok", "retained", "cleaned", "remains"}
      BY <1>1, <2>1, <2>2 DEF Phase, Alone
    <3>2. QED BY <1>1, <1>5, <2>1, <3>1 DEF AnswerIsTrue
  <2>3. CASE ~(Id(g) = i /\ c # "register")
    <3>1. Id(g) \in accounts' <=> Id(g) \in accounts
      BY <1>3, <2>1, <2>3
    <3>2. QED BY <1>1, <1>5, <2>1, <3>1 DEF AnswerIsTrue
  <2>4. QED BY <2>2, <2>3
<1>9. WholeOrAbsent'
  <2> SUFFICES ASSUME NEW j \in Ids, j \notin left',
                      \A g \in Helpers : lock' = g => Id(g)' # j
               PROVE  "descriptor" \in files'[j] <=> j \in accounts'
    BY DEF WholeOrAbsent
  <2>1. j \notin left /\ (j \in accounts' <=> j \in accounts)
    BY <1>3
  <2>2. QED BY <1>1, <1>5, <2>1 DEF IInv, WholeOrAbsent
<1>10. ListenersHaveRunners'
  BY <1>1, <1>3 DEF IInv, ListenersHaveRunners, Launches
<1>11. NoSilentRecord'
  BY <1>1, <1>3, <1>5 DEF IInv, NoSilentRecord
<1>12. QED BY <1>4, <1>6, <1>7, <1>8, <1>9, <1>10, <1>11 DEF IInv

LEMMA RebootStep == ASSUME IInv, Reboot PROVE IInv'
<1>1. TypeOK /\ lock' = None /\ \A g \in Helpers : helper'[g] = None
  BY DEF IInv, Reboot
<1>2. \A g \in Helpers : helper[g] # None => Id(g) \in Ids
  BY Roles
<1>3. /\ unit' \in [Ids -> [enabled: BOOLEAN, active: Activities]]
      /\ \A i \in Ids : unit'[i].active # "listening"
  <2>1. ASSUME NEW i \in Ids
        PROVE  /\ unit'[i] \in [enabled: BOOLEAN, active: Activities]
               /\ unit'[i].active # "listening"
    <3>1. unit[i] \in [enabled: BOOLEAN, active: Activities]
      BY <1>1 DEF TypeOK
    <3>2. PICK a \in {"trying", "off"} : unit'[i] = [unit[i] EXCEPT !.active = a]
      BY DEF Reboot
    <3>3. QED BY <3>1, <3>2 DEF Activities
  <2>2. QED BY <2>1 DEF Reboot
<1>4. /\ left' \subseteq Ids /\ unheard' \subseteq Ids
      /\ left \subseteq left' /\ unheard \subseteq unheard'
      /\ \A g \in Helpers : helper[g] # None /\ CutShort(g) => Id(g) \in left' \cap unheard'
  BY <1>1, <1>2, LostLeaves DEF Reboot
<1>5. TypeOK'
  <2>1. used' \in [requests: 0 .. MaxRequests, faults: 0 .. MaxFaults]
    BY <1>1 DEF TypeOK, Reboot
  <2>2. QED BY <1>1, <1>3, <1>4, <2>1 DEF TypeOK, Reboot
<1>6. CASE \E h \in Helpers : Mutates(h)
  <2>1. PICK h \in Helpers : Mutates(h)
    BY <1>6
  <2>2. helper[h] # None
    BY <2>1 DEF Mutates
  <2>3. /\ Id(h) \in left' \/ Whole(Id(h))
        /\ record[Id(h)] = "silent" => "descriptor" \in files[Id(h)] \/ Id(h) \in unheard'
    BY <1>4, <2>1, <2>2, Finished
  <2>4. QED BY <1>1, <1>3, <1>4, <1>5, <2>1, <2>3, HolderLeaves DEF Reboot
<1>7. CASE \A h \in Helpers : ~Mutates(h)
  <2>1. \A g \in Helpers : helper'[g] = None /\ lock # g
    BY <1>1, <1>7 DEF IInv, OneMutation
  <2>2. \A g \in Helpers : ~Mutates(g)' /\ Beside(g)' /\ lock' # g
    BY <1>1 DEF Mutates, Beside
  <2>3. OneMutation' /\ (\A g \in Helpers : Mutates(g) => Phase(g))' /\ RepliesAreTrue'
    BY <2>2 DEF OneMutation, RepliesAreTrue
  <2>4. WholeOrAbsent'
    BY <1>4, <2>1 DEF IInv, WholeOrAbsent, Reboot
  <2>5. ListenersHaveRunners' /\ NoSilentRecord'
    BY <1>3, <1>4, <1>7 DEF IInv, ListenersHaveRunners, NoSilentRecord, Reboot
  <2>6. QED BY <1>5, <2>2, <2>3, <2>4, <2>5 DEF IInv
<1>8. QED BY <1>6, <1>7

LEMMA RepairStep == ASSUME IInv, NEW i \in Ids, Repair(i) PROVE IInv'
<1>1. TypeOK /\ lock = None /\ unit[i].active # "listening"
  BY DEF IInv, Repair
<1>2. \A h \in Helpers : ~Mutates(h) /\ ~Mutates(h)' /\ lock' # h /\ lock # h
  BY <1>1 DEF IInv, OneMutation, Mutates, Repair
<1>3. /\ files'[i] = {} /\ i \notin accounts'
      /\ \A j \in Ids \ {i} :
           /\ files'[j] = files[j]
           /\ j \in accounts' <=> j \in accounts
           /\ j \in left' <=> j \in left
  <2>1. files \in [Ids -> SUBSET Parts] /\ files' = [files EXCEPT ![i] = {}]
    BY <1>1 DEF TypeOK, Repair
  <2>2. accounts' = accounts \ {i} /\ left' = left \ {i}
    BY DEF Repair
  <2>3. QED BY <2>1, <2>2
<1>4. TypeOK'
  <2>1. files' \in [Ids -> SUBSET Parts]
    <3>1. files \in [Ids -> SUBSET Parts] /\ files' = [files EXCEPT ![i] = {}]
      BY <1>1 DEF TypeOK, Repair
    <3>2. QED BY <3>1
  <2>2. accounts' \subseteq Ids /\ left' \subseteq Ids /\ unheard' \subseteq Ids
    BY <1>1 DEF TypeOK, Repair
  <2>3. QED BY <1>1, <2>1, <2>2 DEF TypeOK, Repair
<1>5. OneMutation' /\ (\A h \in Helpers : Mutates(h) => Phase(h))' /\ RepliesAreTrue'
  BY <1>2 DEF OneMutation, RepliesAreTrue
<1>6. (\A h \in Helpers : Beside(h))'
  <2> SUFFICES ASSUME NEW h \in Helpers PROVE Beside(h)'
    OBVIOUS
  <2>1. Beside(h) /\ helper' = helper /\ ~Mutates(h)
    BY <1>2 DEF IInv, Repair
  <2>2. QED BY <2>1 DEF Beside
<1>7. WholeOrAbsent'
  <2> SUFFICES ASSUME NEW j \in Ids, j \notin left' PROVE Whole(j)'
    BY DEF WholeOrAbsent, Whole
  <2>1. CASE j = i
    BY <2>1, <1>3 DEF Whole
  <2>2. CASE j # i
    <3>1. j \notin left /\ \A h \in Helpers : lock # h
      BY <1>2, <1>3, <2>2
    <3>2. Whole(j)
      BY <3>1 DEF IInv, WholeOrAbsent, Whole
    <3>3. QED BY <1>3, <2>2, <3>2 DEF Whole
  <2>3. QED BY <2>1, <2>2
<1>8. ListenersHaveRunners'
  BY <1>1, <1>3 DEF IInv, ListenersHaveRunners, Launches, Repair
<1>9. NoSilentRecord'
  BY <1>1, <1>2, <1>3 DEF IInv, NoSilentRecord, Repair
<1>10. QED BY <1>4, <1>5, <1>6, <1>7, <1>8, <1>9 DEF IInv

-----------------------------------------------------------------------------
LEMMA StepStep == ASSUME IInv, NEW h \in Helpers, Step(h) PROVE IInv'
<1>1. CASE \/ ReadDescriptor(h) \/ ReadAgain(h) \/ Enable(h) \/ Disable(h) \/ Restart(h)
  <2>1. helper[h] # None
    BY <1>1 DEF ReadDescriptor, ReadAgain, Enable, Disable, Restart, At
  <2>2. CASE Free(h)
    BY <1>1, <2>2, FreeSteps
  <2>3. CASE ~Free(h)
    <3>1. \/ ReadDescriptor(h) /\ helper[h].action = "remove"
          \/ Disable(h) /\ helper[h].action = "remove"
          \/ Enable(h) /\ helper[h].action = "create"
      BY <1>1, <2>1, <2>3, Roles DEF ReadDescriptor, ReadAgain, Enable, Disable, Restart, At
    <3>2. QED BY <2>1, <3>1, RemoveReads, RemoveDisables, CreateEnables
  <2>4. QED BY <2>2, <2>3
<1>2. CASE Lock(h) \/ Close(h)
  BY <1>2, LockStep, CloseStep
<1>3. CASE CheckAvailable(h) \/ UserAdd(h) \/ MakeState(h) \/ Configure(h) \/ Register(h)
  BY <1>3, CheckAvailableStep, UserAddStep, MakeStateStep, ConfigureStep, RegisterStep
<1>4. CASE RecordRunner(h) \/ UserDel(h) \/ Clear(h)
  BY <1>4, RecordRunnerStep, UserDelStep, ClearStep
<1>5. QED BY <1>1, <1>2, <1>3, <1>4 DEF Step

LEMMA GivesUpStep == ASSUME IInv, NEW h \in Helpers, GivesUp(h) PROVE IInv'
  BY Leaves DEF GivesUp, At, Mutates

LEMMA NextIInv == IInv /\ [Next]_vars => IInv'
<1> SUFFICES ASSUME IInv, [Next]_vars PROVE IInv'
  OBVIOUS
<1>1. CASE Next
  <2>1. ASSUME NEW h \in Helpers,
               \/ \E a \in Actions, i \in Ids, p \in Providers : Request(h, a, i, p)
               \/ Step(h) \/ GivesUp(h) \/ Kill(h)
        PROVE  IInv'
    BY <2>1, RequestStep, StepStep, GivesUpStep, KillStep
  <2>2. ASSUME NEW i \in Ids, Listen(i) \/ ListenerExits(i) \/ Repair(i) PROVE IInv'
    BY <2>2, ListenerStep, RepairStep
  <2>3. QED BY <1>1, <2>1, <2>2, RebootStep, LandsStep DEF Next
<1>2. CASE UNCHANGED vars
  <2>1. TypeOK' /\ \A g \in Helpers : helper'[g] = helper[g]
    BY <1>2 DEF IInv, TypeOK, vars
  <2>2. QED BY <1>2, <2>1, FreeStep DEF vars
<1>3. QED BY <1>1, <1>2

\* The inductive invariant holds in every state of every behaviour.
THEOREM Inductive == Spec => []IInv
  BY InitIInv, NextIInv, PTL DEF Spec

\* The state keeps its types: a helper is at a step the code has, and it has
\* an answer exactly when it is about to return.
THEOREM RunnersTyped == Spec => []TypeOK
  BY Inductive, PTL DEF IInv

\* runners.lock (internal/runners lock): at most one creation or removal is
\* past it, whoever dies and however often the machine restarts.
THEOREM MutationsExclude == Spec => []OneMutation
  BY Inductive, PTL DEF IInv

\* What Create and Remove answer is true of the machine when they answer, for
\* any number of helpers and runners, although Start, Stop and Restart run
\* beside them without the lock.
THEOREM AnswersAreTrue == Spec => []RepliesAreTrue
  BY Inductive, PTL DEF IInv

\* Outside the mutation that is at work on it a runner has its descriptor
\* exactly when it has its account, unless its last mutation could not finish:
\* an answer said that something may remain, a useradd failed, or a helper
\* died or left a command behind.  Any other failure of any step is undone.
THEOREM RunnersAreWhole == Spec => []WholeOrAbsent
  BY Inductive, PTL DEF IInv

\* No provider's listener runs for a runner that is not there, although Start
\* and Restart may run at any moment of a removal.
THEOREM ListenersAreRunners == Spec => []ListenersHaveRunners
  BY Inductive, PTL DEF IInv

\* A creation that answers never leaves GitHub a record of an absent runner
\* that its answer does not mention, for any cleanup and any other helpers; the
\* exceptions are deaths, removals that stopped half way and repairs by hand.
THEOREM RecordsAreKnown == Spec => []NoSilentRecord
  BY Inductive, PTL DEF IInv
=============================================================================
