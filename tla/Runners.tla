------------------------------- MODULE Runners -------------------------------
(***************************************************************************)
(* Local CI runners (internal/runners): soda-runner-helper processes that  *)
(* create, remove, start, stop and restart a runner, which is a Linux      *)
(* account, a directory with provider state and a descriptor, and a        *)
(* systemd unit.  Create and Remove take one lock; Start, Stop and Restart *)
(* take none.  Every command may fail at any time, and one that a dying    *)
(* helper has started may outlive it.                                      *)
(***************************************************************************)
EXTENDS Naturals, FiniteSets

CONSTANTS
    Ids,            \* runner ids
    Helpers,        \* helper processes that may run at once
    None,
    MaxRequests,    \* bound: requests
    MaxFaults       \* bound: killed helpers and reboots

VARIABLES
    accounts,   \* ids whose Linux account exists
    files,      \* what is below the runner's directory, per id
    unit,       \* enablement and activity of soda-runner@ID.service, per id
    record,     \* GitHub's record of the runner, and whether an answer mentioned it
    survivor,   \* commands that outlived the helper that started them, per id
    lock,       \* the helper that holds runners.lock
    helper,     \* what each helper is doing
    left,       \* observed: ids whose last mutation could not finish
    unheard,    \* observed: ids of whose record, if there is one, nobody will hear
    used        \* how much of each bound is used
machine == <<accounts, files, unit, record, survivor>>
seen == <<left, unheard>>
vars == <<machine, lock, helper, seen, used>>

Parts == {"dir", "state", "app", "descriptor"}
Actions == {"create", "remove", "start", "stop", "restart"}
Providers == {"forgejo", "github"}
Steps == {"lock", "check", "useradd", "state", "configure", "register", "record",
          "read", "enable", "reread", "restart", "disable", "userdel", "clear", "close"}
Replies == {"ok", "refused", "useradd", "failed", "retained", "cleaned", "unconfirmed",
            "remains"}
Commands == {"useradd", "register", "userdel"}
Tasks == [action: Actions, id: Ids, provider: Providers, step: Steps,
          inspect: BOOLEAN, reply: Replies \cup {None}]
Activities == {"off", "trying", "listening"}

ASSUME RunnersAssumption ==
    /\ None \notin Helpers /\ None \notin Replies /\ None \notin Tasks
    /\ MaxRequests \in Nat /\ MaxFaults \in Nat

TypeOK ==
    /\ accounts \subseteq Ids
    /\ files \in [Ids -> SUBSET Parts]
    /\ unit \in [Ids -> [enabled: BOOLEAN, active: Activities]]
    /\ record \in [Ids -> {"none", "silent", "reported"}]
    /\ survivor \in [Ids -> SUBSET Commands]
    /\ lock \in Helpers \cup {None}
    /\ helper \in [Helpers -> Tasks \cup {None}]
    /\ left \subseteq Ids /\ unheard \subseteq Ids
    /\ \A h \in Helpers : helper[h] # None => (helper[h].step = "close" <=> helper[h].reply # None)
    /\ used \in [requests: 0 .. MaxRequests, faults: 0 .. MaxFaults]

Init ==
    /\ accounts = {}
    /\ files = [i \in Ids |-> {}]
    /\ unit = [i \in Ids |-> [enabled |-> FALSE, active |-> "off"]]
    /\ record = [i \in Ids |-> "none"]
    /\ survivor = [i \in Ids |-> {}]
    /\ lock = None
    /\ helper = [h \in Helpers |-> None]
    /\ left = {} /\ unheard = {}
    /\ used = [requests |-> 0, faults |-> 0]

-----------------------------------------------------------------------------
At(h, step) == helper[h] # None /\ helper[h].step = step
Id(h) == helper[h].id
Creates(h) == helper[h].action = "create"
GoesTo(h, step) == helper' = [helper EXCEPT ![h].step = step]

Returns_Bare(h, reply) == GoesTo(h, "close")

(* The call returns: Create and Remove still close the lock, the others end.*)
Returns(h, reply) ==
    helper' = [helper EXCEPT ![h].step = "close", ![h].reply = reply]

CleansUp_Never(h, inspect) == Returns(h, "failed")

CleansUp_Locks(h, inspect) == GoesTo(h, "lock")

(* Create fails after useradd: registerPrepared and prepareAccount both     *)
(* leave through creationFailure.                                           *)
CleansUp(h, inspect) ==
    helper' = [helper EXCEPT ![h].step = "userdel", ![h].inspect = inspect]

(* Only a creation names a provider.                                        *)
Request(h, a, i, p) ==
    /\ helper[h] = None
    /\ a = "create" \/ p = "forgejo"
    /\ used.requests < MaxRequests
    /\ used' = [used EXCEPT !.requests = @ + 1]
    /\ helper' = [helper EXCEPT ![h] =
         [action |-> a, id |-> i, provider |-> p, inspect |-> FALSE, reply |-> None,
          step |-> IF a \in {"create", "remove"} THEN "lock" ELSE "read"]]
    /\ UNCHANGED <<machine, lock, seen>>

Lock_Shared(h) ==
    /\ At(h, "lock")
    /\ lock' = h
    /\ GoesTo(h, IF Creates(h) THEN "check" ELSE "read")
    /\ UNCHANGED <<machine, seen, used>>

Lock(h) ==
    /\ At(h, "lock")
    /\ lock = None
    /\ lock' = h
    /\ GoesTo(h, IF Creates(h) THEN "check" ELSE "read")
    /\ UNCHANGED <<machine, seen, used>>

(* A cancelled wait.                                                        *)
GivesUp(h) ==
    /\ At(h, "lock")
    /\ helper' = [helper EXCEPT ![h] = None]
    /\ UNCHANGED <<machine, lock, seen, used>>

(* What the answers leave open, and what they say: that useradd failed does *)
(* not say that the account may exist; a removal that fails does not speak  *)
(* of GitHub's record, one that succeeds is shown with the advice to remove *)
(* it.                                                                      *)
LeavesHalf(h) == helper[h].reply \in {"useradd", "unconfirmed", "remains"}
Settles(h) == helper[h].action \in {"create", "remove"}
                /\ helper[h].reply \in {"ok", "retained", "cleaned"}
Mentions(h) == helper[h].inspect \/ (helper[h].action = "remove" /\ helper[h].reply = "ok")

(* The lock is closed and the answer delivered.                             *)
Close(h) ==
    /\ At(h, "close")
    /\ helper' = [helper EXCEPT ![h] = None]
    /\ lock' = IF lock = h THEN None ELSE lock
    /\ record' = [record EXCEPT ![Id(h)] = IF Mentions(h) /\ @ = "silent" THEN "reported"
                                            ELSE @]
    /\ left' = IF LeavesHalf(h) THEN left \cup {Id(h)}
               ELSE IF Settles(h) THEN left \ {Id(h)} ELSE left
    /\ unheard' = IF helper[h].action = "remove" /\ helper[h].reply = "remains"
                  THEN unheard \cup {Id(h)} ELSE unheard
    /\ UNCHANGED <<accounts, files, unit, survivor, used>>

-----------------------------------------------------------------------------
(* Create.                                                                  *)
Available(i) == "descriptor" \notin files[i] /\ i \notin accounts

CheckAvailable(h) ==
    /\ At(h, "check")
    /\ \/ /\ Available(Id(h))
          /\ files' = [files EXCEPT ![Id(h)] = @ \cup {"dir"}]
          /\ GoesTo(h, "useradd")
       \/ Returns(h, "refused") /\ UNCHANGED files
    /\ UNCHANGED <<accounts, unit, record, survivor, lock, seen, used>>

(* A surviving useradd or userdel finds the name taken, or gone, once       *)
(* another one has succeeded.                                               *)
Overtakes(i) == survivor' = [survivor EXCEPT ![i] = @ \ {"useradd", "userdel"}]

(* useradd runs under the request's context: one that fails or is killed    *)
(* may have made the account.  It leaves the directory too, and nothing     *)
(* cleans up.                                                               *)
UserAdd(h) ==
    /\ At(h, "useradd")
    /\ \/ /\ Id(h) \notin accounts
          /\ accounts' = accounts \cup {Id(h)}
          /\ Overtakes(Id(h))
          /\ GoesTo(h, "state")
       \/ /\ accounts' \in {accounts, accounts \cup {Id(h)}}
          /\ Returns(h, "useradd")
          /\ UNCHANGED survivor
    /\ UNCHANGED <<files, unit, record, lock, seen, used>>

MakeState(h) ==
    /\ At(h, "state")
    /\ \/ /\ files' = [files EXCEPT ![Id(h)] = @ \cup {"state"}]
          /\ GoesTo(h, "configure") \/ CleansUp(h, FALSE)
       \/ CleansUp(h, FALSE) /\ UNCHANGED files
    /\ UNCHANGED <<accounts, unit, record, survivor, lock, seen, used>>

(* configureForgejo writes files over what is there; copyGitHubRunner must  *)
(* create its directory.                                                    *)
Configure(h) ==
    /\ At(h, "configure")
    /\ \/ /\ helper[h].provider = "forgejo"
          /\ UNCHANGED files
          /\ GoesTo(h, "record") \/ CleansUp(h, FALSE)
       \/ /\ helper[h].provider = "github"
          /\ \/ /\ "app" \notin files[Id(h)]
                /\ files' = [files EXCEPT ![Id(h)] = @ \cup {"app"}]
                /\ GoesTo(h, "register") \/ CleansUp(h, FALSE)
             \/ CleansUp(h, FALSE) /\ UNCHANGED files
    /\ UNCHANGED <<accounts, unit, record, survivor, lock, seen, used>>

(* GitHub may have made its record although config.sh fails or times out.   *)
Register(h) ==
    /\ At(h, "register")
    /\ \/ /\ record' = [record EXCEPT ![Id(h)] = "silent"]
          /\ unheard' = unheard \ {Id(h)}
          /\ GoesTo(h, "record") \/ CleansUp(h, TRUE)
       \/ CleansUp(h, TRUE) /\ UNCHANGED <<record, unheard>>
    /\ UNCHANGED <<accounts, files, unit, survivor, lock, left, used>>

MustInspect_Never(h) == FALSE

MustInspect(h) == helper[h].provider = "github"

RecordRunner(h) ==
    /\ At(h, "record")
    /\ \/ /\ files' = [files EXCEPT ![Id(h)] = @ \cup {"descriptor"}]
          /\ GoesTo(h, "enable")
       \/ CleansUp(h, MustInspect(h)) /\ UNCHANGED files
    /\ UNCHANGED <<accounts, unit, record, survivor, lock, seen, used>>

-----------------------------------------------------------------------------
(* Remove, and Create's cleanup.                                            *)
AfterRead(a) ==
    CASE a = "remove" -> "disable" [] a = "stop" -> "disable"
      [] a = "start" -> "enable"   [] a = "restart" -> "enable"

ReadDescriptor(h) ==
    /\ At(h, "read")
    /\ \/ "descriptor" \in files[Id(h)] /\ GoesTo(h, AfterRead(helper[h].action))
       \/ Returns(h, "failed")
    /\ UNCHANGED <<machine, lock, seen, used>>

Off == [enabled |-> FALSE, active |-> "off"]
AfterDisable_FilesFirst == "clear"

AfterDisable == "userdel"

(* systemctl disable --now                                                  *)
Disable(h) ==
    /\ At(h, "disable")
    /\ \/ /\ unit' = [unit EXCEPT ![Id(h)] = Off]
          /\ IF helper[h].action = "remove" THEN GoesTo(h, AfterDisable) ELSE Returns(h, "ok")
       \/ /\ \E e \in {FALSE, unit[Id(h)].enabled}, a \in {"off", unit[Id(h)].active} :
               unit' = [unit EXCEPT ![Id(h)] = [enabled |-> e, active |-> a]]
          /\ Returns(h, "failed")
    /\ UNCHANGED <<accounts, files, record, survivor, lock, seen, used>>

(* userdel refuses to delete an account with a running process; one that    *)
(* fails or is interrupted may have deleted it.                             *)
UserDel(h) ==
    /\ At(h, "userdel")
    /\ \/ UNCHANGED accounts
       \/ unit[Id(h)].active # "listening" /\ accounts' = accounts \ {Id(h)}
    /\ \/ Id(h) \in accounts \ accounts' /\ Overtakes(Id(h)) /\ GoesTo(h, "clear")
       \/ Returns(h, "unconfirmed") /\ UNCHANGED survivor
    /\ UNCHANGED <<files, unit, record, lock, seen, used>>

Clear(h) ==
    /\ At(h, "clear")
    /\ \/ /\ files' = [files EXCEPT ![Id(h)] = {}]
          /\ Returns(h, IF Creates(h) THEN "cleaned" ELSE "ok")
       \/ /\ \E kept \in SUBSET files[Id(h)] :
               "dir" \in kept /\ files' = [files EXCEPT ![Id(h)] = kept]
          /\ Returns(h, "remains")
    /\ UNCHANGED <<accounts, unit, record, survivor, lock, seen, used>>

-----------------------------------------------------------------------------
(* Start, Restart and the last step of Create.                              *)
Started(i) ==
    [unit EXCEPT ![i] = [enabled |-> TRUE, active |-> IF @.active = "off" THEN "trying"
                                                      ELSE @.active]]

(* systemctl enable, with --now unless it is the first half of a restart.   *)
Enable(h) ==
    /\ At(h, "enable")
    /\ \/ /\ helper[h].action = "restart"
          /\ unit' = [unit EXCEPT ![Id(h)].enabled = TRUE]
          /\ GoesTo(h, "reread")
       \/ /\ helper[h].action # "restart"
          /\ unit' = Started(Id(h))
          /\ Returns(h, "ok")
       \/ /\ \E e \in {TRUE, unit[Id(h)].enabled} : unit' = [unit EXCEPT ![Id(h)].enabled = e]
          /\ Returns(h, IF Creates(h) THEN "retained" ELSE "failed")
    /\ UNCHANGED <<accounts, files, record, survivor, lock, seen, used>>

(* Restart is two service actions, and each reads the descriptor.           *)
ReadAgain(h) ==
    /\ At(h, "reread")
    /\ \/ "descriptor" \in files[Id(h)] /\ GoesTo(h, "restart")
       \/ Returns(h, "failed")
    /\ UNCHANGED <<machine, lock, seen, used>>

Restart(h) ==
    /\ At(h, "restart")
    /\ \/ /\ unit' = [unit EXCEPT ![Id(h)].active = "trying"]
          /\ Returns(h, "ok")
       \/ /\ \E a \in {"off", "trying"} : unit' = [unit EXCEPT ![Id(h)].active = a]
          /\ Returns(h, "failed")
    /\ UNCHANGED <<accounts, files, record, survivor, lock, seen, used>>

-----------------------------------------------------------------------------
(* systemd: Restart=always tries again until the unit is stopped.  The      *)
(* launcher needs the account and its directory, and reads the descriptor   *)
(* before it becomes the provider's listener.                               *)
Launches(i) == i \in accounts /\ {"state", "descriptor"} \subseteq files[i]

Listen(i) ==
    /\ unit[i].active = "trying"
    /\ Launches(i)
    /\ unit' = [unit EXCEPT ![i].active = "listening"]
    /\ UNCHANGED <<accounts, files, record, survivor, lock, helper, seen, used>>

ListenerExits(i) ==
    /\ unit[i].active = "listening"
    /\ unit' = [unit EXCEPT ![i].active = "trying"]
    /\ UNCHANGED <<accounts, files, record, survivor, lock, helper, seen, used>>

(* A helper that dies answers nobody: what it was in the middle of stays    *)
(* half done, and what it would have said is not said.  The lock is free.   *)
CutShort(h) == LeavesHalf(h) \/ Mentions(h)
    \/ helper[h].step \in {"state", "configure", "register", "record", "userdel", "clear"}
Lost(S) ==
    LET dead == {Id(h) : h \in {g \in S : helper[g] # None /\ CutShort(g)}} IN
    left' = left \cup dead /\ unheard' = unheard \cup dead

(* Nothing ties a command to the helper that started it.                    *)
Outlives(h) ==
    /\ helper[h].step \in Commands
    /\ survivor' = [survivor EXCEPT ![Id(h)] = @ \cup {helper[h].step}]

Kill(h) ==
    /\ helper[h] # None
    /\ used.faults < MaxFaults
    /\ used' = [used EXCEPT !.faults = @ + 1]
    /\ helper' = [helper EXCEPT ![h] = None]
    /\ lock' = IF lock = h THEN None ELSE lock
    /\ Outlives(h) \/ UNCHANGED survivor
    /\ Lost({h})
    /\ UNCHANGED <<accounts, files, unit, record>>

(* A surviving command does its work, whoever holds the lock by then.       *)
Lands(i, c) ==
    /\ c \in survivor[i]
    /\ survivor' = [survivor EXCEPT ![i] = @ \ {c}]
    /\ \/ /\ \/ c = "useradd" /\ accounts' = accounts \cup {i}
             \/ c = "userdel" /\ unit[i].active # "listening" /\ accounts' = accounts \ {i}
          /\ left' = left \cup {i}
          /\ UNCHANGED <<record, unheard>>
       \/ /\ c = "register" /\ record' = [record EXCEPT ![i] = "silent"]
          /\ unheard' = unheard \cup {i}
          /\ UNCHANGED <<accounts, left>>
    /\ UNCHANGED <<files, unit, lock, helper, used>>

Reboot ==
    /\ used.faults < MaxFaults
    /\ used' = [used EXCEPT !.faults = @ + 1]
    /\ helper' = [h \in Helpers |-> None]
    /\ lock' = None
    /\ survivor' = [i \in Ids |-> {}]
    /\ unit' = [i \in Ids |-> [unit[i] EXCEPT !.active = IF unit[i].enabled THEN "trying"
                                                        ELSE "off"]]
    /\ Lost(Helpers)
    /\ UNCHANGED <<accounts, files, record>>

(* "resolve that native Linux failure before retrying": an administrator    *)
(* deletes what was left, and nothing reminds of GitHub's record.           *)
Repair(i) ==
    /\ i \in left /\ lock = None /\ unit[i].active # "listening"
    /\ accounts' = accounts \ {i}
    /\ files' = [files EXCEPT ![i] = {}]
    /\ left' = left \ {i} /\ unheard' = unheard \cup {i}
    /\ UNCHANGED <<unit, record, survivor, lock, helper, used>>

-----------------------------------------------------------------------------
Step(h) ==
    \/ Lock(h) \/ Close(h) \/ CheckAvailable(h) \/ UserAdd(h) \/ MakeState(h)
    \/ Configure(h) \/ Register(h) \/ RecordRunner(h) \/ ReadDescriptor(h) \/ Disable(h)
    \/ UserDel(h) \/ Clear(h) \/ Enable(h) \/ ReadAgain(h) \/ Restart(h)

Next ==
    \/ \E h \in Helpers :
         \/ \E a \in Actions, i \in Ids, p \in Providers : Request(h, a, i, p)
         \/ Step(h) \/ GivesUp(h) \/ Kill(h)
    \/ \E i \in Ids : Listen(i) \/ ListenerExits(i) \/ Repair(i)
    \/ \E i \in Ids, c \in Commands : Lands(i, c)
    \/ Reboot

Spec == Init /\ [][Next]_vars

(* Processes are scheduled and a free lock is taken by one that polls it.   *)
Fairness == \A h \in Helpers : WF_vars(Step(h))
FairSpec == Spec /\ Fairness

-----------------------------------------------------------------------------
(* At most one creation or removal is past the lock, and it is the holder.  *)
Mutates(h) == helper[h] # None /\ helper[h].action \in {"create", "remove"}
                /\ helper[h].step # "lock"
OneMutation == \A h \in Helpers : Mutates(h) <=> lock = h

(* What Create and Remove answer is true of the machine when they answer,   *)
(* whatever ran beside them: a runner that is reported created or retained  *)
(* is there with its account, one reported removed has left nothing, an     *)
(* account whose removal is unconfirmed still has its state, and a creation *)
(* whose useradd failed has recorded no runner.                             *)
AnswerIsTrue(h) ==
    LET i == Id(h) reply == helper[h].reply IN
    /\ reply = "retained" \/ (Creates(h) /\ reply = "ok") =>
         i \in accounts /\ Parts \ {"app"} \subseteq files[i]
    /\ reply = "cleaned" \/ (~Creates(h) /\ reply = "ok") =>
         i \notin accounts /\ files[i] = {}
    /\ reply = "unconfirmed" => (IF Creates(h) THEN "dir" ELSE "descriptor") \in files[i]
    /\ reply = "remains" => i \notin accounts
    /\ reply = "useradd" => "descriptor" \notin files[i]
RepliesAreTrue ==
    \A h \in Helpers : Mutates(h) /\ At(h, "close") => AnswerIsTrue(h)

(* Between mutations a runner is whole or absent: account and descriptor    *)
(* exist together.  The exceptions are mutations that could not finish: one *)
(* whose answer says that the account or the state may remain, one whose    *)
(* useradd failed (which cleans nothing up), one whose helper died, and the *)
(* account that a command of a dead helper makes or deletes later.          *)
WholeOrAbsent ==
    \A i \in Ids : i \notin left /\ (\A h \in Helpers : lock = h => Id(h) # i) =>
      ("descriptor" \in files[i] <=> i \in accounts)

(* A provider's listener runs only for a recorded runner with its account   *)
(* and state, although Start and Restart take no lock and may run at any    *)
(* moment of a removal or a new creation.                                   *)
ListenersHaveRunners == \A i \in Ids : unit[i].active = "listening" => Launches(i)

(* GitHub has a record that no answer mentioned only while its runner is    *)
(* here or a mutation of it is running: a creation that fails after the     *)
(* registration, or whose registration failed, always says that the record  *)
(* must be inspected, however its cleanup ends.  The exceptions: a helper   *)
(* died, its registration outlived it, a removal could not delete all of    *)
(* the state, or an administrator deleted the runner by hand.               *)
NoSilentRecord ==
    \A i \in Ids : record[i] = "silent" =>
      \/ "descriptor" \in files[i]
      \/ i \in unheard
      \/ \E h \in Helpers : Mutates(h) /\ Id(h) = i

(* Every request ends.                                                      *)
RequestsEnd == \A h \in Helpers : helper[h] # None ~> helper[h] = None
=============================================================================
